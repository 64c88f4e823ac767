------------------------- MODULE SchemaSync_proofs -------------------------
(***************************************************************************)
(* Proofs about the schema synchroniser.                                   *)
(***************************************************************************)
EXTENDS SchemaSync, SequenceTheorems, WellFoundedInduction, TLAPS

-----------------------------------------------------------------------------
(* Sequences: what is said of every two of their members, in their order,  *)
(* and what concatenations and filters make of it.                         *)
Lined(seq, R) == \A m, n \in DOMAIN seq : m < n => <<seq[m], seq[n]>> \in R

LEMMA Members ==
    ASSUME NEW S, NEW seq \in Seq(S)
    PROVE  /\ Len(seq) \in Nat /\ DOMAIN seq = 1 .. Len(seq)
           /\ ToSet(seq) \subseteq S
           /\ \A n \in DOMAIN seq : seq[n] \in ToSet(seq)
BY DEF ToSet

LEMMA Joined ==
    ASSUME NEW S, NEW s \in Seq(S), NEW t \in Seq(S)
    PROVE  /\ s \o t \in Seq(S)
           /\ ToSet(s \o t) = ToSet(s) \cup ToSet(t)
           /\ \A R : Lined(s, R) /\ Lined(t, R)
                     /\ (\A x \in ToSet(s), y \in ToSet(t) : <<x, y>> \in R)
                     => Lined(s \o t, R)
<1> DEFINE c == s \o t
<1>1. /\ c \in Seq(S) /\ Len(c) = Len(s) + Len(t) /\ Len(s) \in Nat /\ Len(t) \in Nat
      /\ \A n \in 1 .. Len(s) + Len(t) : c[n] = IF n <= Len(s) THEN s[n] ELSE t[n - Len(s)]
    BY ConcatProperties, LenProperties
<1>2. DOMAIN c = 1 .. Len(s) + Len(t) /\ DOMAIN s = 1 .. Len(s) /\ DOMAIN t = 1 .. Len(t)
    BY <1>1, LenProperties
<1> HIDE DEF c
<1>3. \A n \in DOMAIN s : n \in DOMAIN c /\ c[n] = s[n]
    BY <1>1, <1>2
<1>4. \A n \in DOMAIN t : n + Len(s) \in DOMAIN c /\ c[n + Len(s)] = t[n]
    BY <1>1, <1>2
<1>5. \A n \in DOMAIN c :
          \/ n \in DOMAIN s
          \/ n - Len(s) \in DOMAIN t /\ c[n] = t[n - Len(s)] /\ n > Len(s)
    BY <1>1, <1>2
<1>6. ToSet(c) = ToSet(s) \cup ToSet(t)
    BY <1>3, <1>4, <1>5 DEF ToSet
<1>7. ASSUME NEW R, Lined(s, R), Lined(t, R),
             \A x \in ToSet(s), y \in ToSet(t) : <<x, y>> \in R,
             NEW m \in DOMAIN c, NEW n \in DOMAIN c, m < n
      PROVE  <<c[m], c[n]>> \in R
  <2>1. CASE m \in DOMAIN s /\ n \in DOMAIN s
        BY <1>3, <1>7, <2>1 DEF Lined
  <2>2. CASE m \in DOMAIN s /\ n \notin DOMAIN s
        BY <1>3, <1>5, <1>7, <2>2 DEF ToSet
  <2>3. CASE m \notin DOMAIN s
    <3>1. m - Len(s) < n - Len(s) /\ n \notin DOMAIN s
          BY <1>1, <1>2, <1>7, <2>3
    <3>2. QED
          BY <1>5, <1>7, <2>3, <3>1 DEF Lined
  <2>4. QED
        BY <2>1, <2>2, <2>3
<1>8. QED
    BY <1>1, <1>6, <1>7 DEF c, Lined

(* A set of numbers with 1 in it, and with the successor of each, has all  *)
(* of them up to n.                                                        *)
LEMMA UpTo ==
    ASSUME NEW n \in Nat, NEW S, 1 \in S, \A b \in 1 .. n - 1 : b \in S => b + 1 \in S
    PROVE  1 .. n \subseteq S
<1> DEFINE T == {b \in 1 .. n : b \notin S}
           Less == {ss \in Nat \X Nat : ss[1] < ss[2]}
<1> SUFFICES ASSUME T # {} PROVE FALSE
    OBVIOUS
<1>1. IsWellFoundedOn(Less, Nat)
  <2>1. OpToRel(<, Nat) = Less
        BY Zenon DEF OpToRel
  <2>2. QED
        BY <2>1, NatLessThanWellFounded, Zenon
<1>2. \A x \in Nat, y \in Nat : <<y, x>> \in Less <=> y < x
    OBVIOUS
<1>3. PICK x \in T : \A y \in T : <<y, x>> \notin Less
  <2>1. T \in SUBSET Nat
        OBVIOUS
  <2> HIDE DEF Less, T
  <2>2. QED
        BY <1>1, <2>1, WFMin, Zenon
<1> HIDE DEF Less
<1>4. x \in 1 .. n /\ x # 1 /\ x \notin S
    OBVIOUS
<1>5. x - 1 \in 1 .. n - 1 /\ x - 1 \in 1 .. n /\ x - 1 < x /\ x - 1 + 1 = x /\ x - 1 \in Nat /\ x \in Nat
    BY <1>4
<1>6. x - 1 \in S
    BY <1>2, <1>3, <1>5
<1>7. QED
    BY <1>4, <1>5, <1>6

(* FlattenSeq's recursive function has a value for every sequence.         *)
Flattening(f, n, seqs) ==
    f = [i \in 1 .. n |-> IF i = 1 THEN seqs[i] ELSE f[i - 1] \o seqs[i]]

LEMMA FlatteningExists ==
    ASSUME NEW seqs, NEW k \in Nat, k # 0
    PROVE  \E f : Flattening(f, k, seqs)
<1> DEFINE S == {n \in 1 .. k : \E f : Flattening(f, n, seqs)}
<1>1. 1 \in S
  <2> DEFINE f == [i \in 1 .. 1 |-> seqs[1]]
  <2>1. \A i \in 1 .. 1 : i = 1
        OBVIOUS
  <2>2. Flattening(f, 1, seqs)
        BY <2>1 DEF Flattening
  <2>3. QED
        BY <2>2
<1>2. ASSUME NEW n \in 1 .. k - 1, n \in S PROVE n + 1 \in S
  <2>1. PICK f : Flattening(f, n, seqs)
        BY <1>2
  <2> DEFINE Join(a, b) == a \o b
             last == Join(f[n], seqs[n + 1])
             g == [i \in 1 .. n + 1 |-> IF i = n + 1 THEN last ELSE f[i]]
  <2>2. n \in Nat /\ n >= 1 /\ n + 1 \in 1 .. k /\ n + 1 # 1 /\ n + 1 - 1 = n /\ n # n + 1
        OBVIOUS
  <2>3. ASSUME NEW i \in 1 .. n + 1
        PROVE  g[i] = IF i = 1 THEN seqs[i] ELSE g[i - 1] \o seqs[i]
    <3>1. CASE i = n + 1
      <4>1. g[n] = f[n] /\ g[n + 1] = last
        <5> HIDE DEF last
        <5>1. QED
              BY <2>2
      <4> HIDE DEF g
      <4>2. g[n + 1] = Join(g[n], seqs[n + 1])
            BY <4>1
      <4> HIDE DEF Join
      <4>3. g[i] = Join(g[i - 1], seqs[i]) /\ i # 1
            BY <2>2, <3>1, <4>2
      <4>4. QED
            BY <4>3 DEF Join
    <3>2. CASE i = 1
      <4>1. 1 \in 1 .. n /\ 1 # n + 1 /\ 1 \in 1 .. n + 1
            BY <2>2
      <4>2. f[1] = seqs[1]
            BY <2>1, <4>1 DEF Flattening
      <4>3. g[1] = f[1]
            BY <4>1
      <4> HIDE DEF g
      <4>4. QED
            BY <3>2, <4>2, <4>3
    <3>3. CASE i # n + 1 /\ i # 1
      <4>1. i \in 1 .. n /\ i - 1 \in 1 .. n + 1 /\ i - 1 # n + 1
            BY <2>2, <3>3
      <4>2. f[i] = f[i - 1] \o seqs[i]
            BY <2>1, <3>3, <4>1 DEF Flattening
      <4>3. g[i] = f[i] /\ g[i - 1] = f[i - 1]
            BY <3>3, <4>1
      <4> HIDE DEF g
      <4>4. QED
            BY <3>3, <4>2, <4>3
    <3>4. QED
          BY <3>1, <3>2, <3>3
  <2>4. g = [i \in 1 .. n + 1 |-> g[i]]
        OBVIOUS
  <2> HIDE DEF g
  <2>5. Flattening(g, n + 1, seqs)
        BY <2>3, <2>4 DEF Flattening
  <2>6. QED
        BY <2>2, <2>5
<1> HIDE DEF S
<1>3. 1 .. k \subseteq S
    BY <1>1, <1>2, UpTo
<1>4. k \in S
    BY <1>3
<1>5. QED
    BY <1>4 DEF S

(* What a function that joins sequences one after another has in the end.  *)
InOne(joined, seqs, k, S) ==
    /\ joined \in Seq(S)
    /\ ToSet(joined) = UNION {ToSet(seqs[n]) : n \in 1 .. k}
    /\ \A R : (\A n \in 1 .. k : Lined(seqs[n], R))
              /\ (\A m, n \in 1 .. k : m < n =>
                     \A x \in ToSet(seqs[m]), y \in ToSet(seqs[n]) : <<x, y>> \in R)
              => Lined(joined, R)

LEMMA JoinedAll ==
    ASSUME NEW S, NEW seqs, NEW k \in Nat, k # 0, NEW f, Flattening(f, k, seqs),
           \A n \in 1 .. k : seqs[n] \in Seq(S)
    PROVE  InOne(f[k], seqs, k, S)
<1>1. f[1] = seqs[1] /\ \A n \in 1 .. k - 1 : f[n + 1] = f[n] \o seqs[n + 1]
  <2> DEFINE Join(a, b) == a \o b
  <2>1. \A n \in 1 .. k : f[n] = IF n = 1 THEN seqs[n] ELSE Join(f[n - 1], seqs[n])
        BY Zenon DEF Flattening
  <2> HIDE DEF Join
  <2>2. \A n \in 1 .. k - 1 : n + 1 \in 1 .. k /\ n + 1 # 1 /\ n + 1 - 1 = n
        OBVIOUS
  <2>3. 1 \in 1 .. k
        OBVIOUS
  <2>4. f[1] = seqs[1]
        BY <2>1, <2>3
  <2>5. \A n \in 1 .. k - 1 : f[n + 1] = Join(f[n], seqs[n + 1])
        BY <2>1, <2>2
  <2>6. QED
        BY <2>4, <2>5 DEF Join
<1> DEFINE Apart(n, R) == \A m, l \in 1 .. n : m < l =>
                             \A x \in ToSet(seqs[m]), y \in ToSet(seqs[l]) : <<x, y>> \in R
           Good(n) == /\ f[n] \in Seq(S)
                      /\ ToSet(f[n]) = UNION {ToSet(seqs[m]) : m \in 1 .. n}
                      /\ \A R : (\A m \in 1 .. n : Lined(seqs[m], R)) /\ Apart(n, R)
                                => Lined(f[n], R)
           T == {n \in 1 .. k : Good(n)}
<1>2. 1 \in T
  <2>1. 1 \in 1 .. k /\ 1 .. 1 = {1}
        OBVIOUS
  <2>2. f[1] \in Seq(S) /\ ToSet(f[1]) = UNION {ToSet(seqs[m]) : m \in 1 .. 1}
        BY <1>1, <2>1
  <2>3. \A R : (\A m \in 1 .. 1 : Lined(seqs[m], R)) => Lined(f[1], R)
        BY <1>1, <2>1
  <2> HIDE DEF Apart
  <2>4. Good(1)
        BY <2>2, <2>3
  <2> HIDE DEF Good
  <2>5. QED
        BY <2>1, <2>4
<1>3. ASSUME NEW n \in 1 .. k - 1, n \in T PROVE n + 1 \in T
  <2>1. /\ n + 1 \in 1 .. k /\ n \in 1 .. k /\ 1 .. n + 1 = (1 .. n) \cup {n + 1}
        /\ \A m \in 1 .. n : m < n + 1
        OBVIOUS
  <2>2. f[n] \in Seq(S) /\ seqs[n + 1] \in Seq(S) /\ f[n + 1] = f[n] \o seqs[n + 1]
        BY <1>1, <1>3, <2>1
  <2>3. f[n + 1] \in Seq(S)
        BY <2>2, Joined
  <2>4. ToSet(f[n + 1]) = UNION {ToSet(seqs[m]) : m \in 1 .. n + 1}
    <3>1. ToSet(f[n + 1]) = ToSet(f[n]) \cup ToSet(seqs[n + 1])
          BY <2>2, Joined
    <3>2. ToSet(f[n]) = UNION {ToSet(seqs[m]) : m \in 1 .. n}
          BY <1>3
    <3>3. QED
          BY <2>1, <3>1, <3>2
  <2>5. ASSUME NEW R, \A m \in 1 .. n + 1 : Lined(seqs[m], R), Apart(n + 1, R)
        PROVE  Lined(f[n + 1], R)
    <3>1. Lined(f[n], R)
          BY <1>3, <2>1, <2>5
    <3>2. Lined(seqs[n + 1], R)
          BY <2>1, <2>5
    <3>3. ASSUME NEW x \in ToSet(f[n]), NEW y \in ToSet(seqs[n + 1]) PROVE <<x, y>> \in R
      <4>1. ToSet(f[n]) = UNION {ToSet(seqs[m]) : m \in 1 .. n}
            BY <1>3
      <4>2. PICK m \in 1 .. n : x \in ToSet(seqs[m])
            BY <4>1
      <4>3. m \in 1 .. n + 1 /\ n + 1 \in 1 .. n + 1 /\ m < n + 1
            BY <2>1
      <4>4. QED
            BY <2>5, <4>2, <4>3
    <3>4. QED
          BY <2>2, <3>1, <3>2, <3>3, Joined
  <2>6. QED
        BY <2>1, <2>3, <2>4, <2>5
<1> HIDE DEF T
<1>4. 1 .. k \subseteq T
      BY <1>2, <1>3, UpTo
<1>5. k \in T
      BY <1>4
<1>6. QED
      BY <1>5 DEF T, InOne

LEMMA Flattened ==
    ASSUME NEW S, NEW seqs, NEW k \in Nat, DOMAIN seqs = 1 .. k, seqs \in Seq(Seq(S))
    PROVE  /\ FlattenSeq(seqs) \in Seq(S)
           /\ ToSet(FlattenSeq(seqs)) = UNION {ToSet(seqs[n]) : n \in 1 .. k}
           /\ \A R : (\A n \in 1 .. k : Lined(seqs[n], R))
                     /\ (\A m, n \in 1 .. k : m < n =>
                            \A x \in ToSet(seqs[m]), y \in ToSet(seqs[n]) : <<x, y>> \in R)
                     => Lined(FlattenSeq(seqs), R)
<1>1. Len(seqs) = k /\ \A n \in 1 .. k : seqs[n] \in Seq(S)
    BY LenProperties
<1>2. CASE k = 0
  <2>1. FlattenSeq(seqs) = seqs /\ seqs = << >> /\ DOMAIN seqs = {}
        BY <1>1, <1>2 DEF FlattenSeq
  <2>2. ToSet(seqs) = {} /\ seqs \in Seq(S) /\ (\A R : Lined(seqs, R)) /\ 1 .. k = {}
        BY <1>2, <2>1 DEF ToSet, Lined
  <2>3. QED
        BY <2>1, <2>2
<1>3. CASE k # 0
  <2> DEFINE f == CHOOSE f : Flattening(f, k, seqs)
  <2>1. FlattenSeq(seqs) = f[k]
        BY <1>1, <1>3 DEF FlattenSeq, Flattening
  <2>2. Flattening(f, k, seqs)
    <3> HIDE DEF Flattening
    <3>1. QED
          BY <1>3, FlatteningExists
  <2> HIDE DEF f
  <2>3. InOne(f[k], seqs, k, S)
        BY <1>1, <1>3, <2>2, JoinedAll
  <2>4. QED
        BY <2>1, <2>3 DEF InOne
<1>4. QED
    BY <1>2, <1>3

LEMMA Listed ==
    ASSUME NEW S, NEW k \in Nat, NEW seq, seq = [n \in 1 .. k |-> seq[n]],
           \A n \in 1 .. k : seq[n] \in S
    PROVE  seq \in Seq(S) /\ Len(seq) = k /\ DOMAIN seq = 1 .. k
<1>1. seq \in [1 .. k -> S] /\ DOMAIN seq = 1 .. k
    OBVIOUS
<1>2. seq \in Seq(S)
    BY <1>1, SeqDef
<1>3. QED
    BY <1>1, <1>2, LenProperties

(* What a loop that skips some members of a sequence leaves of it.         *)
Distinct(seq) == \A m, n \in DOMAIN seq : m < n => seq[m] # seq[n]

LEMMA ChosenIs ==
    ASSUME NEW T, NEW seq \in Seq(T), NEW S
    PROVE  /\ Chosen(seq, S) \in Seq(T)
           /\ ToSet(Chosen(seq, S)) = ToSet(seq) \cap S
           /\ Distinct(seq) => Distinct(Chosen(seq, S))
<1> DEFINE k == Len(seq)
           e == [n \in 1 .. k |-> IF seq[n] \in S THEN <<seq[n]>> ELSE << >>]
           R == {p \in T \X T : p[1] # p[2]}
<1>1. k \in Nat /\ DOMAIN seq = 1 .. k /\ \A n \in 1 .. k : seq[n] \in T
    BY LenProperties, ElementOfSeq
<1>2. \A n \in 1 .. k : e[n] = IF seq[n] \in S THEN <<seq[n]>> ELSE << >>
    OBVIOUS
<1>3. CASE k = 0
  <2>1. seq = << >> /\ 1 .. k = {}
        BY <1>1, <1>3
  <2>2. Chosen(seq, S) = << >>
        BY <2>1 DEF Chosen
  <2>3. ToSet(<< >>) = {} /\ << >> \in Seq(T) /\ Distinct(<< >>)
        BY DEF ToSet, Distinct
  <2>4. QED
        BY <2>1, <2>2, <2>3
<1>4. CASE k # 0
  <2> DEFINE f == CHOOSE f : f = [n \in 1 .. k |-> IF n = 1 THEN e[n] ELSE f[n - 1] \o e[n]]
  <2>1. Chosen(seq, S) = f[k]
    <3>1. seq # << >>
          BY <1>4
    <3>2. QED
          BY <3>1 DEF Chosen
  <2>2. Flattening(f, k, e)
    <3>1. \E g : Flattening(g, k, e)
      <4> HIDE DEF k, e
      <4>1. QED
            BY <1>1, <1>4, FlatteningExists
    <3>2. (\E g : Flattening(g, k, e)) => Flattening(f, k, e)
      <4> HIDE DEF k, e
      <4>1. QED
            BY Zenon DEF Flattening
    <3>3. QED
          BY <3>1, <3>2
  <2> HIDE DEF f
  <2> HIDE DEF k, e
  <2>3. ASSUME NEW x \in T
        PROVE  <<x>> \in Seq(T) /\ ToSet(<<x>>) = {x} /\ DOMAIN <<x>> = {1}
        BY DEF ToSet
  <2>4. << >> \in Seq(T) /\ ToSet(<< >>) = {} /\ DOMAIN << >> = {}
        BY DEF ToSet
  <2>5. \A n \in 1 .. k : e[n] \in Seq(T) /\ ToSet(e[n]) = {seq[n]} \cap S
    <3> SUFFICES ASSUME NEW n \in 1 .. k
                 PROVE  e[n] \in Seq(T) /\ ToSet(e[n]) = {seq[n]} \cap S
          OBVIOUS
    <3>1. CASE seq[n] \in S
      <4>1. e[n] = <<seq[n]>> /\ seq[n] \in T
            BY <1>1, <1>2, <3>1
      <4>2. ToSet(<<seq[n]>>) = {seq[n]} /\ <<seq[n]>> \in Seq(T)
            BY <2>3, <4>1
      <4>3. QED
            BY <3>1, <4>1, <4>2
    <3>2. CASE seq[n] \notin S
          BY <1>2, <2>4, <3>2
    <3>3. QED
          BY <3>1, <3>2
  <2>6. \A n \in 1 .. k : Lined(e[n], R)
    <3>1. ASSUME NEW x \in T PROVE Lined(<<x>>, R)
          BY <2>3, <3>1 DEF Lined
    <3>2. Lined(<< >>, R)
          BY <2>4 DEF Lined
    <3>3. QED
          BY <1>1, <1>2, <3>1, <3>2
  <2>7. InOne(f[k], e, k, T)
        BY <1>1, <1>4, <2>2, <2>5, JoinedAll
  <2>8. ToSet(Chosen(seq, S)) = ToSet(seq) \cap S
    <3>1. ToSet(f[k]) = UNION {ToSet(e[n]) : n \in 1 .. k}
          BY <2>7 DEF InOne
    <3>2. UNION {ToSet(e[n]) : n \in 1 .. k} = ToSet(seq) \cap S
      <4>1. \A v : v \in ToSet(seq) <=> \E n \in 1 .. k : v = seq[n]
            BY <1>1 DEF ToSet
      <4>2. \A v : v \in UNION {ToSet(e[n]) : n \in 1 .. k} <=>
                       \E n \in 1 .. k : v \in ToSet(e[n])
            OBVIOUS
      <4>3. \A n \in 1 .. k : \A v : v \in ToSet(e[n]) <=> v = seq[n] /\ v \in S
            BY <2>5
      <4>4. \A v : v \in UNION {ToSet(e[n]) : n \in 1 .. k} <=> v \in ToSet(seq) \cap S
            BY <4>1, <4>2, <4>3
      <4>5. QED
            BY <4>4
    <3>3. QED
          BY <2>1, <3>1, <3>2
  <2>9. ASSUME Distinct(seq) PROVE Distinct(Chosen(seq, S))
    <3>1. \A m, n \in 1 .. k : m < n =>
              \A x \in ToSet(e[m]), y \in ToSet(e[n]) : <<x, y>> \in R
      <4>1. ASSUME NEW m \in 1 .. k, NEW n \in 1 .. k, m < n,
                   NEW x \in ToSet(e[m]), NEW y \in ToSet(e[n])
            PROVE  x \in T /\ y \in T /\ x # y
        <5>1. x = seq[m] /\ y = seq[n]
              BY <2>5, <4>1
        <5>2. QED
              BY <1>1, <2>9, <4>1, <5>1 DEF Distinct
      <4>2. QED
            BY <4>1
    <3> HIDE DEF R
    <3>2. Lined(f[k], R)
          BY <2>6, <2>7, <3>1 DEF InOne
    <3>3. QED
          BY <2>1, <3>2 DEF R, Lined, Distinct
  <2>10. QED
        BY <2>1, <2>7, <2>8, <2>9 DEF InOne
<1>5. QED
    BY <1>1, <1>3, <1>4

-----------------------------------------------------------------------------
(* The plan as a set of statements.                                        *)
Each(kind, d, objects) == {[kind |-> kind, table |-> d.name, object |-> x] : x \in objects}
Primary(d) == [name |-> d.pk]

Possible(d) ==
    Each("create", d, {d}) \cup Each("rename", d, Fields(d)) \cup Each("add", d, Fields(d))
    \cup Each("modify", d, Fields(d)) \cup Each("pk", d, {Primary(d)})
    \cup Each("index", d, ToSet(d.indexes)) \cup Each("check", d, ToSet(d.checks))
    \cup Each("fk", d, ToSet(d.fks))
Universe == UNION {Possible(d) : d \in ToSet(want)}

Altering(d, s) ==
    Each("rename", d, Renames(d, s)) \cup Each("add", d, Missing(d, s))
    \cup Each("modify", d, {f \in Kept(d, s) : Differs(d, s, f)})
    \cup Each("pk", d, IF s.pk = << >> THEN {Primary(d)} ELSE {})
    \cup Each("index", d, {i \in ToSet(d.indexes) : ~Covered(d, s, i)})
    \cup Each("check", d, {c \in ToSet(d.checks) : ~Checked(s, c)})
Keying(d, s) == Each("fk", d, {f \in ToSet(d.fks) : ~Referenced(d, s, f)})

First(d, tables) ==
    IF d.name \in DOMAIN tables THEN Altering(d, tables[d.name]) ELSE Each("create", d, {d})
Second(d, tables) ==
    IF d.name \in DOMAIN tables THEN Keying(d, tables[d.name]) ELSE Each("fk", d, ToSet(d.fks))
Due(tables) == UNION {First(d, tables) \cup Second(d, tables) : d \in ToSet(want)}

(* The order in a plan: columns, then what they are made of, then the      *)
(* rest of a table; and foreign keys last.                                 *)
Columnar == {"create", "rename", "add"}
After(a, b) ==
    /\ a # b
    /\ a.kind = "fk" => b.kind = "fk"
    /\ a.table = b.table /\ b.kind \in Columnar => a.kind \in Columnar
    /\ a.table = b.table /\ b.kind = "modify" => a.kind \in Columnar \cup {"modify"}
Order == {p \in Universe \X Universe : After(p[1], p[2])}

LEMMA EachIs ==
    ASSUME NEW kind, NEW d, NEW objects
    PROVE  /\ \A st \in Each(kind, d, objects) :
                 st.kind = kind /\ st.table = d.name /\ st.object \in objects
           /\ \A x : [kind |-> kind, table |-> d.name, object |-> x] \in Each(kind, d, objects)
                       <=> x \in objects
<1>1. ASSUME NEW x, [kind |-> kind, table |-> d.name, object |-> x] \in Each(kind, d, objects)
      PROVE  x \in objects
  <2>1. PICK y \in objects : [kind |-> kind, table |-> d.name, object |-> x]
                             = [kind |-> kind, table |-> d.name, object |-> y]
        BY <1>1 DEF Each
  <2>2. x = y
        BY <2>1
  <2>3. QED
        BY <2>2
<1>2. QED
    BY <1>1 DEF Each

LEMMA StatementsAre ==
    ASSUME NEW d, NEW kind, NEW T, NEW objects \in Seq(T), Distinct(objects),
           Each(kind, d, ToSet(objects)) \subseteq Universe
    PROVE  /\ Statements(d, kind, objects) \in Seq(Universe)
           /\ ToSet(Statements(d, kind, objects)) = Each(kind, d, ToSet(objects))
           /\ Lined(Statements(d, kind, objects), Order)
<1> DEFINE k == Len(objects)
           e == Statements(d, kind, objects)
<1>1. k \in Nat /\ DOMAIN objects = 1 .. k
    BY LenProperties
<1>2. /\ e = [n \in 1 .. k |-> e[n]] /\ DOMAIN e = 1 .. k
      /\ \A n \in 1 .. k : e[n] = [kind |-> kind, table |-> d.name, object |-> objects[n]]
    BY <1>1 DEF Statements
<1> HIDE DEF e, k
<1>3. ToSet(e) = Each(kind, d, ToSet(objects))
    BY <1>1, <1>2 DEF ToSet, Each
<1>4. \A n \in 1 .. k : e[n] \in Universe
    BY <1>2, <1>3 DEF ToSet
<1>5. e \in Seq(Universe)
    BY <1>1, <1>2, <1>4, Listed
<1>6. ASSUME NEW m \in 1 .. k, NEW n \in 1 .. k, m < n PROVE <<e[m], e[n]>> \in Order
  <2>1. objects[m] # objects[n]
        BY <1>1, <1>6 DEF Distinct
  <2>2. After(e[m], e[n])
        BY <1>2, <2>1 DEF After
  <2>3. QED
        BY <1>4, <2>2 DEF Order
<1>7. QED
    BY <1>2, <1>3, <1>5, <1>6 DEF e, Lined

(* The fields, indexes, checks and foreign keys of an accepted definition. *)
LEMMA AcceptedLists ==
    ASSUME NEW d, Accepted(d)
    PROVE  /\ d.fields \in Seq(Fields(d)) /\ Distinct(d.fields) /\ ToSet(d.fields) = Fields(d)
           /\ d.indexes \in Seq(ToSet(d.indexes)) /\ Distinct(d.indexes)
           /\ d.checks \in Seq(ToSet(d.checks)) /\ Distinct(d.checks)
           /\ d.fks \in Seq(ToSet(d.fks)) /\ Distinct(d.fks)
<1>1. ASSUME NEW seq, NEW T, seq \in Seq(T), NamedApart(seq) PROVE Distinct(seq)
  <2>1. \A n \in DOMAIN seq : n \in Nat
        BY <1>1, LenProperties
  <2>2. QED
        BY <1>1, <2>1 DEF NamedApart, Distinct
<1>2. QED
    BY <1>1 DEF Accepted, Fields

LEMMA ColumnStatementsAre ==
    ASSUME NEW d \in ToSet(want), Accepted(d), NEW s
    PROVE  /\ ColumnStatements(d, s) \in Seq(Universe)
           /\ ToSet(ColumnStatements(d, s))
                = Each("rename", d, Renames(d, s)) \cup Each("add", d, Missing(d, s))
           /\ Lined(ColumnStatements(d, s), Order)
<1> DEFINE new == Chosen(d.fields, {f \in Fields(d) : f.name \notin Columns(s)})
           k == Len(new)
           e == ColumnStatements(d, s)
           what(f) == [kind |-> IF f \in Renames(d, s) THEN "rename" ELSE "add",
                       table |-> d.name, object |-> f]
<1>1. /\ new \in Seq(Fields(d)) /\ Distinct(new)
      /\ ToSet(new) = {f \in Fields(d) : f.name \notin Columns(s)}
    BY AcceptedLists, ChosenIs
<1>2. /\ e = [n \in 1 .. k |-> e[n]] /\ DOMAIN e = 1 .. k /\ k \in Nat /\ DOMAIN new = 1 .. k
      /\ \A n \in 1 .. k : e[n] = what(new[n])
  <2>1. k \in Nat /\ DOMAIN new = 1 .. k
        BY <1>1, LenProperties
  <2>2. e = [n \in DOMAIN new |-> what(new[n])]
        BY DEF ColumnStatements
  <2> HIDE DEF e, new, what, k
  <2>3. QED
        BY <2>1, <2>2
<1> HIDE DEF e, k, new
<1>3. \A n \in 1 .. k : new[n] \in Fields(d) /\ new[n].name \notin Columns(s)
    BY <1>1, <1>2 DEF ToSet
<1>4. \A n \in 1 .. k : e[n] \in Universe
  <2>1. \A f \in Fields(d) : what(f) \in Possible(d)
        BY DEF Possible, Each
  <2>2. QED
        BY <1>2, <1>3, <2>1 DEF Universe
<1>5. e \in Seq(Universe)
    BY <1>2, <1>4, Listed
<1>6. ToSet(e) = Each("rename", d, Renames(d, s)) \cup Each("add", d, Missing(d, s))
  <2>1. ToSet(e) = {what(f) : f \in ToSet(new)}
    <3> HIDE DEF what
    <3>1. QED
          BY <1>2 DEF ToSet
  <2>2. ToSet(new) = Renames(d, s) \cup Missing(d, s) /\ Renames(d, s) \cap Missing(d, s) = {}
        BY <1>1 DEF Renames, Missing
  <2>3. QED
        BY <2>1, <2>2 DEF Each
<1>7. ASSUME NEW m \in 1 .. k, NEW n \in 1 .. k, m < n PROVE <<e[m], e[n]>> \in Order
  <2>1. new[m] # new[n]
        BY <1>1, <1>2, <1>7 DEF Distinct
  <2>2. After(e[m], e[n])
        BY <1>2, <2>1 DEF After, Columnar
  <2>3. QED
        BY <1>4, <2>2 DEF Order
<1>8. QED
    BY <1>2, <1>5, <1>6, <1>7 DEF e, Lined

(* Two parts of a plan, the first before the second.                       *)
LEMMA Continued ==
    ASSUME NEW s \in Seq(Universe), NEW t \in Seq(Universe), NEW A, NEW B,
           ToSet(s) = A, ToSet(t) = B, Lined(s, Order), Lined(t, Order),
           \A x \in A, y \in B : After(x, y)
    PROVE  /\ s \o t \in Seq(Universe)
           /\ ToSet(s \o t) = A \cup B
           /\ Lined(s \o t, Order)
<1>1. A \subseteq Universe /\ B \subseteq Universe
    BY Members
<1>2. \A x \in A, y \in B : <<x, y>> \in Order
    BY <1>1 DEF Order
<1>3. QED
    BY <1>2, Joined, Zenon

LEMMA AlterTableIs ==
    ASSUME NEW d \in ToSet(want), Accepted(d), NEW s
    PROVE  /\ AlterTable(d, s) \in Seq(Universe)
           /\ ToSet(AlterTable(d, s)) = Altering(d, s)
           /\ Lined(AlterTable(d, s), Order)
<1> DEFINE Columned == Each("rename", d, Renames(d, s)) \cup Each("add", d, Missing(d, s))
           Modify == Each("modify", d, {f \in Kept(d, s) : Differs(d, s, f)})
           key == IF s.pk = << >> THEN <<[name |-> d.pk]>> ELSE << >>
           Pk == Each("pk", d, IF s.pk = << >> THEN {Primary(d)} ELSE {})
           Index == Each("index", d, {i \in ToSet(d.indexes) : ~Covered(d, s, i)})
           Check == Each("check", d, {c \in ToSet(d.checks) : ~Checked(s, c)})
           a == ColumnStatements(d, s)
           b == Statements(d, "modify", Modified(d, s))
           c == Statements(d, "pk", key)
           e == Statements(d, "index", NewIndexes(d, s))
           g == Statements(d, "check", NewChecks(d, s))
<1>1. AlterTable(d, s) = (((a \o b) \o c) \o e) \o g
    BY DEF AlterTable
<1>2. Altering(d, s) = (((Columned \cup Modify) \cup Pk) \cup Index) \cup Check
    BY DEF Altering
<1>3. Possible(d) \subseteq Universe
    BY DEF Universe
<1>4. a \in Seq(Universe) /\ ToSet(a) = Columned /\ Lined(a, Order)
    BY ColumnStatementsAre
<1>5. b \in Seq(Universe) /\ ToSet(b) = Modify /\ Lined(b, Order)
  <2>1. /\ Modified(d, s) \in Seq(Fields(d)) /\ Distinct(Modified(d, s))
        /\ ToSet(Modified(d, s)) = {f \in Kept(d, s) : Differs(d, s, f)}
    <3>1. Kept(d, s) \subseteq Fields(d)
          BY DEF Kept
    <3>2. QED
          BY <3>1, AcceptedLists, ChosenIs DEF Modified
  <2>2. Modify \subseteq Universe
        BY <1>3 DEF Possible, Each, Kept
  <2>3. Each("modify", d, ToSet(Modified(d, s))) = Modify
        BY <2>1
  <2> HIDE DEF Modify
  <2>4. QED
        BY <2>1, <2>2, <2>3, StatementsAre, Zenon
<1>6. c \in Seq(Universe) /\ ToSet(c) = Pk /\ Lined(c, Order)
  <2>1. key \in Seq({Primary(d)}) /\ ToSet(key) = (IF s.pk = << >> THEN {Primary(d)} ELSE {})
        /\ Distinct(key)
    <3>1. \A x : /\ <<x>> \in Seq({x}) /\ << >> \in Seq({x})
               /\ ToSet(<<x>>) = {x} /\ ToSet(<< >>) = {}
               /\ Distinct(<<x>>) /\ Distinct(<< >>)
          BY DEF ToSet, Distinct
    <3>2. key = IF s.pk = << >> THEN <<Primary(d)>> ELSE << >>
          BY DEF Primary
    <3> HIDE DEF key
    <3>3. QED
          BY <3>1, <3>2
  <2>2. Pk \subseteq Universe
        BY <1>3 DEF Possible, Each
  <2> HIDE DEF key
  <2>3. Each("pk", d, ToSet(key)) = Pk
        BY <2>1
  <2> HIDE DEF Pk
  <2>4. QED
        BY <2>1, <2>2, <2>3, StatementsAre, Zenon
<1>7. e \in Seq(Universe) /\ ToSet(e) = Index /\ Lined(e, Order)
  <2>1. /\ NewIndexes(d, s) \in Seq(ToSet(d.indexes)) /\ Distinct(NewIndexes(d, s))
        /\ ToSet(NewIndexes(d, s)) = {i \in ToSet(d.indexes) : ~Covered(d, s, i)}
        BY AcceptedLists, ChosenIs DEF NewIndexes
  <2>2. Index \subseteq Universe
        BY <1>3 DEF Possible, Each
  <2>3. Each("index", d, ToSet(NewIndexes(d, s))) = Index
        BY <2>1
  <2> HIDE DEF Index
  <2>4. QED
        BY <2>1, <2>2, <2>3, StatementsAre, Zenon
<1>8. g \in Seq(Universe) /\ ToSet(g) = Check /\ Lined(g, Order)
  <2>1. /\ NewChecks(d, s) \in Seq(ToSet(d.checks)) /\ Distinct(NewChecks(d, s))
        /\ ToSet(NewChecks(d, s)) = {k \in ToSet(d.checks) : ~Checked(s, k)}
        BY AcceptedLists, ChosenIs DEF NewChecks
  <2>2. Check \subseteq Universe
        BY <1>3 DEF Possible, Each
  <2>3. Each("check", d, ToSet(NewChecks(d, s))) = Check
        BY <2>1
  <2> HIDE DEF Check
  <2>4. QED
        BY <2>1, <2>2, <2>3, StatementsAre, Zenon
<1>9. /\ \A st \in Columned : st.kind \in Columnar
      /\ \A st \in Modify : st.kind = "modify"
      /\ \A st \in Pk : st.kind = "pk"
      /\ \A st \in Index : st.kind = "index"
      /\ \A st \in Check : st.kind = "check"
    BY EachIs DEF Columnar
<1> HIDE DEF a, b, c, e, g, Columned, Modify, Pk, Index, Check
<1>10. /\ \A x \in Columned, y \in Modify : After(x, y)
       /\ \A x \in Columned \cup Modify, y \in Pk : After(x, y)
       /\ \A x \in (Columned \cup Modify) \cup Pk, y \in Index : After(x, y)
       /\ \A x \in ((Columned \cup Modify) \cup Pk) \cup Index, y \in Check : After(x, y)
    BY <1>9 DEF After, Columnar
<1> DEFINE ab == a \o b
           abc == ab \o c
           abce == abc \o e
<1>11. ab \in Seq(Universe) /\ ToSet(ab) = Columned \cup Modify /\ Lined(ab, Order)
    BY <1>4, <1>5, <1>10, Continued
<1> HIDE DEF ab
<1>12. abc \in Seq(Universe) /\ ToSet(abc) = (Columned \cup Modify) \cup Pk /\ Lined(abc, Order)
    BY <1>6, <1>10, <1>11, Continued
<1> HIDE DEF abc
<1>13. /\ abce \in Seq(Universe) /\ Lined(abce, Order)
       /\ ToSet(abce) = ((Columned \cup Modify) \cup Pk) \cup Index
    BY <1>7, <1>10, <1>12, Continued
<1> HIDE DEF abce
<1>14. /\ abce \o g \in Seq(Universe) /\ Lined(abce \o g, Order)
       /\ ToSet(abce \o g) = (((Columned \cup Modify) \cup Pk) \cup Index) \cup Check
    BY <1>8, <1>10, <1>13, Continued
<1>15. AlterTable(d, s) = abce \o g
    BY <1>1 DEF abce, abc, ab
<1>16. QED
    BY <1>2, <1>14, <1>15

LEMMA PlanIs ==
    ASSUME NEW d \in ToSet(want), Accepted(d), NEW tables
    PROVE  /\ Plan(d, tables, "first") \in Seq(Universe)
           /\ ToSet(Plan(d, tables, "first")) = First(d, tables)
           /\ Lined(Plan(d, tables, "first"), Order)
           /\ Plan(d, tables, "fk") \in Seq(Universe)
           /\ ToSet(Plan(d, tables, "fk")) = Second(d, tables)
           /\ Lined(Plan(d, tables, "fk"), Order)
<1>1. Possible(d) \subseteq Universe
    BY DEF Universe
<1>2. CASE d.name \notin DOMAIN tables
  <2>1. /\ Plan(d, tables, "first") = Statements(d, "create", <<d>>)
        /\ Plan(d, tables, "fk") = Statements(d, "fk", d.fks)
        /\ First(d, tables) = Each("create", d, {d})
        /\ Second(d, tables) = Each("fk", d, ToSet(d.fks))
        BY <1>2 DEF Plan, First, Second
  <2>2. <<d>> \in Seq({d}) /\ ToSet(<<d>>) = {d} /\ Distinct(<<d>>)
        BY DEF ToSet, Distinct
  <2>3. Each("create", d, {d}) \subseteq Universe /\ Each("fk", d, ToSet(d.fks)) \subseteq Universe
        BY <1>1 DEF Possible
  <2>4. d.fks \in Seq(ToSet(d.fks)) /\ Distinct(d.fks)
        BY AcceptedLists
  <2> DEFINE one == <<d>>
  <2>5. Each("create", d, ToSet(one)) = Each("create", d, {d})
        BY <2>2
  <2>6. one \in Seq({d}) /\ Distinct(one) /\ Each("create", d, ToSet(one)) \subseteq Universe
        BY <2>2, <2>3, <2>5
  <2>7. Plan(d, tables, "first") = Statements(d, "create", one)
        BY <2>1
  <2> HIDE DEF one
  <2>8. /\ Statements(d, "create", one) \in Seq(Universe)
        /\ ToSet(Statements(d, "create", one)) = Each("create", d, ToSet(one))
        /\ Lined(Statements(d, "create", one), Order)
        BY <2>6, StatementsAre, Zenon
  <2>9. /\ Statements(d, "fk", d.fks) \in Seq(Universe)
        /\ ToSet(Statements(d, "fk", d.fks)) = Each("fk", d, ToSet(d.fks))
        /\ Lined(Statements(d, "fk", d.fks), Order)
        BY <2>3, <2>4, StatementsAre, Zenon
  <2>10. QED
        BY <2>1, <2>5, <2>7, <2>8, <2>9
<1>3. CASE d.name \in DOMAIN tables
  <2> DEFINE s == tables[d.name]
  <2>1. /\ Plan(d, tables, "first") = AlterTable(d, s)
        /\ Plan(d, tables, "fk") = Statements(d, "fk", NewKeys(d, s))
        /\ First(d, tables) = Altering(d, s)
        /\ Second(d, tables) = Each("fk", d, {f \in ToSet(d.fks) : ~Referenced(d, s, f)})
        BY <1>3 DEF Plan, First, Second, Keying
  <2>2. /\ NewKeys(d, s) \in Seq(ToSet(d.fks)) /\ Distinct(NewKeys(d, s))
        /\ ToSet(NewKeys(d, s)) = {f \in ToSet(d.fks) : ~Referenced(d, s, f)}
        BY AcceptedLists, ChosenIs DEF NewKeys
  <2>3. Each("fk", d, {f \in ToSet(d.fks) : ~Referenced(d, s, f)}) \subseteq Universe
        BY <1>1 DEF Possible, Each
  <2> HIDE DEF s
  <2>4. Each("fk", d, ToSet(NewKeys(d, s))) = Second(d, tables)
        BY <2>1, <2>2
  <2>5. /\ Statements(d, "fk", NewKeys(d, s)) \in Seq(Universe)
        /\ ToSet(Statements(d, "fk", NewKeys(d, s))) = Each("fk", d, ToSet(NewKeys(d, s)))
        /\ Lined(Statements(d, "fk", NewKeys(d, s)), Order)
        BY <2>1, <2>2, <2>3, <2>4, StatementsAre, Zenon
  <2>6. /\ AlterTable(d, s) \in Seq(Universe)
        /\ ToSet(AlterTable(d, s)) = Altering(d, s)
        /\ Lined(AlterTable(d, s), Order)
        BY AlterTableIs
  <2>7. QED
        BY <2>1, <2>4, <2>5, <2>6
<1>4. QED
    BY <1>2, <1>3

LEMMA PhasesAre ==
    ASSUME NEW d, NEW tables
    PROVE  /\ \A st \in First(d, tables) : st.table = d.name /\ st.kind # "fk"
           /\ \A st \in Second(d, tables) : st.table = d.name /\ st.kind = "fk"
<1>1. \A kind, objects : \A st \in Each(kind, d, objects) : st.kind = kind /\ st.table = d.name
    BY EachIs
<1>2. QED
    BY <1>1 DEF First, Second, Altering, Keying

LEMMA FullPlanIs ==
    ASSUME Holdable(want), NEW tables
    PROVE  /\ FullPlan(tables) \in Seq(Universe)
           /\ ToSet(FullPlan(tables)) = Due(tables)
           /\ Lined(FullPlan(tables), Order)
<1> DEFINE k == Len(want)
           Firsts == [n \in DOMAIN want |-> Plan(want[n], tables, "first")]
           Seconds == [n \in DOMAIN want |-> Plan(want[n], tables, "fk")]
           A == UNION {First(d, tables) : d \in ToSet(want)}
           B == UNION {Second(d, tables) : d \in ToSet(want)}
<1>1. /\ k \in Nat /\ DOMAIN want = 1 .. k
      /\ \A n \in 1 .. k : want[n] \in ToSet(want) /\ Accepted(want[n])
      /\ \A m, n \in 1 .. k : want[m].name = want[n].name => m = n
      /\ ToSet(want) = {want[n] : n \in 1 .. k}
    BY LenProperties DEF Holdable, NamedApart, ToSet
<1>2. /\ Firsts = [n \in 1 .. k |-> Firsts[n]] /\ Seconds = [n \in 1 .. k |-> Seconds[n]]
      /\ \A n \in 1 .. k : /\ Firsts[n] = Plan(want[n], tables, "first")
                           /\ Seconds[n] = Plan(want[n], tables, "fk")
    BY <1>1
<1>3. FullPlan(tables) = FlattenSeq(Firsts) \o FlattenSeq(Seconds)
    BY DEF FullPlan
<1> HIDE DEF Firsts, Seconds, k
<1>4. \A n \in 1 .. k :
          /\ Firsts[n] \in Seq(Universe) /\ ToSet(Firsts[n]) = First(want[n], tables)
          /\ Lined(Firsts[n], Order)
          /\ Seconds[n] \in Seq(Universe) /\ ToSet(Seconds[n]) = Second(want[n], tables)
          /\ Lined(Seconds[n], Order)
    BY <1>1, <1>2, PlanIs
<1>5. /\ Firsts \in Seq(Seq(Universe)) /\ DOMAIN Firsts = 1 .. k
      /\ Seconds \in Seq(Seq(Universe)) /\ DOMAIN Seconds = 1 .. k
    BY <1>1, <1>2, <1>4, Listed
<1>6. ASSUME NEW m \in 1 .. k, NEW n \in 1 .. k, m < n
      PROVE  /\ \A x \in ToSet(Firsts[m]), y \in ToSet(Firsts[n]) : <<x, y>> \in Order
             /\ \A x \in ToSet(Seconds[m]), y \in ToSet(Seconds[n]) : <<x, y>> \in Order
  <2>1. want[m].name # want[n].name
        BY <1>1, <1>6
  <2>2. \A x \in First(want[m], tables), y \in First(want[n], tables) :
            x.table # y.table /\ x.kind # "fk"
        BY <2>1, PhasesAre
  <2>3. \A x \in Second(want[m], tables), y \in Second(want[n], tables) :
            x.table # y.table /\ y.kind = "fk"
        BY <2>1, PhasesAre
  <2>4. /\ \A x \in First(want[m], tables), y \in First(want[n], tables) : After(x, y)
        /\ \A x \in Second(want[m], tables), y \in Second(want[n], tables) : After(x, y)
        BY <2>2, <2>3 DEF After, Columnar
  <2>5. /\ First(want[m], tables) \subseteq Universe /\ First(want[n], tables) \subseteq Universe
        /\ Second(want[m], tables) \subseteq Universe /\ Second(want[n], tables) \subseteq Universe
        BY <1>4, Members
  <2>6. QED
        BY <1>4, <2>4, <2>5 DEF Order
<1>7. /\ FlattenSeq(Firsts) \in Seq(Universe) /\ Lined(FlattenSeq(Firsts), Order)
      /\ ToSet(FlattenSeq(Firsts)) = A
  <2>1. /\ FlattenSeq(Firsts) \in Seq(Universe)
        /\ ToSet(FlattenSeq(Firsts)) = UNION {ToSet(Firsts[n]) : n \in 1 .. k}
        /\ Lined(FlattenSeq(Firsts), Order)
        BY <1>1, <1>4, <1>5, <1>6, Flattened, Zenon
  <2>2. UNION {ToSet(Firsts[n]) : n \in 1 .. k} = A
        BY <1>1, <1>4
  <2>3. QED
        BY <2>1, <2>2
<1>8. /\ FlattenSeq(Seconds) \in Seq(Universe) /\ Lined(FlattenSeq(Seconds), Order)
      /\ ToSet(FlattenSeq(Seconds)) = B
  <2>1. /\ FlattenSeq(Seconds) \in Seq(Universe)
        /\ ToSet(FlattenSeq(Seconds)) = UNION {ToSet(Seconds[n]) : n \in 1 .. k}
        /\ Lined(FlattenSeq(Seconds), Order)
        BY <1>1, <1>4, <1>5, <1>6, Flattened, Zenon
  <2>2. UNION {ToSet(Seconds[n]) : n \in 1 .. k} = B
        BY <1>1, <1>4
  <2>3. QED
        BY <2>1, <2>2
<1>9. \A x \in A, y \in B : After(x, y)
  <2>1. \A x \in A : x.kind # "fk"
        BY PhasesAre
  <2>2. \A y \in B : y.kind = "fk"
        BY PhasesAre
  <2> HIDE DEF A, B
  <2>3. QED
        BY <2>1, <2>2 DEF After, Columnar
<1>10. A \cup B = Due(tables)
    BY DEF Due
<1> DEFINE a == FlattenSeq(Firsts)
           b == FlattenSeq(Seconds)
<1> HIDE DEF A, B, a, b
<1>11. a \in Seq(Universe) /\ b \in Seq(Universe) /\ ToSet(a) = A /\ ToSet(b) = B
    BY <1>7, <1>8 DEF a, b
<1>12. Lined(a, Order) /\ Lined(b, Order)
    BY <1>7, <1>8 DEF a, b
<1>13. a \o b \in Seq(Universe) /\ ToSet(a \o b) = A \cup B /\ Lined(a \o b, Order)
    BY <1>9, <1>11, <1>12, Continued
<1>14. QED
    BY <1>3, <1>10, <1>13 DEF a, b

-----------------------------------------------------------------------------
(* One table and its definition: what its plan still needs, what a         *)
(* statement that is left in a plan presumes, and what of Refuses no       *)
(* application can bring about.                                            *)
Needs(d, s, kind, x) ==
    \/ kind = "rename" /\ x \in Renames(d, s)
    \/ kind = "add" /\ x \in Missing(d, s)
    \/ kind = "modify" /\ x \in Kept(d, s) /\ Differs(d, s, x)
    \/ kind = "pk" /\ s.pk = << >> /\ x = Primary(d)
    \/ kind = "index" /\ x \in ToSet(d.indexes) /\ ~Covered(d, s, x)
    \/ kind = "check" /\ x \in ToSet(d.checks) /\ ~Checked(s, x)
    \/ kind = "fk" /\ x \in ToSet(d.fks) /\ ~Referenced(d, s, x)

OfKind(d, kind, x) ==
    \/ kind \in {"rename", "add", "modify"} /\ x \in Fields(d)
    \/ kind = "pk" /\ x = Primary(d)
    \/ kind = "index" /\ x \in ToSet(d.indexes)
    \/ kind = "check" /\ x \in ToSet(d.checks)
    \/ kind = "fk" /\ x \in ToSet(d.fks)

Open(s, kind, x) ==
    /\ kind = "rename" => x.name \notin Columns(s) /\ x.from \in Columns(s)
    /\ kind = "add" => x.name \notin Columns(s) /\ x.from \notin Columns(s)
    /\ kind = "pk" => s.pk = << >>
    /\ kind = "index" => \A i \in s.indexes : i.name # x.name
    /\ kind = "check" => \A c \in s.checks : c.name # x.name
    /\ kind = "fk" => \A k \in s.fks : k.name # x.name

Agrees(d, s) ==
    /\ \A f \in Fields(d) : ~(f.name \in Columns(s) /\ f.from \in Columns(s))
    /\ \A f \in Missing(d, s) : ~f.auto
    /\ \A f \in Kept(d, s) :
          /\ f.auto = Column(d, s, f).auto
          /\ TypeDiffers(d, s, f) => Convertible(f.type, Column(d, s, f).type)
    /\ s.pk # << >> => NewNames(d, s, s.pk) = <<d.pk>>
    /\ \A i \in ToSet(d.indexes), j \in Indexes(d, s) : i.name = j.name => i = j
    /\ \A c \in ToSet(d.checks), k \in s.checks : c.name = k.name => c = k
    /\ \A f \in ToSet(d.fks), k \in s.fks : f.name = k.name => Matches(d, s, k, f)

\* What a statement for one object of d makes of s.
Advances(d, s, kind, x, s2) ==
    /\ IsTable(s2) /\ Agrees(d, s2)
    /\ \A k, y : Needs(d, s2, k, y) => Needs(d, s, k, y) /\ <<k, y>> # <<kind, x>>
    /\ \A k, y : OfKind(d, k, y) /\ Open(s, k, y) /\ <<k, y>> # <<kind, x>> => Open(s2, k, y)

LEMMA NamesApart ==
    ASSUME NEW d, Accepted(d)
    PROVE  /\ \A f, g \in Fields(d) : f.name = g.name => f = g
           /\ \A i, j \in ToSet(d.indexes) : i.name = j.name => i = j
           /\ \A c, k \in ToSet(d.checks) : c.name = k.name => c = k
           /\ \A f, k \in ToSet(d.fks) : f.name = k.name => f = k
<1>1. ASSUME NEW seq, NamedApart(seq)
      PROVE  \A x, y \in ToSet(seq) : x.name = y.name => x = y
    BY <1>1 DEF NamedApart, ToSet
<1>2. QED
    BY <1>1 DEF Accepted, Fields

LEMMA NamesAre ==
    ASSUME NEW d, Accepted(d), NEW s, IsTable(s)
    PROVE  /\ \A f \in Renames(d, s) :
                 NewName(d, s, f.from) = f.name /\ OldName(d, s, f.name) = f.from
           /\ \A c : (\A f \in Renames(d, s) : f.from # c) => NewName(d, s, c) = c
           /\ \A f \in Fields(d) \ Renames(d, s) : OldName(d, s, f.name) = f.name
           /\ \A f \in Fields(d) : NewName(d, s, f.name) = f.name
<1>1. ASSUME NEW f \in Renames(d, s), NEW g \in Renames(d, s), f.from = g.from PROVE f = g
    BY <1>1 DEF Renames, IsTable, Accepted
<1>2. \A f, g \in Fields(d) : f.name = g.name => f = g
    BY NamesApart
<1>3. Renames(d, s) \subseteq Fields(d)
    BY DEF Renames
<1>4. ASSUME NEW f \in Renames(d, s)
      PROVE  NewName(d, s, f.from) = f.name /\ OldName(d, s, f.name) = f.from
  <2>1. (CHOOSE g \in Renames(d, s) : g.from = f.from) = f
        BY <1>1, <1>4
  <2>2. (CHOOSE g \in Renames(d, s) : g.name = f.name) = f
        BY <1>2, <1>3, <1>4
  <2>3. QED
        BY <1>4, <2>1, <2>2 DEF NewName, OldName
<1>5. \A c : (\A f \in Renames(d, s) : f.from # c) => NewName(d, s, c) = c
    BY DEF NewName
<1>6. \A f \in Fields(d) \ Renames(d, s) : OldName(d, s, f.name) = f.name
    BY <1>2, <1>3 DEF OldName
<1>7. \A f \in Fields(d) : NewName(d, s, f.name) = f.name
    BY <1>3, <1>5 DEF Accepted
<1>8. QED
    BY <1>4, <1>5, <1>6, <1>7

(* What of the plan the columns alone decide.                              *)
LEMMA SameColumns ==
    ASSUME NEW d, NEW s, NEW s2, s2.columns = s.columns
    PROVE  /\ Columns(s2) = Columns(s)
           /\ Renames(d, s2) = Renames(d, s) /\ Missing(d, s2) = Missing(d, s)
           /\ Kept(d, s2) = Kept(d, s)
           /\ \A f : /\ Column(d, s2, f) = Column(d, s, f)
                     /\ Differs(d, s2, f) <=> Differs(d, s, f)
                     /\ TypeDiffers(d, s2, f) <=> TypeDiffers(d, s, f)
           /\ \A c : NewName(d, s2, c) = NewName(d, s, c)
           /\ \A columns : NewNames(d, s2, columns) = NewNames(d, s, columns)
           /\ \A k, f : Matches(d, s2, k, f) <=> Matches(d, s, k, f)
<1>1. Columns(s2) = Columns(s)
    BY DEF Columns
<1>2. Renames(d, s2) = Renames(d, s) /\ Missing(d, s2) = Missing(d, s)
    BY <1>1 DEF Renames, Missing
<1>3. \A c : OldName(d, s2, c) = OldName(d, s, c) /\ NewName(d, s2, c) = NewName(d, s, c)
    BY <1>2 DEF OldName, NewName
<1>4. \A f : Column(d, s2, f) = Column(d, s, f)
    BY <1>3 DEF Column
<1>5. \A f : /\ Differs(d, s2, f) <=> Differs(d, s, f)
             /\ TypeDiffers(d, s2, f) <=> TypeDiffers(d, s, f)
    BY <1>4 DEF Differs, TypeDiffers
<1>6. QED
    BY <1>1, <1>2, <1>3, <1>4, <1>5 DEF Kept, NewNames, Matches

LEMMA IndexAdvances ==
    ASSUME NEW d, Accepted(d), NEW s, IsTable(s), Agrees(d, s),
           NEW x \in ToSet(d.indexes), Open(s, "index", x)
    PROVE  Advances(d, s, "index", x, Altered(s, "index", x))
<1> DEFINE s2 == Altered(s, "index", x)
<1>1. /\ s2 = [columns |-> s.columns, pk |-> s.pk, indexes |-> s.indexes \cup {x},
               checks |-> s.checks, fks |-> s.fks, rows |-> s.rows]
    BY DEF Altered, IsTable
<1>2. /\ s2.columns = s.columns /\ s2.pk = s.pk /\ s2.indexes = s.indexes \cup {x}
      /\ s2.checks = s.checks /\ s2.fks = s.fks
    BY <1>1
<1>3. IsIndex(x) /\ x.columns \in Seq(FieldNames(d))
    BY DEF Accepted
<1>4. IsTable(s2)
    BY <1>1, <1>2, <1>3 DEF IsTable, Columns
<1> HIDE DEF s2
<1>5. /\ Columns(s2) = Columns(s)
      /\ Renames(d, s2) = Renames(d, s) /\ Missing(d, s2) = Missing(d, s)
      /\ Kept(d, s2) = Kept(d, s)
      /\ \A f : /\ Column(d, s2, f) = Column(d, s, f)
                /\ Differs(d, s2, f) <=> Differs(d, s, f)
                /\ TypeDiffers(d, s2, f) <=> TypeDiffers(d, s, f)
      /\ \A columns : NewNames(d, s2, columns) = NewNames(d, s, columns)
      /\ \A k, f : Matches(d, s2, k, f) <=> Matches(d, s, k, f)
    BY <1>2, SameColumns
<1>6. [x EXCEPT !.columns = NewNames(d, s, @)] = x
  <2>1. \A n \in DOMAIN x.columns : x.columns[n] \in FieldNames(d)
        BY <1>3
  <2>2. \A n \in DOMAIN x.columns : NewName(d, s, x.columns[n]) = x.columns[n]
        BY <2>1, NamesAre DEF FieldNames
  <2>3. x.columns = [n \in DOMAIN x.columns |-> x.columns[n]]
        BY <1>3
  <2>4. NewNames(d, s, x.columns) = x.columns
        BY <2>2, <2>3 DEF NewNames
  <2>5. QED
        BY <1>3, <2>4 DEF IsIndex
<1>7. Indexes(d, s2) = Indexes(d, s) \cup {x}
  <2> DEFINE New(i) == [i EXCEPT !.columns = NewNames(d, s, @)]
  <2>1. /\ Indexes(d, s) = {New(i) : i \in s.indexes}
        /\ Indexes(d, s2) = {New(i) : i \in s2.indexes}
        BY <1>5 DEF Indexes
  <2>2. New(x) = x
        BY <1>6
  <2> HIDE DEF New
  <2>3. QED
        BY <1>2, <2>1, <2>2
<1>8. Agrees(d, s2)
  <2>1. \A i \in ToSet(d.indexes), j \in Indexes(d, s2) : i.name = j.name => i = j
        BY <1>7, NamesApart DEF Agrees
  <2>2. QED
        BY <1>2, <1>5, <2>1 DEF Agrees
<1>9. ASSUME NEW k, NEW y, Needs(d, s2, k, y)
      PROVE  Needs(d, s, k, y) /\ <<k, y>> # <<"index", x>>
  <2>1. Covered(d, s2, x)
        BY <1>7 DEF Covered
  <2>2. \A i : Covered(d, s, i) => Covered(d, s2, i)
        BY <1>7 DEF Covered
  <2>3. /\ \A c : Checked(s2, c) <=> Checked(s, c)
        /\ \A f : Referenced(d, s2, f) <=> Referenced(d, s, f)
        BY <1>2, <1>5 DEF Checked, Referenced
  <2>4. QED
        BY <1>2, <1>5, <1>9, <2>1, <2>2, <2>3 DEF Needs
<1>10. ASSUME NEW k, NEW y, OfKind(d, k, y), Open(s, k, y), <<k, y>> # <<"index", x>>
       PROVE  Open(s2, k, y)
    BY <1>2, <1>5, <1>10, NamesApart DEF Open, OfKind
<1>11. QED
    BY <1>4, <1>8, <1>9, <1>10 DEF Advances, s2

LEMMA CheckAdvances ==
    ASSUME NEW d, Accepted(d), NEW s, IsTable(s), Agrees(d, s),
           NEW x \in ToSet(d.checks), Open(s, "check", x)
    PROVE  Advances(d, s, "check", x, Altered(s, "check", x))
<1> DEFINE s2 == Altered(s, "check", x)
<1>1. /\ s2 = [columns |-> s.columns, pk |-> s.pk, indexes |-> s.indexes,
               checks |-> s.checks \cup {x}, fks |-> s.fks, rows |-> s.rows]
    BY DEF Altered, IsTable
<1>2. /\ s2.columns = s.columns /\ s2.pk = s.pk /\ s2.indexes = s.indexes
      /\ s2.checks = s.checks \cup {x} /\ s2.fks = s.fks
    BY <1>1
<1>3. IsTable(s2)
    BY <1>1, <1>2 DEF IsTable, Columns
<1> HIDE DEF s2
<1>4. /\ Columns(s2) = Columns(s)
      /\ Renames(d, s2) = Renames(d, s) /\ Missing(d, s2) = Missing(d, s)
      /\ Kept(d, s2) = Kept(d, s)
      /\ \A f : /\ Column(d, s2, f) = Column(d, s, f)
                /\ Differs(d, s2, f) <=> Differs(d, s, f)
                /\ TypeDiffers(d, s2, f) <=> TypeDiffers(d, s, f)
      /\ \A columns : NewNames(d, s2, columns) = NewNames(d, s, columns)
      /\ \A k, f : Matches(d, s2, k, f) <=> Matches(d, s, k, f)
    BY <1>2, SameColumns
<1>5. Indexes(d, s2) = Indexes(d, s)
    BY <1>2, <1>4 DEF Indexes
<1>6. Agrees(d, s2)
  <2>1. \A c \in ToSet(d.checks), k \in s2.checks : c.name = k.name => c = k
        BY <1>2, NamesApart DEF Agrees
  <2>2. QED
        BY <1>2, <1>4, <1>5, <2>1 DEF Agrees
<1>7. ASSUME NEW k, NEW y, Needs(d, s2, k, y)
      PROVE  Needs(d, s, k, y) /\ <<k, y>> # <<"check", x>>
  <2>1. Checked(s2, x) /\ \A c : Checked(s, c) => Checked(s2, c)
        BY <1>2 DEF Checked
  <2>2. /\ \A i : Covered(d, s2, i) <=> Covered(d, s, i)
        /\ \A f : Referenced(d, s2, f) <=> Referenced(d, s, f)
        BY <1>2, <1>4, <1>5 DEF Covered, Referenced
  <2>3. QED
        BY <1>2, <1>4, <1>7, <2>1, <2>2 DEF Needs
<1>8. ASSUME NEW k, NEW y, OfKind(d, k, y), Open(s, k, y), <<k, y>> # <<"check", x>>
      PROVE  Open(s2, k, y)
    BY <1>2, <1>4, <1>8, NamesApart DEF Open, OfKind
<1>9. QED
    BY <1>3, <1>6, <1>7, <1>8 DEF Advances, s2

LEMMA KeyAdvances ==
    ASSUME NEW d, Accepted(d), NEW s, IsTable(s), Agrees(d, s),
           NEW x \in ToSet(d.fks), Open(s, "fk", x)
    PROVE  Advances(d, s, "fk", x, Altered(s, "fk", x))
<1> DEFINE s2 == Altered(s, "fk", x)
<1>1. /\ s2 = [columns |-> s.columns, pk |-> s.pk, indexes |-> s.indexes,
               checks |-> s.checks, fks |-> s.fks \cup {x}, rows |-> s.rows]
    BY DEF Altered, IsTable
<1>2. /\ s2.columns = s.columns /\ s2.pk = s.pk /\ s2.indexes = s.indexes
      /\ s2.checks = s.checks /\ s2.fks = s.fks \cup {x}
    BY <1>1
<1>3. IsKey(x) /\ x.column \in FieldNames(d)
    BY DEF Accepted
<1>4. IsTable(s2)
    BY <1>1, <1>2, <1>3 DEF IsTable, Columns
<1> HIDE DEF s2
<1>5. /\ Columns(s2) = Columns(s)
      /\ Renames(d, s2) = Renames(d, s) /\ Missing(d, s2) = Missing(d, s)
      /\ Kept(d, s2) = Kept(d, s)
      /\ \A f : /\ Column(d, s2, f) = Column(d, s, f)
                /\ Differs(d, s2, f) <=> Differs(d, s, f)
                /\ TypeDiffers(d, s2, f) <=> TypeDiffers(d, s, f)
      /\ \A columns : NewNames(d, s2, columns) = NewNames(d, s, columns)
      /\ \A k, f : Matches(d, s2, k, f) <=> Matches(d, s, k, f)
    BY <1>2, SameColumns
<1>6. Indexes(d, s2) = Indexes(d, s)
    BY <1>2, <1>5 DEF Indexes
<1>7. Matches(d, s, x, x)
    BY <1>3, NamesAre DEF Matches, FieldNames
<1>8. Agrees(d, s2)
  <2>1. \A f \in ToSet(d.fks), k \in s2.fks : f.name = k.name => Matches(d, s, k, f)
        BY <1>2, <1>7, NamesApart DEF Agrees
  <2>2. QED
        BY <1>2, <1>5, <1>6, <2>1 DEF Agrees
<1>9. ASSUME NEW k, NEW y, Needs(d, s2, k, y)
      PROVE  Needs(d, s, k, y) /\ <<k, y>> # <<"fk", x>>
  <2>1. Referenced(d, s2, x) /\ \A f : Referenced(d, s, f) => Referenced(d, s2, f)
        BY <1>2, <1>5, <1>7 DEF Referenced
  <2>2. /\ \A i : Covered(d, s2, i) <=> Covered(d, s, i)
        /\ \A c : Checked(s2, c) <=> Checked(s, c)
        BY <1>2, <1>5, <1>6 DEF Covered, Checked
  <2>3. QED
        BY <1>2, <1>5, <1>9, <2>1, <2>2 DEF Needs
<1>10. ASSUME NEW k, NEW y, OfKind(d, k, y), Open(s, k, y), <<k, y>> # <<"fk", x>>
       PROVE  Open(s2, k, y)
    BY <1>2, <1>5, <1>10, NamesApart DEF Open, OfKind
<1>11. QED
    BY <1>4, <1>8, <1>9, <1>10 DEF Advances, s2

(* The application changes rows and nothing else.                          *)
LEMMA SameTable ==
    ASSUME NEW d, NEW s, NEW s2,
           /\ s2.columns = s.columns /\ s2.pk = s.pk /\ s2.indexes = s.indexes
           /\ s2.checks = s.checks /\ s2.fks = s.fks
    PROVE  /\ Agrees(d, s2) <=> Agrees(d, s)
           /\ \A k, y : Needs(d, s2, k, y) <=> Needs(d, s, k, y)
           /\ \A k, y : Open(s2, k, y) <=> Open(s, k, y)
<1>1. /\ Columns(s2) = Columns(s)
      /\ Renames(d, s2) = Renames(d, s) /\ Missing(d, s2) = Missing(d, s)
      /\ Kept(d, s2) = Kept(d, s)
      /\ \A f : /\ Column(d, s2, f) = Column(d, s, f)
                /\ Differs(d, s2, f) <=> Differs(d, s, f)
                /\ TypeDiffers(d, s2, f) <=> TypeDiffers(d, s, f)
      /\ \A columns : NewNames(d, s2, columns) = NewNames(d, s, columns)
      /\ \A k, f : Matches(d, s2, k, f) <=> Matches(d, s, k, f)
    BY SameColumns
<1>2. Indexes(d, s2) = Indexes(d, s)
    BY <1>1 DEF Indexes
<1>3. /\ \A i : Covered(d, s2, i) <=> Covered(d, s, i)
      /\ \A c : Checked(s2, c) <=> Checked(s, c)
      /\ \A f : Referenced(d, s2, f) <=> Referenced(d, s, f)
    BY <1>1, <1>2 DEF Covered, Checked, Referenced
<1>4. Agrees(d, s2) <=> Agrees(d, s)
    BY <1>1, <1>2 DEF Agrees
<1>5. \A k, y : Needs(d, s2, k, y) <=> Needs(d, s, k, y)
    BY <1>1, <1>3 DEF Needs
<1>6. \A k, y : Open(s2, k, y) <=> Open(s, k, y)
    BY <1>1 DEF Open
<1>7. QED
    BY <1>4, <1>5, <1>6

(* Only the columns, and what a field finds of its own, change: the rest   *)
(* of what an alteration of a column has to leave as it is.                *)
LEMMA KeptNames ==
    ASSUME NEW d, Accepted(d), NEW s, IsTable(s)
    PROVE  /\ \A f \in Kept(d, s) : OldName(d, s, f.name) \in Columns(s)
           /\ \A f, g \in Fields(d) : f # g => OldName(d, s, f.name) # g.name
           /\ \A f \in Fields(d) : f.name \in Columns(s) => OldName(d, s, f.name) = f.name
<1>1. \A f \in Fields(d) :
          OldName(d, s, f.name) = IF f \in Renames(d, s) THEN f.from ELSE f.name
    BY NamesAre
<1>2. /\ \A f, g \in Fields(d) : f.from # g.name
      /\ \A f, g \in Fields(d) : f.name = g.name => f = g
    BY NamesApart DEF Accepted
<1>3. \A f, g \in Fields(d) : f # g => OldName(d, s, f.name) # g.name
    BY <1>1, <1>2
<1>4. \A f \in Kept(d, s) : OldName(d, s, f.name) \in Columns(s)
    BY <1>1 DEF Kept, Missing, Renames
<1>5. \A f \in Fields(d) : f.name \in Columns(s) => OldName(d, s, f.name) = f.name
    BY <1>1 DEF Renames
<1>6. QED
    BY <1>3, <1>4, <1>5

LEMMA ColumnOfIs ==
    ASSUME NEW d, Accepted(d), NEW s, NEW f \in Fields(d), Column(d, s, f) = ColumnOf(f)
    PROVE  ~Differs(d, s, f) /\ ~TypeDiffers(d, s, f) /\ f.auto = Column(d, s, f).auto
<1>1. f.required \in BOOLEAN
    BY DEF Accepted
<1>2. /\ ColumnOf(f).type = f.type /\ ColumnOf(f).nullable = ~f.required
      /\ ColumnOf(f).default = f.default /\ ColumnOf(f).auto = f.auto
    BY DEF ColumnOf
<1>3. Compatible(f.type, f.type)
    BY DEF Compatible
<1>4. ~TypeDiffers(d, s, f)
    BY <1>2, <1>3 DEF TypeDiffers
<1>5. QED
    BY <1>1, <1>2, <1>4 DEF Differs

LEMMA ModifyAdvances ==
    ASSUME NEW d, Accepted(d), NEW s, IsTable(s), Agrees(d, s),
           NEW x \in Fields(d), x.name \in Columns(s)
    PROVE  Advances(d, s, "modify", x, Altered(s, "modify", x))
<1> DEFINE s2 == Altered(s, "modify", x)
           c2 == [s.columns EXCEPT ![x.name] = ColumnOf(x)]
<1>1. s2 = [columns |-> c2, pk |-> s.pk, indexes |-> s.indexes,
            checks |-> s.checks, fks |-> s.fks, rows |-> s.rows]
    BY DEF Altered, IsTable
<1>2. /\ DOMAIN c2 = Columns(s) /\ c2[x.name] = ColumnOf(x)
      /\ \A c \in Columns(s) : c # x.name => c2[c] = s.columns[c]
  <2>1. DOMAIN s.columns = Columns(s)
        BY DEF Columns
  <2> HIDE DEF Columns
  <2>2. QED
        BY <2>1 DEF Columns
<1> HIDE DEF c2
<1>3. /\ s2.columns = c2 /\ s2.pk = s.pk /\ s2.indexes = s.indexes
      /\ s2.checks = s.checks /\ s2.fks = s.fks
    BY <1>1
<1>4. IsTable(s2)
  <2>1. IsColumn(ColumnOf(x))
        BY DEF IsColumn, ColumnOf
  <2>2. \A c \in Columns(s) : IsColumn(c2[c])
        BY <1>2, <2>1 DEF IsTable
  <2> HIDE DEF s2
  <2>3. Columns(s2) = Columns(s)
        BY <1>2, <1>3 DEF Columns
  <2>4. QED
        BY <1>1, <1>3, <2>2, <2>3 DEF IsTable
<1> HIDE DEF s2
<1>5. Columns(s2) = Columns(s)
    BY <1>2, <1>3 DEF Columns
<1>6. /\ Renames(d, s2) = Renames(d, s) /\ Missing(d, s2) = Missing(d, s)
      /\ Kept(d, s2) = Kept(d, s)
    BY <1>5 DEF Renames, Missing, Kept
<1>7. \A c : OldName(d, s2, c) = OldName(d, s, c) /\ NewName(d, s2, c) = NewName(d, s, c)
    BY <1>6 DEF OldName, NewName
<1>8. /\ \A columns : NewNames(d, s2, columns) = NewNames(d, s, columns)
      /\ \A k, f : Matches(d, s2, k, f) <=> Matches(d, s, k, f)
    BY <1>7 DEF NewNames, Matches
<1>9. Indexes(d, s2) = Indexes(d, s)
    BY <1>3, <1>8 DEF Indexes
<1>10. Column(d, s2, x) = ColumnOf(x)
    BY <1>2, <1>3, <1>7, KeptNames DEF Column
<1>11. \A f \in Kept(d, s) : f # x => Column(d, s2, f) = Column(d, s, f)
    BY <1>2, <1>3, <1>7, KeptNames DEF Column, Kept
<1>12. \A f \in Kept(d, s) : f # x =>
          /\ Differs(d, s2, f) <=> Differs(d, s, f)
          /\ TypeDiffers(d, s2, f) <=> TypeDiffers(d, s, f)
    BY <1>11 DEF Differs, TypeDiffers
<1>13. ~Differs(d, s2, x) /\ ~TypeDiffers(d, s2, x) /\ x.auto = Column(d, s2, x).auto
    BY <1>10, ColumnOfIs
<1>14. Agrees(d, s2)
    BY <1>3, <1>5, <1>6, <1>8, <1>9, <1>11, <1>12, <1>13 DEF Agrees
<1>15. ASSUME NEW k, NEW y, Needs(d, s2, k, y)
       PROVE  Needs(d, s, k, y) /\ <<k, y>> # <<"modify", x>>
  <2>1. /\ \A i : Covered(d, s2, i) <=> Covered(d, s, i)
        /\ \A c : Checked(s2, c) <=> Checked(s, c)
        /\ \A f : Referenced(d, s2, f) <=> Referenced(d, s, f)
        BY <1>3, <1>8, <1>9 DEF Covered, Checked, Referenced
  <2>2. QED
        BY <1>3, <1>6, <1>12, <1>13, <1>15, <2>1 DEF Needs
<1>16. ASSUME NEW k, NEW y, OfKind(d, k, y), Open(s, k, y) PROVE Open(s2, k, y)
    BY <1>3, <1>5, <1>16 DEF Open
<1>17. QED
    BY <1>4, <1>14, <1>15, <1>16 DEF Advances, s2

LEMMA PrimaryAdvances ==
    ASSUME NEW d, Accepted(d), NEW s, IsTable(s), Agrees(d, s),
           s.pk = << >>, d.pk \in Columns(s)
    PROVE  Advances(d, s, "pk", Primary(d), Altered(s, "pk", Primary(d)))
<1> DEFINE x == Primary(d)
           s2 == Altered(s, "pk", x)
           c2 == [s.columns EXCEPT ![d.pk].nullable = FALSE]
<1>1. s2 = [columns |-> c2, pk |-> <<d.pk>>, indexes |-> s.indexes,
            checks |-> s.checks, fks |-> s.fks, rows |-> s.rows]
    BY DEF Altered, IsTable, Primary
<1>2. /\ DOMAIN c2 = Columns(s) /\ c2[d.pk] = [s.columns[d.pk] EXCEPT !.nullable = FALSE]
      /\ \A c \in Columns(s) : c # d.pk => c2[c] = s.columns[c]
    BY DEF Columns
<1> HIDE DEF c2
<1>3. /\ c2[d.pk].type = s.columns[d.pk].type /\ c2[d.pk].default = s.columns[d.pk].default
      /\ c2[d.pk].auto = s.columns[d.pk].auto /\ c2[d.pk].nullable = FALSE
      /\ IsColumn(c2[d.pk])
    BY <1>2 DEF IsTable, IsColumn
<1>4. /\ s2.columns = c2 /\ s2.pk = <<d.pk>> /\ s2.indexes = s.indexes
      /\ s2.checks = s.checks /\ s2.fks = s.fks
    BY <1>1
<1> HIDE DEF s2
<1>5. Columns(s2) = Columns(s)
    BY <1>2, <1>4 DEF Columns
<1>6. IsTable(s2)
  <2>1. \A c \in Columns(s) : IsColumn(c2[c])
        BY <1>2, <1>3 DEF IsTable
  <2>2. QED
        BY <1>1, <1>4, <1>5, <2>1 DEF IsTable
<1>7. /\ Renames(d, s2) = Renames(d, s) /\ Missing(d, s2) = Missing(d, s)
      /\ Kept(d, s2) = Kept(d, s)
    BY <1>5 DEF Renames, Missing, Kept
<1>8. \A c : OldName(d, s2, c) = OldName(d, s, c) /\ NewName(d, s2, c) = NewName(d, s, c)
    BY <1>7 DEF OldName, NewName
<1>9. /\ \A columns : NewNames(d, s2, columns) = NewNames(d, s, columns)
      /\ \A k, f : Matches(d, s2, k, f) <=> Matches(d, s, k, f)
    BY <1>8 DEF NewNames, Matches
<1>10. Indexes(d, s2) = Indexes(d, s)
    BY <1>4, <1>9 DEF Indexes
<1>11. PICK g \in Fields(d) : g.name = d.pk /\ g.required
    BY DEF Accepted
<1>12. \A f \in Kept(d, s) : f # g => Column(d, s2, f) = Column(d, s, f)
    BY <1>2, <1>4, <1>8, <1>11, KeptNames DEF Column, Kept
<1>13. Column(d, s2, g) = c2[d.pk] /\ Column(d, s, g) = s.columns[d.pk]
    BY <1>4, <1>8, <1>11, KeptNames DEF Column
<1>14. /\ \A f \in Kept(d, s) : TypeDiffers(d, s2, f) <=> TypeDiffers(d, s, f)
       /\ \A f \in Kept(d, s) : Column(d, s2, f).type = Column(d, s, f).type
       /\ \A f \in Kept(d, s) : Column(d, s2, f).auto = Column(d, s, f).auto
    BY <1>3, <1>12, <1>13 DEF TypeDiffers
<1>15. \A f \in Kept(d, s) : Differs(d, s2, f) => Differs(d, s, f)
  <2>1. g.required = TRUE
        BY <1>11 DEF Accepted
  <2>2. Differs(d, s2, g) => Differs(d, s, g)
        BY <1>3, <1>13, <2>1 DEF Differs, TypeDiffers
  <2>3. QED
        BY <1>12, <2>2 DEF Differs, TypeDiffers
<1>16. NewNames(d, s2, <<d.pk>>) = <<d.pk>>
  <2>1. NewName(d, s2, d.pk) = d.pk
        BY <1>8, <1>11, NamesAre
  <2>2. QED
        BY <2>1 DEF NewNames
<1>17. Agrees(d, s2)
    BY <1>4, <1>5, <1>7, <1>9, <1>10, <1>14, <1>16 DEF Agrees
<1>18. ASSUME NEW k, NEW y, Needs(d, s2, k, y)
       PROVE  Needs(d, s, k, y) /\ <<k, y>> # <<"pk", x>>
  <2>1. /\ \A i : Covered(d, s2, i) <=> Covered(d, s, i)
        /\ \A c : Checked(s2, c) <=> Checked(s, c)
        /\ \A f : Referenced(d, s2, f) <=> Referenced(d, s, f)
        BY <1>4, <1>9, <1>10 DEF Covered, Checked, Referenced
  <2>2. s2.pk # << >>
        BY <1>4
  <2>3. QED
        BY <1>7, <1>15, <1>18, <2>1, <2>2 DEF Needs
<1>19. ASSUME NEW k, NEW y, OfKind(d, k, y), Open(s, k, y), <<k, y>> # <<"pk", x>>
       PROVE  Open(s2, k, y)
    BY <1>4, <1>5, <1>19 DEF Open, OfKind
<1>20. QED
    BY <1>6, <1>17, <1>18, <1>19 DEF Advances, s2

LEMMA AddAdvances ==
    ASSUME NEW d, Accepted(d), NEW s, IsTable(s), Agrees(d, s),
           NEW x \in Fields(d), Open(s, "add", x)
    PROVE  Advances(d, s, "add", x, Altered(s, "add", x))
<1> DEFINE s2 == Altered(s, "add", x)
           c2 == With(s.columns, x.name, ColumnOf(x))
           r2 == [r \in DOMAIN s.rows |-> With(s.rows[r], x.name, Filled(x))]
<1>0. x.name \notin Columns(s) /\ x.from \notin Columns(s)
    BY DEF Open
<1>1. s2 = [columns |-> c2, pk |-> s.pk, indexes |-> s.indexes,
            checks |-> s.checks, fks |-> s.fks, rows |-> r2]
  <2>1. s2 = [s EXCEPT !.columns = c2, !.rows = r2]
        BY DEF Altered
  <2> HIDE DEF s2, c2, r2
  <2>2. QED
        BY <2>1 DEF IsTable
<1>2. /\ DOMAIN c2 = Columns(s) \cup {x.name} /\ c2[x.name] = ColumnOf(x)
      /\ \A c \in Columns(s) : c2[c] = s.columns[c]
    BY <1>0 DEF Columns, With
<1> HIDE DEF c2, r2
<1>3. /\ s2.columns = c2 /\ s2.pk = s.pk /\ s2.indexes = s.indexes
      /\ s2.checks = s.checks /\ s2.fks = s.fks
    BY <1>1
<1> HIDE DEF s2
<1>4. Columns(s2) = Columns(s) \cup {x.name}
    BY <1>2, <1>3 DEF Columns
<1>5. IsTable(s2)
  <2>1. IsColumn(ColumnOf(x)) /\ x.name # None
        BY DEF IsColumn, ColumnOf, Accepted
  <2>2. \A c \in Columns(s2) : IsColumn(c2[c])
        BY <1>2, <1>4, <2>1 DEF IsTable
  <2>3. s2 = [columns |-> s2.columns, pk |-> s2.pk, indexes |-> s2.indexes,
              checks |-> s2.checks, fks |-> s2.fks, rows |-> s2.rows]
        BY <1>1
  <2>4. QED
        BY <1>3, <1>4, <2>1, <2>2, <2>3 DEF IsTable
<1>6. \A f \in Fields(d) :
          /\ f.from \in Columns(s2) <=> f.from \in Columns(s)
          /\ f # x => (f.name \in Columns(s2) <=> f.name \in Columns(s))
    BY <1>4, NamesApart DEF Accepted
<1>7. /\ Renames(d, s2) = Renames(d, s) /\ Missing(d, s2) = Missing(d, s) \ {x}
      /\ Kept(d, s2) = Kept(d, s) \cup {x} /\ x \notin Renames(d, s)
    BY <1>0, <1>4, <1>6 DEF Renames, Missing, Kept
<1>8. \A c : OldName(d, s2, c) = OldName(d, s, c) /\ NewName(d, s2, c) = NewName(d, s, c)
    BY <1>7 DEF OldName, NewName
<1>9. /\ \A columns : NewNames(d, s2, columns) = NewNames(d, s, columns)
      /\ \A k, f : Matches(d, s2, k, f) <=> Matches(d, s, k, f)
    BY <1>8 DEF NewNames, Matches
<1>10. Indexes(d, s2) = Indexes(d, s)
    BY <1>3, <1>9 DEF Indexes
<1>11. Column(d, s2, x) = ColumnOf(x)
    BY <1>2, <1>3, <1>7, <1>8, NamesAre DEF Column
<1>12. \A f \in Kept(d, s) : Column(d, s2, f) = Column(d, s, f)
    BY <1>2, <1>3, <1>8, KeptNames DEF Column
<1>13. \A f \in Kept(d, s) :
          /\ Differs(d, s2, f) <=> Differs(d, s, f)
          /\ TypeDiffers(d, s2, f) <=> TypeDiffers(d, s, f)
    BY <1>12 DEF Differs, TypeDiffers
<1>14. ~Differs(d, s2, x) /\ ~TypeDiffers(d, s2, x) /\ x.auto = Column(d, s2, x).auto
    BY <1>11, ColumnOfIs
<1>15. Agrees(d, s2)
  <2>1. \A f \in Fields(d) : ~(f.name \in Columns(s2) /\ f.from \in Columns(s2))
        BY <1>0, <1>6 DEF Agrees
  <2>2. QED
        BY <1>3, <1>7, <1>9, <1>10, <1>12, <1>13, <1>14, <2>1 DEF Agrees
<1>16. ASSUME NEW k, NEW y, Needs(d, s2, k, y)
       PROVE  Needs(d, s, k, y) /\ <<k, y>> # <<"add", x>>
  <2>1. /\ \A i : Covered(d, s2, i) <=> Covered(d, s, i)
        /\ \A c : Checked(s2, c) <=> Checked(s, c)
        /\ \A f : Referenced(d, s2, f) <=> Referenced(d, s, f)
        BY <1>3, <1>9, <1>10 DEF Covered, Checked, Referenced
  <2>2. QED
        BY <1>3, <1>7, <1>13, <1>14, <1>16, <2>1 DEF Needs
<1>17. ASSUME NEW k, NEW y, OfKind(d, k, y), Open(s, k, y), <<k, y>> # <<"add", x>>
       PROVE  Open(s2, k, y)
  <2>1. CASE k \in {"rename", "add"}
    <3>1. y \in Fields(d) /\ y # x
          BY <1>0, <1>17, <2>1 DEF OfKind, Open
    <3>2. QED
          BY <1>6, <1>17, <2>1, <3>1 DEF Open
  <2>2. CASE k \notin {"rename", "add"}
        BY <1>3, <1>17, <2>2 DEF Open
  <2>3. QED
        BY <2>1, <2>2
<1>18. QED
    BY <1>5, <1>15, <1>16, <1>17 DEF Advances, s2

(* Who looks at a table by the names of its definition sees no difference  *)
(* before and after a column gets its name.                                *)
LEMMA RenameAdvances ==
    ASSUME NEW d, Accepted(d), NEW s, IsTable(s), Agrees(d, s),
           NEW x \in Fields(d), Open(s, "rename", x)
    PROVE  Advances(d, s, "rename", x, Altered(s, "rename", x))
<1> DEFINE s2 == Altered(s, "rename", x)
           c2 == Renamed(s.columns, x)
           r2 == [r \in DOMAIN s.rows |-> Renamed(s.rows[r], x)]
           Swapped(columns) == [n \in DOMAIN columns |-> Swap(columns[n], x)]
           i2 == {[i EXCEPT !.columns = Swapped(@)] : i \in s.indexes}
           k2 == {[k EXCEPT !.column = Swap(@, x)] : k \in s.fks}
<1>0. /\ x.name \notin Columns(s) /\ x.from \in Columns(s) /\ x.from # x.name
      /\ x \in Renames(d, s) /\ x.from # None
    BY DEF Open, Accepted, Renames, IsTable
<1>1. s2 = [columns |-> c2, pk |-> Swapped(s.pk), indexes |-> i2,
            checks |-> s.checks, fks |-> k2, rows |-> r2]
  <2> DEFINE p2 == Swapped(s.pk)
  <2>1. s2 = [s EXCEPT !.columns = c2, !.rows = r2, !.pk = p2, !.indexes = i2, !.fks = k2]
        BY DEF Altered
  <2> HIDE DEF s2, c2, r2, i2, k2, p2
  <2>2. s2 = [columns |-> c2, pk |-> p2, indexes |-> i2,
              checks |-> s.checks, fks |-> k2, rows |-> r2]
        BY <2>1 DEF IsTable
  <2>3. QED
        BY <2>2 DEF p2
<1>2. /\ DOMAIN c2 = (Columns(s) \ {x.from}) \cup {x.name}
      /\ c2[x.name] = s.columns[x.from]
      /\ \A c \in Columns(s) \ {x.from} : c2[c] = s.columns[c]
  <2>1. {Swap(b, x) : b \in Columns(s)} = (Columns(s) \ {x.from}) \cup {x.name}
        BY <1>0 DEF Swap
  <2>2. c2 = [c \in {Swap(b, x) : b \in Columns(s)} |->
                 s.columns[IF c = x.name THEN x.from ELSE c]]
        BY DEF Renamed, Columns
  <2> HIDE DEF c2
  <2>3. QED
        BY <1>0, <2>1, <2>2
<1> HIDE DEF c2, r2, i2, k2
<1>3. /\ s2.columns = c2 /\ s2.indexes = i2 /\ s2.checks = s.checks /\ s2.fks = k2
      /\ s2.pk = Swapped(s.pk)
    BY <1>1
<1> HIDE DEF s2
<1>4. Columns(s2) = (Columns(s) \ {x.from}) \cup {x.name}
    BY <1>2, <1>3 DEF Columns
<1>5. /\ \A i \in s.indexes :
             [i EXCEPT !.columns = Swapped(@)]
               = [name |-> i.name, unique |-> i.unique, columns |-> Swapped(i.columns)]
      /\ \A k \in s.fks :
             [k EXCEPT !.column = Swap(@, x)]
               = [name |-> k.name, column |-> Swap(k.column, x), table |-> k.table,
                  target |-> k.target]
  <2> HIDE DEF Swapped
  <2>1. \A i \in s.indexes :
             [i EXCEPT !.columns = Swapped(@)]
               = [name |-> i.name, unique |-> i.unique, columns |-> Swapped(i.columns)]
        BY DEF IsTable, IsIndex
  <2>2. \A k \in s.fks :
             [k EXCEPT !.column = Swap(@, x)]
               = [name |-> k.name, column |-> Swap(k.column, x), table |-> k.table,
                  target |-> k.target]
        BY DEF IsTable, IsKey
  <2>3. QED
        BY <2>1, <2>2
<1>6. /\ i2 = {[name |-> i.name, unique |-> i.unique, columns |-> Swapped(i.columns)] :
                 i \in s.indexes}
      /\ k2 = {[name |-> k.name, column |-> Swap(k.column, x), table |-> k.table,
                target |-> k.target] : k \in s.fks}
  <2> DEFINE A(i) == [i EXCEPT !.columns = Swapped(@)]
             B(i) == [name |-> i.name, unique |-> i.unique, columns |-> Swapped(i.columns)]
             C(k) == [k EXCEPT !.column = Swap(@, x)]
             E(k) == [name |-> k.name, column |-> Swap(k.column, x), table |-> k.table,
                      target |-> k.target]
  <2>1. i2 = {A(i) : i \in s.indexes} /\ k2 = {C(k) : k \in s.fks}
        BY DEF i2, k2
  <2>2. (\A i \in s.indexes : A(i) = B(i)) /\ \A k \in s.fks : C(k) = E(k)
        BY <1>5
  <2> HIDE DEF A, B, C, E
  <2>3. i2 = {B(i) : i \in s.indexes} /\ k2 = {E(k) : k \in s.fks}
        BY <2>1, <2>2
  <2>4. QED
        BY <2>3 DEF B, E
<1> HIDE DEF Swapped
<1>7. IsTable(s2)
  <2>1. (\A i \in i2 : IsIndex(i)) /\ (\A k \in k2 : IsKey(k))
        BY <1>6 DEF IsIndex, IsKey
  <2>2. x.name # None
        BY DEF Accepted
  <2>3. \A c \in Columns(s2) : IsColumn(c2[c])
        BY <1>0, <1>2, <1>4 DEF IsTable
  <2>4. s2 = [columns |-> s2.columns, pk |-> s2.pk, indexes |-> s2.indexes,
              checks |-> s2.checks, fks |-> s2.fks, rows |-> s2.rows]
        BY <1>1
  <2>5. s2.pk \in Seq(Columns(s2))
    <3>1. /\ Len(s.pk) \in Nat /\ DOMAIN s.pk = 1 .. Len(s.pk)
          /\ \A n \in 1 .. Len(s.pk) : s.pk[n] \in Columns(s)
          BY Members DEF IsTable
    <3>2. /\ s2.pk = [n \in 1 .. Len(s.pk) |-> s2.pk[n]]
          /\ \A n \in 1 .. Len(s.pk) : s2.pk[n] = Swap(s.pk[n], x)
          BY <1>3, <3>1 DEF Swapped
    <3>3. \A n \in 1 .. Len(s.pk) : s2.pk[n] \in Columns(s2)
          BY <1>4, <3>1, <3>2 DEF Swap
    <3>4. QED
          BY <3>1, <3>2, <3>3, Listed
  <2>6. QED
        BY <1>3, <1>4, <2>1, <2>2, <2>3, <2>4, <2>5 DEF IsTable
<1>8. \A f \in Fields(d) : f # x =>
          /\ f.from \in Columns(s2) <=> f.from \in Columns(s)
          /\ f.name \in Columns(s2) <=> f.name \in Columns(s)
          /\ f.from # x.from /\ f.from # x.name /\ f.name # x.from /\ f.name # x.name
    BY <1>0, <1>4, NamesApart DEF Accepted
<1>9. x.name \in Columns(s2) /\ x.from \notin Columns(s2)
    BY <1>0, <1>4
<1>10. /\ Renames(d, s2) = Renames(d, s) \ {x} /\ Missing(d, s2) = Missing(d, s)
       /\ Kept(d, s2) = Kept(d, s)
    BY <1>0, <1>8, <1>9 DEF Renames, Missing, Kept
<1>11. \A c : NewName(d, s2, Swap(c, x)) = NewName(d, s, c)
  <2> SUFFICES ASSUME NEW c PROVE NewName(d, s2, Swap(c, x)) = NewName(d, s, c)
        OBVIOUS
  <2>1. CASE c = x.from
    <3>1. NewName(d, s2, x.name) = x.name /\ NewName(d, s, x.from) = x.name
          BY <1>0, <1>7, NamesAre
    <3>2. QED
          BY <2>1, <3>1 DEF Swap
  <2>2. CASE c # x.from /\ \E f \in Renames(d, s) : f.from = c
    <3>1. PICK f \in Renames(d, s) : f.from = c
          BY <2>2
    <3>2. f \in Renames(d, s2)
          BY <1>10, <2>2, <3>1
    <3>3. NewName(d, s2, c) = f.name /\ NewName(d, s, c) = f.name
          BY <1>7, <3>1, <3>2, NamesAre
    <3>4. QED
          BY <2>2, <3>3 DEF Swap
  <2>3. CASE c # x.from /\ ~\E f \in Renames(d, s) : f.from = c
    <3>1. NewName(d, s2, c) = c /\ NewName(d, s, c) = c
          BY <1>7, <1>10, <2>3, NamesAre
    <3>2. QED
          BY <2>3, <3>1 DEF Swap
  <2>4. QED
        BY <2>1, <2>2, <2>3
<1>12. \A columns : NewNames(d, s2, Swapped(columns)) = NewNames(d, s, columns)
    BY <1>11 DEF NewNames, Swapped
<1>13. Indexes(d, s2) = Indexes(d, s)
  <2> DEFINE View(u, i) == [i EXCEPT !.columns = NewNames(d, u, @)]
             New(i) == [name |-> i.name, unique |-> i.unique, columns |-> Swapped(i.columns)]
  <2>1. ASSUME NEW i \in s.indexes PROVE View(s2, New(i)) = View(s, i)
    <3>1. View(s, i) = [name |-> i.name, unique |-> i.unique, columns |-> NewNames(d, s, i.columns)]
          BY DEF IsTable, IsIndex
    <3>2. View(s2, New(i)) = [name |-> i.name, unique |-> i.unique,
                              columns |-> NewNames(d, s2, Swapped(i.columns))]
          OBVIOUS
    <3>3. QED
          BY <1>12, <3>1, <3>2
  <2>2. /\ Indexes(d, s) = {View(s, i) : i \in s.indexes}
        /\ Indexes(d, s2) = {View(s2, i) : i \in s2.indexes}
        BY DEF Indexes
  <2>3. s2.indexes = {New(i) : i \in s.indexes}
        BY <1>3, <1>6
  <2> HIDE DEF View, New
  <2>4. QED
        BY <2>1, <2>2, <2>3
<1>14. \A f : (\E k \in s2.fks : Matches(d, s2, k, f)) <=> \E k \in s.fks : Matches(d, s, k, f)
  <2> DEFINE New(k) == [name |-> k.name, column |-> Swap(k.column, x), table |-> k.table,
                        target |-> k.target]
  <2>1. \A f : \A k \in s.fks : Matches(d, s2, New(k), f) <=> Matches(d, s, k, f)
        BY <1>11 DEF Matches
  <2>2. s2.fks = {New(k) : k \in s.fks}
        BY <1>3, <1>6
  <2> HIDE DEF New
  <2>3. QED
        BY <2>1, <2>2
<1>15. NewNames(d, s2, s2.pk) = NewNames(d, s, s.pk) /\ (s2.pk = << >> <=> s.pk = << >>)
  <2>1. Swapped(s.pk) = << >> <=> s.pk = << >>
    <3>1. s.pk = [n \in DOMAIN s.pk |-> s.pk[n]]
          BY DEF IsTable
    <3>2. DOMAIN Swapped(s.pk) = DOMAIN s.pk
          BY DEF Swapped
    <3>3. QED
          BY <3>1, <3>2 DEF Swapped
  <2>2. QED
        BY <1>3, <1>12, <2>1
<1>16. \A f \in Kept(d, s) : Column(d, s2, f) = Column(d, s, f)
  <2> SUFFICES ASSUME NEW f \in Kept(d, s) PROVE Column(d, s2, f) = Column(d, s, f)
        OBVIOUS
  <2>1. f \in Fields(d)
        BY DEF Kept
  <2>2. CASE f = x
    <3>1. OldName(d, s2, f.name) = x.name /\ OldName(d, s, f.name) = x.from
          BY <1>0, <1>7, <1>9, <2>2, KeptNames, NamesAre
    <3>2. QED
          BY <1>2, <1>3, <3>1 DEF Column
  <2>3. CASE f # x
    <3>1. OldName(d, s2, f.name) = OldName(d, s, f.name)
          BY <1>7, <1>10, <2>1, <2>3, NamesAre
    <3>2. OldName(d, s, f.name) \in {f.name, f.from} /\ OldName(d, s, f.name) \in Columns(s)
          BY <2>1, NamesAre, KeptNames
    <3>3. OldName(d, s, f.name) \in Columns(s) \ {x.from}
          BY <1>8, <2>1, <2>3, <3>2
    <3>4. QED
          BY <1>2, <1>3, <3>1, <3>3 DEF Column
  <2>4. QED
        BY <2>2, <2>3
<1>17. \A f \in Kept(d, s) :
          /\ Differs(d, s2, f) <=> Differs(d, s, f)
          /\ TypeDiffers(d, s2, f) <=> TypeDiffers(d, s, f)
    BY <1>16 DEF Differs, TypeDiffers
<1>18. Agrees(d, s2)
  <2>1. \A f \in Fields(d) : ~(f.name \in Columns(s2) /\ f.from \in Columns(s2))
        BY <1>8, <1>9 DEF Agrees
  <2>2. \A f \in ToSet(d.fks), k \in s2.fks : f.name = k.name => Matches(d, s2, k, f)
        BY <1>3, <1>6, <1>11 DEF Agrees, Matches
  <2>3. QED
        BY <1>3, <1>10, <1>13, <1>15, <1>16, <1>17, <2>1, <2>2 DEF Agrees
<1>19. ASSUME NEW k, NEW y, Needs(d, s2, k, y)
       PROVE  Needs(d, s, k, y) /\ <<k, y>> # <<"rename", x>>
  <2>1. /\ \A i : Covered(d, s2, i) <=> Covered(d, s, i)
        /\ \A c : Checked(s2, c) <=> Checked(s, c)
        /\ \A f : Referenced(d, s2, f) <=> Referenced(d, s, f)
        BY <1>3, <1>13, <1>14 DEF Covered, Checked, Referenced
  <2>2. QED
        BY <1>10, <1>15, <1>17, <1>19, <2>1 DEF Needs
<1>20. ASSUME NEW k, NEW y, OfKind(d, k, y), Open(s, k, y), <<k, y>> # <<"rename", x>>
       PROVE  Open(s2, k, y)
  <2>1. CASE k \in {"rename", "add"}
    <3>1. y \in Fields(d) /\ y # x
          BY <1>0, <1>20, <2>1 DEF OfKind, Open
    <3>2. QED
          BY <1>8, <1>20, <2>1, <3>1 DEF Open
  <2>2. CASE k \notin {"rename", "add"}
        BY <1>3, <1>6, <1>15, <1>20, <2>2 DEF Open
  <2>3. QED
        BY <2>1, <2>2
<1>21. QED
    BY <1>7, <1>18, <1>19, <1>20 DEF Advances, s2

LEMMA AlteredAdvances ==
    ASSUME NEW d, Accepted(d), NEW s, IsTable(s), Agrees(d, s), NEW kind, NEW x,
           OfKind(d, kind, x), Open(s, kind, x),
           kind = "modify" => x.name \in Columns(s), kind = "pk" => x.name \in Columns(s)
    PROVE  Advances(d, s, kind, x, Altered(s, kind, x))
<1>1. CASE kind = "pk"
  <2>1. x = Primary(d) /\ x.name = d.pk /\ s.pk = << >>
        BY <1>1 DEF OfKind, Open, Primary
  <2>2. QED
        BY <1>1, <2>1, PrimaryAdvances
<1>2. CASE kind # "pk"
    BY <1>2, AddAdvances, RenameAdvances, ModifyAdvances, IndexAdvances, CheckAdvances,
       KeyAdvances DEF OfKind
<1>3. QED
    BY <1>1, <1>2

LEMMA CreatedIs ==
    ASSUME NEW d, Accepted(d)
    PROVE  /\ IsTable(Created(d)) /\ Agrees(d, Created(d))
           /\ \A k, y : Needs(d, Created(d), k, y) => k = "fk" /\ y \in ToSet(d.fks)
           /\ \A y : Open(Created(d), "fk", y)
<1> DEFINE s == Created(d)
           c == [b \in {f.name : f \in Fields(d)} |-> ColumnOf(CHOOSE f \in Fields(d) : f.name = b)]
<1>1. s = [columns |-> c, pk |-> <<d.pk>>, indexes |-> ToSet(d.indexes),
           checks |-> ToSet(d.checks), fks |-> {}, rows |-> << >>]
    BY DEF Created
<1>2. /\ DOMAIN c = FieldNames(d) /\ \A f \in Fields(d) : c[f.name] = ColumnOf(f)
    BY NamesApart DEF FieldNames
<1> HIDE DEF c
<1>3. /\ s.columns = c /\ s.pk = <<d.pk>> /\ s.indexes = ToSet(d.indexes)
      /\ s.checks = ToSet(d.checks) /\ s.fks = {}
    BY <1>1
<1> HIDE DEF s
<1>4. Columns(s) = FieldNames(d)
    BY <1>2, <1>3 DEF Columns
<1>5. d.pk \in FieldNames(d)
    BY DEF Accepted, FieldNames
<1>6. IsTable(s)
  <2>1. None \notin Columns(s)
        BY <1>4 DEF Accepted, FieldNames
  <2>2. \A b \in Columns(s) : IsColumn(c[b])
    <3>1. \A f : IsColumn(ColumnOf(f))
          BY DEF IsColumn, ColumnOf
    <3>2. QED
          BY <1>2, <1>4, <3>1 DEF FieldNames
  <2>3. \A i \in ToSet(d.indexes) : IsIndex(i)
        BY DEF Accepted
  <2>4. s.pk \in Seq(Columns(s)) /\ \A k \in s.fks : IsKey(k)
        BY <1>3, <1>4, <1>5
  <2>5. s = [columns |-> s.columns, pk |-> s.pk, indexes |-> s.indexes,
             checks |-> s.checks, fks |-> s.fks, rows |-> s.rows]
        BY <1>1, Zenon
  <2>6. QED
        BY <1>3, <2>1, <2>2, <2>3, <2>4, <2>5 DEF IsTable
<1>7. Renames(d, s) = {} /\ Missing(d, s) = {} /\ Kept(d, s) = Fields(d)
    BY <1>4 DEF Renames, Missing, Kept, FieldNames
<1>8. \A f \in Fields(d) : Column(d, s, f) = ColumnOf(f)
    BY <1>2, <1>3, <1>6, <1>7, NamesAre DEF Column
<1>9. \A f \in Fields(d) :
          ~Differs(d, s, f) /\ ~TypeDiffers(d, s, f) /\ f.auto = Column(d, s, f).auto
    BY <1>8, ColumnOfIs
<1>10. \A b : NewName(d, s, b) = b
    BY <1>6, <1>7, NamesAre
<1>11. Indexes(d, s) = ToSet(d.indexes)
  <2> DEFINE View(i) == [i EXCEPT !.columns = NewNames(d, s, @)]
  <2>1. ASSUME NEW i \in ToSet(d.indexes) PROVE View(i) = i
    <3>1. IsIndex(i) /\ i.columns = [n \in DOMAIN i.columns |-> i.columns[n]]
          BY DEF Accepted
    <3>2. NewNames(d, s, i.columns) = i.columns
          BY <1>10, <3>1 DEF NewNames
    <3>3. QED
          BY <3>1, <3>2 DEF IsIndex
  <2>2. Indexes(d, s) = {View(i) : i \in ToSet(d.indexes)}
        BY <1>3 DEF Indexes
  <2> HIDE DEF View
  <2>3. QED
        BY <2>1, <2>2
<1>12. NewNames(d, s, s.pk) = <<d.pk>>
    BY <1>3, <1>10 DEF NewNames
<1>13. Agrees(d, s)
  <2>1. \A f \in Fields(d) : ~(f.name \in Columns(s) /\ f.from \in Columns(s))
        BY <1>4 DEF Accepted, FieldNames
  <2>2. QED
        BY <1>3, <1>7, <1>9, <1>11, <1>12, <2>1, NamesApart DEF Agrees
<1>14. /\ \A i \in ToSet(d.indexes) : Covered(d, s, i)
       /\ \A k \in ToSet(d.checks) : Checked(s, k)
    BY <1>3, <1>11 DEF Covered, Checked
<1>15. \A k, y : Needs(d, s, k, y) => k = "fk" /\ y \in ToSet(d.fks)
    BY <1>3, <1>7, <1>9, <1>14 DEF Needs
<1>16. \A y : Open(s, "fk", y)
    BY <1>3 DEF Open
<1>17. QED
    BY <1>6, <1>13, <1>15, <1>16 DEF s

-----------------------------------------------------------------------------
(* All tables: what the plan made of them holds, what a statement left in  *)
(* a plan presumes, and what every run of the synchroniser keeps.          *)
Of(d, kind, x) == [kind |-> kind, table |-> d.name, object |-> x]

Wanted(d, tables, kind, x) ==
    IF d.name \in DOMAIN tables THEN Needs(d, tables[d.name], kind, x)
    ELSE \/ kind = "create" /\ x = d
         \/ kind = "fk" /\ x \in ToSet(d.fks)

OpenAt(st, tables) ==
    IF st.table \in DOMAIN tables
    THEN st.kind # "create" /\ Open(tables[st.table], st.kind, st.object)
    ELSE st.kind \in {"create", "fk"}

Sound(tables) ==
    /\ \A t \in DOMAIN tables : IsTable(tables[t])
    /\ \A d \in ToSet(want) : d.name \in DOMAIN tables => Agrees(d, tables[d.name])

LEMMA DueIs ==
    ASSUME NEW tables, NEW st
    PROVE  st \in Due(tables) <=>
              \E d \in ToSet(want) : \E kind, x : st = Of(d, kind, x) /\ Wanted(d, tables, kind, x)
<1>1. ASSUME NEW d
      PROVE  st \in First(d, tables) \cup Second(d, tables) <=>
                \E kind, x : st = Of(d, kind, x) /\ Wanted(d, tables, kind, x)
  <2>1. \A kind, objects : st \in Each(kind, d, objects) <=>
            \E x \in objects : st = Of(d, kind, x)
        BY DEF Each, Of
  <2>2. CASE d.name \notin DOMAIN tables
        BY <2>1, <2>2 DEF First, Second, Wanted
  <2>3. CASE d.name \in DOMAIN tables
    <3> DEFINE s == tables[d.name]
    <3>1. \A kind, x : Wanted(d, tables, kind, x) <=> Needs(d, s, kind, x)
          BY <2>3 DEF Wanted
    <3>2. First(d, tables) = Altering(d, s) /\ Second(d, tables) = Keying(d, s)
          BY <2>3 DEF First, Second
    <3> HIDE DEF s
    <3>3. st \in Altering(d, s) \cup Keying(d, s) <=>
             \E kind, x : st = Of(d, kind, x) /\ Needs(d, s, kind, x)
          BY <2>1 DEF Altering, Keying, Needs
    <3>4. QED
          BY <3>1, <3>2, <3>3
  <2>4. QED
        BY <2>2, <2>3
<1>2. QED
    BY <1>1 DEF Due

LEMMA UniverseIs ==
    ASSUME NEW st
    PROVE  st \in Universe <=>
              \E d \in ToSet(want) : \E kind, x :
                 /\ st = Of(d, kind, x)
                 /\ OfKind(d, kind, x) \/ (kind = "create" /\ x = d)
<1>1. \A d, kind, objects : st \in Each(kind, d, objects) <=>
          \E x \in objects : st = Of(d, kind, x)
    BY DEF Each, Of
<1>2. ASSUME NEW d
      PROVE  st \in Possible(d) <=>
                \E kind, x : /\ st = Of(d, kind, x)
                             /\ OfKind(d, kind, x) \/ (kind = "create" /\ x = d)
  <2> HIDE DEF Of
  <2>1. \A kind, objects : st \in Each(kind, d, objects) <=>
            \E x \in objects : st = Of(d, kind, x)
        BY <1>1
  <2>2. QED
        BY <2>1 DEF Possible, OfKind
<1>3. QED
    BY <1>2 DEF Universe

LEMMA DefinitionsAre ==
    ASSUME Holdable(want)
    PROVE  /\ \A d \in ToSet(want) : Accepted(d)
           /\ \A d, e \in ToSet(want) : d.name = e.name => d = e
BY DEF Holdable, NamedApart, ToSet

(* A statement that is executed is not needed any more, it brings about no *)
(* need for another one, and it leaves open what the others presume.       *)
LEMMA RunAdvances ==
    ASSUME Holdable(want), NEW tables, Sound(tables), NEW st \in Universe,
           OpenAt(st, tables), Applies(st, tables),
           st.kind # "create" => st.table \in DOMAIN tables
    PROVE  /\ Sound(Run(st, tables))
           /\ \A o \in Due(Run(st, tables)) : o \in Due(tables) /\ o # st
           /\ \A o \in Universe : OpenAt(o, tables) /\ o # st => OpenAt(o, Run(st, tables))
<1>0. PICK d \in ToSet(want) :
           \E kind, x : /\ st = Of(d, kind, x)
                        /\ OfKind(d, kind, x) \/ (kind = "create" /\ x = d)
    BY UniverseIs
<1>1. PICK kind, x : /\ st = Of(d, kind, x)
                     /\ OfKind(d, kind, x) \/ (kind = "create" /\ x = d)
    BY <1>0
<1>2. st.kind = kind /\ st.table = d.name /\ st.object = x
    BY <1>1 DEF Of
<1>3. Accepted(d) /\ \A e \in ToSet(want) : e.name = d.name => e = d
    BY DefinitionsAre
<1> DEFINE new == Run(st, tables)
           s2 == new[d.name]
<1>4. /\ DOMAIN new = DOMAIN tables \cup {d.name}
      /\ \A t \in DOMAIN tables : t # d.name => new[t] = tables[t]
      /\ kind = "create" => s2 = Created(d)
      /\ kind # "create" => s2 = Altered(tables[d.name], kind, x)
  <2>1. CASE kind = "create"
    <3>1. new = With(tables, d.name, Created(d))
          BY <1>1, <1>2, <2>1 DEF Run, OfKind
    <3> HIDE DEF new
    <3>2. QED
          BY <2>1, <3>1 DEF With
  <2>2. CASE kind # "create"
    <3>1. new = [tables EXCEPT ![d.name] = Altered(@, kind, x)] /\ d.name \in DOMAIN tables
          BY <1>2, <2>2 DEF Run
    <3> HIDE DEF new
    <3>2. QED
          BY <2>2, <3>1
  <2>3. QED
        BY <2>1, <2>2
<1> HIDE DEF new
<1>5. /\ IsTable(s2) /\ Agrees(d, s2)
      /\ \A k, y : Needs(d, s2, k, y) => Wanted(d, tables, k, y) /\ <<k, y>> # <<kind, x>>
      /\ \A k, y : /\ OfKind(d, k, y) \/ (k = "create" /\ y = d)
                   /\ OpenAt(Of(d, k, y), tables) /\ <<k, y>> # <<kind, x>>
                   => k # "create" /\ Open(s2, k, y)
  <2>1. \A k, y : OpenAt(Of(d, k, y), tables) <=>
            IF d.name \in DOMAIN tables THEN k # "create" /\ Open(tables[d.name], k, y)
            ELSE k \in {"create", "fk"}
        BY DEF OpenAt, Of
  <2>2. CASE kind = "create"
    <3>1. s2 = Created(d) /\ d.name \notin DOMAIN tables /\ x = d
          BY <1>1, <1>2, <1>4, <2>1, <2>2 DEF OfKind
    <3>2. /\ IsTable(s2) /\ Agrees(d, s2)
          /\ \A k, y : Needs(d, s2, k, y) => k = "fk" /\ y \in ToSet(d.fks)
          /\ \A y : Open(s2, "fk", y)
          BY <1>3, <3>1, CreatedIs
    <3>3. \A k, y : /\ OfKind(d, k, y) \/ (k = "create" /\ y = d)
                    /\ OpenAt(Of(d, k, y), tables) /\ <<k, y>> # <<kind, x>>
                    => k = "fk"
          BY <2>1, <2>2, <3>1 DEF OfKind
    <3>4. \A k, y : k = "fk" /\ y \in ToSet(d.fks) =>
                Wanted(d, tables, k, y) /\ <<k, y>> # <<kind, x>>
          BY <2>2, <3>1 DEF Wanted
    <3>5. QED
          BY <3>2, <3>3, <3>4
  <2>3. CASE kind # "create"
    <3> DEFINE s == tables[d.name]
    <3>1. s2 = Altered(s, kind, x) /\ d.name \in DOMAIN tables /\ OfKind(d, kind, x)
          BY <1>1, <1>2, <1>4, <2>3
    <3>2. IsTable(s) /\ Agrees(d, s) /\ Open(s, kind, x)
          BY <1>1, <2>1, <3>1 DEF Sound
    <3>3. /\ kind = "modify" => x.name \in Columns(s)
          /\ kind = "pk" => x.name \in Columns(s)
          BY <1>2 DEF Applies
    <3>4. \A k, y : Wanted(d, tables, k, y) <=> Needs(d, s, k, y)
          BY <3>1 DEF Wanted
    <3>5. \A k, y : OpenAt(Of(d, k, y), tables) <=> k # "create" /\ Open(s, k, y)
          BY <2>1, <3>1
    <3> HIDE DEF s, s2
    <3>6. Advances(d, s, kind, x, s2)
          BY <1>3, <3>1, <3>2, <3>3, AlteredAdvances
    <3>7. QED
          BY <3>4, <3>5, <3>6 DEF Advances
  <2>4. QED
        BY <2>2, <2>3
<1>6. Sound(new)
  <2>1. \A t \in DOMAIN new : IsTable(new[t])
        BY <1>4, <1>5 DEF Sound
  <2>2. \A e \in ToSet(want) : e.name \in DOMAIN new => Agrees(e, new[e.name])
        BY <1>3, <1>4, <1>5 DEF Sound
  <2>3. QED
        BY <2>1, <2>2 DEF Sound
<1> HIDE DEF s2
<1>7. ASSUME NEW o \in Due(new) PROVE o \in Due(tables) /\ o # st
  <2>0. PICK e \in ToSet(want) : \E k, y : o = Of(e, k, y) /\ Wanted(e, new, k, y)
        BY DueIs
  <2>1. PICK k, y : o = Of(e, k, y) /\ Wanted(e, new, k, y)
        BY <2>0
  <2>2. CASE e = d
    <3>1. Needs(d, s2, k, y)
          BY <1>4, <2>1, <2>2 DEF Wanted, s2
    <3>2. Wanted(d, tables, k, y) /\ <<k, y>> # <<kind, x>>
          BY <1>5, <3>1
    <3>3. o.kind = k /\ o.object = y
          BY <2>1 DEF Of
    <3>4. QED
          BY <1>2, <2>1, <2>2, <3>2, <3>3, DueIs
  <2>3. CASE e # d
    <3>1. e.name # d.name
          BY <1>3, <2>3
    <3>2. Wanted(e, tables, k, y)
          BY <1>4, <2>1, <3>1 DEF Wanted
    <3>3. o.table = e.name
          BY <2>1 DEF Of
    <3>4. QED
          BY <1>2, <2>1, <3>1, <3>2, <3>3, DueIs
  <2>4. QED
        BY <2>2, <2>3
<1>8. ASSUME NEW o \in Universe, OpenAt(o, tables), o # st PROVE OpenAt(o, new)
  <2>0. PICK e \in ToSet(want) :
            \E k, y : /\ o = Of(e, k, y)
                      /\ OfKind(e, k, y) \/ (k = "create" /\ y = e)
        BY UniverseIs
  <2>1. PICK k, y : /\ o = Of(e, k, y)
                    /\ OfKind(e, k, y) \/ (k = "create" /\ y = e)
        BY <2>0
  <2>2. o.kind = k /\ o.object = y /\ o.table = e.name
        BY <2>1 DEF Of
  <2>3. CASE e = d
    <3>1. <<k, y>> # <<kind, x>>
          BY <1>1, <1>8, <2>1, <2>3
    <3>2. k # "create" /\ Open(s2, k, y)
          BY <1>5, <1>8, <2>1, <2>3, <3>1
    <3>3. QED
          BY <1>4, <2>2, <2>3, <3>2 DEF OpenAt, s2
  <2>4. CASE e # d
    <3>1. e.name # d.name
          BY <1>3, <2>4
    <3>2. QED
          BY <1>4, <1>8, <2>2, <3>1 DEF OpenAt
  <2>5. QED
        BY <2>3, <2>4
<1>9. QED
    BY <1>6, <1>7, <1>8 DEF new

(* The tables a foreign key refers to and the columns a constraint names   *)
(* are there when everything that is still needed comes later.             *)
LEMMA AllThere ==
    ASSUME Holdable(want), NEW tables, NEW d \in ToSet(want), NEW kind,
           \A o \in Due(tables) :
              o.table = d.name => o.kind = kind \/ o.kind \notin Columnar,
           kind \notin Columnar
    PROVE  d.name \in DOMAIN tables /\ FieldNames(d) \subseteq Columns(tables[d.name])
<1>1. ASSUME d.name \notin DOMAIN tables PROVE FALSE
  <2>1. Of(d, "create", d) \in Due(tables)
        BY <1>1, DueIs DEF Wanted
  <2>2. QED
        BY <2>1 DEF Of, Columnar
<1>2. ASSUME NEW f \in Fields(d), f.name \notin Columns(tables[d.name]) PROVE FALSE
  <2>1. \/ Wanted(d, tables, "rename", f)
        \/ Wanted(d, tables, "add", f)
        BY <1>1, <1>2 DEF Wanted, Needs, Renames, Missing
  <2>2. Of(d, "rename", f) \in Due(tables) \/ Of(d, "add", f) \in Due(tables)
        BY <2>1, DueIs
  <2>3. QED
        BY <2>2 DEF Of, Columnar
<1>3. QED
    BY <1>1, <1>2 DEF FieldNames

LEMMA KeyThere ==
    ASSUME Holdable(want), NEW tables, Sound(tables), NEW e \in ToSet(want), NEW column,
           Keyed(e, column), \A o \in Due(tables) : o.table = e.name => o.kind = "fk"
    PROVE  /\ e.name \in DOMAIN tables
           /\ LET target == tables[e.name]
              IN  \E key \in {target.pk} \cup {i.columns : i \in target.indexes} :
                     key # << >> /\ key[1] = column
<1> DEFINE s == tables[e.name]
<1>1. Accepted(e)
    BY DefinitionsAre
<1>2. e.name \in DOMAIN tables /\ FieldNames(e) \subseteq Columns(s)
  <2>1. \A o \in Due(tables) : o.table = e.name => o.kind = "fk" \/ o.kind \notin Columnar
        OBVIOUS
  <2>2. "fk" \notin Columnar
        BY DEF Columnar
  <2>3. QED
        BY <2>1, <2>2, AllThere
<1>3. IsTable(s) /\ Agrees(e, s)
    BY <1>2 DEF Sound
<1>4. \A kind, x : Needs(e, s, kind, x) => kind = "fk"
  <2>1. ASSUME NEW kind, NEW x, Needs(e, s, kind, x) PROVE kind = "fk"
    <3>1. Of(e, kind, x) \in Due(tables)
          BY <1>2, <2>1, DueIs DEF Wanted
    <3>2. QED
          BY <3>1 DEF Of
  <2>2. QED
        BY <2>1
<1> HIDE DEF s
<1>5. \A c : NewName(e, s, c) = c
  <2>1. Renames(e, s) = {}
        BY <1>2 DEF Renames, FieldNames
  <2>2. QED
        BY <1>1, <1>3, <2>1, NamesAre
<1>6. \A columns : NewNames(e, s, columns) = [n \in DOMAIN columns |-> columns[n]]
    BY <1>5 DEF NewNames
<1>7. CASE e.pk = column
  <2>1. s.pk # << >>
        BY <1>4 DEF Needs
  <2>2. s.pk[1] = e.pk
    <3>1. NewNames(e, s, s.pk) = <<e.pk>>
          BY <1>3, <2>1 DEF Agrees
    <3>2. s.pk = [n \in DOMAIN s.pk |-> s.pk[n]]
          BY <1>3 DEF IsTable
    <3>3. QED
          BY <1>6, <3>1, <3>2
  <2>3. QED
        BY <1>2, <1>7, <2>1, <2>2 DEF s
<1>8. CASE \E i \in ToSet(e.indexes) : i.columns # << >> /\ i.columns[1] = column
  <2>1. PICK i \in ToSet(e.indexes) : i.columns # << >> /\ i.columns[1] = column
        BY <1>8
  <2>2. i.columns \in Seq(FieldNames(e))
        BY <1>1 DEF Accepted
  <2>3. 1 \in DOMAIN i.columns
        BY <2>1, <2>2, EmptySeq, LenProperties
  <2>4. Covered(e, s, i)
        BY <1>4 DEF Needs
  <2>5. PICK j \in s.indexes : NewNames(e, s, j.columns) = i.columns
    <3>1. PICK k \in Indexes(e, s) : k.columns = i.columns
          BY <2>4 DEF Covered
    <3>2. PICK j \in s.indexes : k = [j EXCEPT !.columns = NewNames(e, s, @)]
          BY <3>1 DEF Indexes
    <3>3. IsIndex(j)
          BY <1>3 DEF IsTable
    <3>4. k.columns = NewNames(e, s, j.columns)
          BY <3>2, <3>3 DEF IsIndex
    <3>5. QED
          BY <3>1, <3>4
  <2>6. 1 \in DOMAIN j.columns /\ j.columns[1] = column
        BY <1>6, <2>1, <2>3, <2>5
  <2>7. j.columns # << >>
        BY <2>6
  <2>8. QED
        BY <1>2, <2>6, <2>7 DEF s
<1>9. QED
    BY <1>7, <1>8 DEF Keyed

(* The first statement of what is left of a plan: MySQL takes it, or it    *)
(* renames a column that a CHECK names.                                    *)
LEMMA NextApplies ==
    ASSUME Holdable(want), NEW tables, Sound(tables), NEW st \in Universe,
           OpenAt(st, tables), \A o \in Due(tables) : o = st \/ After(st, o)
    PROVE  /\ st.kind # "create" => st.table \in DOMAIN tables
           /\ \/ Applies(st, tables)
              \/ /\ st.kind = "rename"
                 /\ \E c \in tables[st.table].checks : c.column = st.object.from
<1>0. PICK d \in ToSet(want) :
           \E kind, x : /\ st = Of(d, kind, x)
                        /\ OfKind(d, kind, x) \/ (kind = "create" /\ x = d)
    BY UniverseIs
<1>1. PICK kind, x : /\ st = Of(d, kind, x)
                     /\ OfKind(d, kind, x) \/ (kind = "create" /\ x = d)
    BY <1>0
<1>2. st.kind = kind /\ st.table = d.name /\ st.object = x
    BY <1>1 DEF Of
<1>3. Accepted(d)
    BY DefinitionsAre
<1>4. ASSUME kind \notin Columnar
      PROVE  d.name \in DOMAIN tables /\ FieldNames(d) \subseteq Columns(tables[d.name])
  <2>1. \A o \in Due(tables) :
            o.table = d.name => o.kind = kind \/ o.kind \notin Columnar
        BY <1>2, <1>4 DEF After
  <2>2. QED
        BY <1>4, <2>1, AllThere
<1>5. kind \in {"rename", "add"} => d.name \in DOMAIN tables
    BY <1>2 DEF OpenAt
<1>6. kind = "create" => d.name \notin DOMAIN tables
    BY <1>2 DEF OpenAt
<1>7. kind # "create" => d.name \in DOMAIN tables
    BY <1>4, <1>5 DEF Columnar
<1> DEFINE s == tables[d.name]
<1>8. kind # "create" => Open(s, kind, x)
    BY <1>2, <1>7 DEF OpenAt
<1>9. kind \notin Columnar => FieldNames(d) \subseteq Columns(s)
    BY <1>4
<1>10. kind # "create" => OfKind(d, kind, x)
    BY <1>1
<1>11. CASE kind = "fk"
  <2>1. x \in ToSet(d.fks) /\ x.column \in FieldNames(d)
        BY <1>3, <1>10, <1>11 DEF OfKind, Accepted
  <2>2. PICK e \in ToSet(want) : e.name = x.table /\ Keyed(e, x.target)
        BY <2>1 DEF Holdable
  <2>3. \A o \in Due(tables) : o.kind = "fk"
        BY <1>2, <1>11 DEF After
  <2>4. /\ x.table \in DOMAIN tables
        /\ LET target == tables[x.table]
           IN  \E key \in {target.pk} \cup {i.columns : i \in target.indexes} :
                  key # << >> /\ key[1] = x.target
        BY <2>2, <2>3, KeyThere
  <2>5. /\ x.column \in Columns(s) /\ \A k \in s.fks : k.name # x.name
        BY <1>8, <1>9, <1>11, <2>1 DEF Open, Columnar
  <2> HIDE DEF s
  <2>6. Applies(st, tables)
        BY <1>2, <1>11, <2>4, <2>5 DEF Applies, s
  <2>7. QED
        BY <1>2, <1>7, <2>6
<1>12. CASE kind = "index"
  <2>1. x \in ToSet(d.indexes) /\ x.columns \in Seq(FieldNames(d))
        BY <1>3, <1>10, <1>12 DEF OfKind, Accepted
  <2>2. ToSet(x.columns) \subseteq Columns(s)
        BY <1>9, <1>12, <2>1, Members DEF Columnar
  <2>3. \A i \in s.indexes : i.name # x.name
        BY <1>8, <1>12 DEF Open
  <2>4. QED
        BY <1>2, <1>7, <1>12, <2>2, <2>3 DEF Applies
<1>13. CASE kind = "check"
  <2>1. x \in ToSet(d.checks) /\ x.column \in FieldNames(d)
        BY <1>3, <1>10, <1>13 DEF OfKind, Accepted
  <2>2. x.column \in Columns(s) /\ \A c \in s.checks : c.name # x.name
        BY <1>8, <1>9, <1>13, <2>1 DEF Open, Columnar
  <2>3. QED
        BY <1>2, <1>7, <1>13, <2>2 DEF Applies
<1>14. CASE kind = "pk"
  <2>1. x.name = d.pk /\ d.pk \in FieldNames(d)
        BY <1>3, <1>10, <1>14 DEF OfKind, Primary, Accepted, FieldNames
  <2>2. s.pk = << >> /\ x.name \in Columns(s)
        BY <1>8, <1>9, <1>14, <2>1 DEF Open, Columnar
  <2>3. QED
        BY <1>2, <1>7, <1>14, <2>2 DEF Applies
<1>15. CASE kind = "modify"
  <2>1. x.name \in Columns(s)
        BY <1>9, <1>10, <1>15 DEF OfKind, Columnar, FieldNames
  <2>2. QED
        BY <1>2, <1>7, <1>15, <2>1 DEF Applies
<1>16. CASE kind = "add"
    BY <1>2, <1>7, <1>8, <1>16 DEF Applies, Open
<1>17. CASE kind = "rename"
    BY <1>2, <1>7, <1>8, <1>17 DEF Applies, Open
<1>18. CASE kind = "create"
    BY <1>2, <1>6, <1>18 DEF Applies
<1>19. QED
    BY <1>1, <1>11, <1>12, <1>13, <1>14, <1>15, <1>16, <1>17, <1>18 DEF OfKind

(* What MakePlan finds: definitions and tables that agree, and a plan of   *)
(* what is not there.                                                      *)
LEMMA NotRefused ==
    ASSUME Holdable(want), NEW tables, \A t \in DOMAIN tables : IsTable(tables[t]),
           ~Refused(tables)
    PROVE  /\ Sound(tables)
           /\ \A o \in Due(tables) : o \in Universe /\ OpenAt(o, tables)
<1>1. Sound(tables)
  <2>1. \A d \in ToSet(want) : d.name \in DOMAIN tables => ~Refuses(d, tables[d.name])
        BY DEF Refused
  <2>2. \A d, s : ~Refuses(d, s) => Agrees(d, s)
        BY DEF Refuses, Agrees
  <2>3. QED
        BY <2>1, <2>2 DEF Sound
<1>2. ASSUME NEW d, NEW s, IsTable(s), Agrees(d, s), NEW kind, NEW x, Needs(d, s, kind, x)
      PROVE  OfKind(d, kind, x) /\ kind # "create" /\ Open(s, kind, x)
  <2>1. OfKind(d, kind, x) /\ kind # "create"
        BY <1>2 DEF Needs, OfKind, Renames, Missing, Kept
  <2>2. ASSUME kind = "index", NEW i \in s.indexes, i.name = x.name PROVE FALSE
    <3>1. [i EXCEPT !.columns = NewNames(d, s, @)] \in Indexes(d, s)
          BY DEF Indexes
    <3>2. [i EXCEPT !.columns = NewNames(d, s, @)].name = x.name
          BY <1>2, <2>2 DEF IsTable, IsIndex
    <3>3. x \in ToSet(d.indexes) /\ ~Covered(d, s, x)
          BY <1>2, <2>2 DEF Needs
    <3>4. x \in Indexes(d, s)
          BY <1>2, <3>1, <3>2, <3>3 DEF Agrees
    <3>5. QED
          BY <3>3, <3>4 DEF Covered
  <2>3. ASSUME kind = "check", NEW c \in s.checks, c.name = x.name PROVE FALSE
        BY <1>2, <2>3 DEF Needs, Checked, Agrees
  <2>4. ASSUME kind = "fk", NEW k \in s.fks, k.name = x.name PROVE FALSE
        BY <1>2, <2>4 DEF Needs, Referenced, Agrees
  <2>5. QED
        BY <1>2, <2>1, <2>2, <2>3, <2>4 DEF Open, Needs, Renames, Missing
<1>3. ASSUME NEW o \in Due(tables) PROVE o \in Universe /\ OpenAt(o, tables)
  <2>1. PICK d \in ToSet(want) : \E kind, x : o = Of(d, kind, x) /\ Wanted(d, tables, kind, x)
        BY DueIs
  <2>2. PICK kind, x : o = Of(d, kind, x) /\ Wanted(d, tables, kind, x)
        BY <2>1
  <2>3. o.kind = kind /\ o.table = d.name /\ o.object = x
        BY <2>2 DEF Of
  <2>4. CASE d.name \in DOMAIN tables
    <3>1. Needs(d, tables[d.name], kind, x)
          BY <2>2, <2>4 DEF Wanted
    <3>2. IsTable(tables[d.name]) /\ Agrees(d, tables[d.name])
          BY <1>1, <2>4 DEF Sound
    <3>3. OfKind(d, kind, x) /\ kind # "create" /\ Open(tables[d.name], kind, x)
          BY <1>2, <3>1, <3>2
    <3>4. QED
          BY <2>2, <2>3, <2>4, <3>3, UniverseIs DEF OpenAt
  <2>5. CASE d.name \notin DOMAIN tables
    <3>1. kind \in {"create", "fk"} /\ (OfKind(d, kind, x) \/ (kind = "create" /\ x = d))
          BY <2>2, <2>5 DEF Wanted, OfKind
    <3>2. QED
          BY <2>2, <2>3, <2>5, <3>1, UniverseIs DEF OpenAt
  <2>6. QED
        BY <2>4, <2>5
<1>4. QED
    BY <1>1, <1>3

LEMMA NothingDue ==
    ASSUME Holdable(want), NEW tables, Sound(tables), Due(tables) = {}
    PROVE  ~Refused(tables) /\ FullPlan(tables) = << >>
<1>1. FullPlan(tables) = << >>
  <2>1. FullPlan(tables) \in Seq(Universe) /\ ToSet(FullPlan(tables)) = {}
        BY FullPlanIs
  <2>2. DOMAIN FullPlan(tables) = {}
        BY <2>1 DEF ToSet
  <2>3. QED
        BY <2>1, <2>2, EmptySeq, LenProperties
<1>2. ASSUME NEW d \in ToSet(want), d.name \in DOMAIN tables PROVE ~Refuses(d, tables[d.name])
  <2> DEFINE s == tables[d.name]
  <2>1. Agrees(d, s)
        BY <1>2 DEF Sound
  <2>2. Missing(d, s) = {}
    <3>1. ASSUME NEW f \in Missing(d, s) PROVE FALSE
      <4>1. Wanted(d, tables, "add", f)
            BY <1>2, <3>1 DEF Wanted, Needs
      <4>2. QED
            BY <4>1, DueIs
    <3>2. QED
          BY <3>1
  <2> HIDE DEF s
  <2>3. ~Refuses(d, s)
        BY <2>1, <2>2 DEF Refuses, Agrees
  <2>4. QED
        BY <2>3 DEF s
<1>3. QED
    BY <1>1, <1>2 DEF Refused

-----------------------------------------------------------------------------
(* The synchroniser, for every set of instances.                           *)
Working(i) == sync[i].pc \in {"plan", "scan", "ddl", "release"}
OneSynchroniser ==
    /\ holder = {i \in Instance : Working(i)}
    /\ \A i, j \in holder : i = j

(* A start's locals are a record, without a result while it is at work.    *)
Shaped(s) ==
    /\ s = [pc |-> s.pc, plan |-> s.plan, next |-> s.next, scans |-> s.scans,
            result |-> s.result, stale |-> s.stale]
    /\ s.result # None => s.pc \in {"release", "done"}
SyncInv ==
    /\ sync = [i \in Instance |-> sync[i]]
    /\ \A i \in Instance : Shaped(sync[i])
    /\ OneSynchroniser

(* What an instance's step makes of its locals, and of the lock.           *)
LEMMA OneMoves ==
    ASSUME SyncInv, NEW i \in Instance, NEW s, Shaped(s), sync' = [sync EXCEPT ![i] = s],
           \/ holder' = holder /\ (Working(i)' <=> Working(i))
           \/ holder = {} /\ holder' = {i} /\ Working(i)'
           \/ holder' = holder \ {i} /\ ~Working(i)'
    PROVE  SyncInv'
<1>1. sync'[i] = s /\ \A j \in Instance \ {i} : sync'[j] = sync[j]
    BY DEF SyncInv
<1>2. sync' = [j \in Instance |-> sync'[j]] /\ \A j \in Instance : Shaped(sync'[j])
    BY <1>1 DEF SyncInv
<1>3. \A j \in Instance \ {i} : Working(j)' <=> Working(j)
    BY <1>1 DEF Working
<1>4. holder' = {j \in Instance : Working(j)'}
    BY <1>3 DEF SyncInv, OneSynchroniser
<1>5. \A j, k \in holder' : j = k
    BY DEF SyncInv, OneSynchroniser
<1>6. QED
    BY <1>2, <1>4, <1>5 DEF SyncInv, OneSynchroniser

(* A start's locals as one record, and how the updates of it read.         *)
Locals(pc, plan, next, scans, result, stale) ==
    [pc |-> pc, plan |-> plan, next |-> next, scans |-> scans, result |-> result, stale |-> stale]
Ended(s, result) == [s EXCEPT !.pc = "release", !.result = result, !.scans = {}]
GivenUp(s) == [s EXCEPT !.pc = "done", !.result = "timeout"]
Scanning(s, plan, scans) == [s EXCEPT !.pc = "scan", !.plan = plan, !.scans = scans]

LEMMA LocalsUpdated ==
    ASSUME NEW pc, NEW plan, NEW next, NEW scans, NEW result, NEW stale, NEW s,
           s = Locals(pc, plan, next, scans, result, stale)
    PROVE  /\ \A r : Ended(s, r) = Locals("release", plan, next, {}, r, stale)
           /\ GivenUp(s) = Locals("done", plan, next, scans, "timeout", stale)
           /\ \A l, c : Scanning(s, l, c) = Locals("scan", l, next, c, result, stale)
<1>1. ASSUME NEW p PROVE [s EXCEPT !.pc = p] = Locals(p, plan, next, scans, result, stale)
    BY DEF Locals
<1>2. ASSUME NEW p, NEW r
      PROVE  [s EXCEPT !.pc = p, !.result = r] = Locals(p, plan, next, scans, r, stale)
  <2> DEFINE t == [s EXCEPT !.pc = p]
  <2>1. [s EXCEPT !.pc = p, !.result = r] = [t EXCEPT !.result = r]
        OBVIOUS
  <2>2. t = Locals(p, plan, next, scans, result, stale)
        BY <1>1
  <2> HIDE DEF t
  <2>3. QED
        BY <2>1, <2>2 DEF Locals
<1>3. ASSUME NEW r PROVE Ended(s, r) = Locals("release", plan, next, {}, r, stale)
  <2> DEFINE t == [s EXCEPT !.pc = "release", !.result = r]
  <2>1. t = Locals("release", plan, next, scans, r, stale)
        BY <1>2
  <2>2. Ended(s, r) = [t EXCEPT !.scans = {}]
        BY DEF Ended
  <2> HIDE DEF t
  <2>3. QED
        BY <2>1, <2>2 DEF Locals
<1>4. GivenUp(s) = Locals("done", plan, next, scans, "timeout", stale)
  <2> DEFINE t == [s EXCEPT !.pc = "done"]
  <2>1. t = Locals("done", plan, next, scans, result, stale)
        BY <1>1
  <2>2. GivenUp(s) = [t EXCEPT !.result = "timeout"]
        BY DEF GivenUp
  <2> HIDE DEF t
  <2>3. QED
        BY <2>1, <2>2 DEF Locals
<1>5. ASSUME NEW l, NEW c PROVE Scanning(s, l, c) = Locals("scan", l, next, c, result, stale)
  <2> DEFINE t == [s EXCEPT !.pc = "scan"]
             u == [t EXCEPT !.plan = l]
  <2>1. t = Locals("scan", plan, next, scans, result, stale)
        BY <1>1
  <2>2. Scanning(s, l, c) = [u EXCEPT !.scans = c]
        BY DEF Scanning
  <2> HIDE DEF t
  <2>3. u = Locals("scan", l, next, scans, result, stale)
        BY <2>1 DEF Locals
  <2> HIDE DEF u
  <2>4. QED
        BY <2>2, <2>3 DEF Locals
<1>6. QED
    BY <1>3, <1>4, <1>5

LEMMA HasLocals ==
    ASSUME SyncInv, NEW i \in Instance
    PROVE  sync[i] = Locals(sync[i].pc, sync[i].plan, sync[i].next,
                            sync[i].scans, sync[i].result, sync[i].stale)
BY DEF SyncInv, Shaped, Locals

(* The ways a step changes the locals of its instance.                     *)
LEMMA Went ==
    ASSUME SyncInv, NEW i \in Instance, NEW pc, GoTo(i, pc),
           sync[i].result # None => pc \in {"release", "done"},
           \/ holder' = holder /\ (pc \in {"plan", "scan", "ddl", "release"} <=> Working(i))
           \/ holder = {} /\ holder' = {i} /\ pc = "plan"
           \/ holder' = holder \ {i} /\ pc = "done"
    PROVE  SyncInv'
<1> DEFINE s == [sync[i] EXCEPT !.pc = pc]
<1>1. /\ s = [pc |-> pc, plan |-> sync[i].plan, next |-> sync[i].next,
              scans |-> sync[i].scans, result |-> sync[i].result, stale |-> sync[i].stale]
    BY DEF SyncInv, Shaped
<1>2. sync' = [sync EXCEPT ![i] = s]
    BY DEF GoTo
<1> HIDE DEF s
<1>3. Shaped(s) /\ s.pc = pc
    BY <1>1 DEF Shaped
<1>4. Working(i)' <=> pc \in {"plan", "scan", "ddl", "release"}
    BY <1>2, <1>3 DEF SyncInv, Working
<1>5. QED
    BY <1>2, <1>3, <1>4, OneMoves

LEMMA Gave ==
    ASSUME SyncInv, NEW i \in Instance, NEW result, Release(i, result),
           Working(i), holder' = holder
    PROVE  SyncInv'
<1> DEFINE s == Ended(sync[i], result)
<1>1. s = Locals("release", sync[i].plan, sync[i].next, {}, result, sync[i].stale)
    BY HasLocals, LocalsUpdated
<1>2. sync' = [sync EXCEPT ![i] = s]
    BY DEF Release, Ended
<1> HIDE DEF s
<1>3. Shaped(s) /\ s.pc = "release"
    BY <1>1 DEF Shaped, Locals
<1>4. Working(i)'
    BY <1>2, <1>3 DEF SyncInv, Working
<1>5. QED
    BY <1>2, <1>3, <1>4, OneMoves

LEMMA TimedOut ==
    ASSUME SyncInv, NEW i \in Instance, LockTimesOut(i)
    PROVE  SyncInv'
<1> DEFINE s == GivenUp(sync[i])
<1>1. s = Locals("done", sync[i].plan, sync[i].next, sync[i].scans, "timeout", sync[i].stale)
    BY HasLocals, LocalsUpdated
<1>2. sync' = [sync EXCEPT ![i] = s] /\ holder' = holder /\ ~Working(i)
    BY DEF LockTimesOut, Working, GivenUp
<1> HIDE DEF s
<1>3. Shaped(s) /\ s.pc = "done"
    BY <1>1 DEF Shaped, Locals
<1>4. ~Working(i)'
    BY <1>2, <1>3 DEF SyncInv, Working
<1>5. QED
    BY <1>2, <1>3, <1>4, OneMoves

LEMMA MadePlan ==
    ASSUME SyncInv, NEW i \in Instance, MakePlan(i)
    PROVE  SyncInv'
<1>1. Working(i) /\ holder' = holder /\ sync[i].result = None
    BY DEF MakePlan, Working, SyncInv, Shaped
<1>2. CASE Release(i, "refused")
    BY <1>1, <1>2, Gave
<1>3. CASE sync' = [sync EXCEPT ![i].pc = "scan", ![i].plan = FullPlan(db),
                                ![i].scans = AllScans(db)]
  <2> DEFINE plan == FullPlan(db)
             scans == AllScans(db)
             s == Scanning(sync[i], plan, scans)
  <2>1. s = Locals("scan", plan, sync[i].next, scans, sync[i].result, sync[i].stale)
    <3> HIDE DEF plan, scans
    <3> QED
          BY HasLocals, LocalsUpdated
  <2>2. sync' = [sync EXCEPT ![i] = s]
        BY <1>3 DEF Scanning
  <2> HIDE DEF s
  <2>3. Shaped(s) /\ s.pc = "scan"
        BY <1>1, <2>1 DEF Shaped, Locals
  <2>4. Working(i)'
        BY <2>2, <2>3 DEF SyncInv, Working
  <2>5. QED
        BY <1>1, <2>2, <2>3, <2>4, OneMoves
<1>4. QED
    BY <1>2, <1>3 DEF MakePlan

LEMMA Executed ==
    ASSUME SyncInv, NEW i \in Instance, Execute(i)
    PROVE  SyncInv'
<1> DEFINE s == [sync[i] EXCEPT !.next = @ + 1]
<1>1. sync[i].pc = "ddl" /\ holder' = holder /\ sync[i].result = None
    BY DEF Execute, Pending, SyncInv, Shaped
<1>2. s = [pc |-> "ddl", plan |-> sync[i].plan, next |-> sync[i].next + 1,
           scans |-> sync[i].scans, result |-> None, stale |-> sync[i].stale]
    BY <1>1 DEF SyncInv, Shaped
<1>3. sync' = [sync EXCEPT ![i] = s]
    BY DEF Execute
<1> HIDE DEF s
<1>4. Shaped(s) /\ s.pc = "ddl"
    BY <1>2 DEF Shaped
<1>5. Working(i)' /\ Working(i)
    BY <1>1, <1>3, <1>4 DEF SyncInv, Working
<1>6. QED
    BY <1>1, <1>3, <1>4, <1>5, OneMoves

LEMMA Restarted ==
    ASSUME SyncInv, NEW i \in Instance, Restart(i)
    PROVE  SyncInv'
<1>1. sync' = [sync EXCEPT ![i] = Idle] /\ holder' = holder \ {i}
    BY DEF Restart
<1>2. Shaped(Idle) /\ Idle.pc = "idle"
    BY DEF Idle, None, Shaped
<1>3. ~Working(i)'
    BY <1>1, <1>2 DEF SyncInv, Working
<1>4. QED
    BY <1>1, <1>2, <1>3, OneMoves

(* A write of the application moves no instance.                           *)
LEMMA OvertakenInv ==
    ASSUME SyncInv, Overtaken, holder' = holder
    PROVE  SyncInv'
<1> DEFINE flag(j) == sync[j].stale \/ sync[j].pc \in {"scan", "ddl"}
           s(j) == [sync[j] EXCEPT !.stale = flag(j)]
<1>1. sync' = [j \in Instance |-> s(j)]
    BY DEF Overtaken
<1>2. \A j \in Instance :
          s(j) = [pc |-> sync[j].pc, plan |-> sync[j].plan, next |-> sync[j].next,
                  scans |-> sync[j].scans, result |-> sync[j].result, stale |-> flag(j)]
  <2> HIDE DEF flag
  <2>1. QED
        BY DEF SyncInv, Shaped
<1> HIDE DEF s, flag
<1>3. \A j \in Instance : Shaped(s(j)) /\ s(j).pc = sync[j].pc
    BY <1>2 DEF SyncInv, Shaped
<1>4. \A j \in Instance : sync'[j] = s(j)
    BY <1>1
<1>5. sync' = [j \in Instance |-> sync'[j]] /\ \A j \in Instance : Shaped(sync'[j])
    BY <1>1, <1>3, <1>4
<1>6. OneSynchroniser'
    BY <1>3, <1>4 DEF SyncInv, OneSynchroniser, Working
<1>7. QED
    BY <1>5, <1>6 DEF SyncInv

LEMMA SyncNextInv == SyncInv /\ [SyncNext]_syncVars => SyncInv'
<1> SUFFICES ASSUME SyncInv, [SyncNext]_syncVars PROVE SyncInv'
    OBVIOUS
<1>1. ASSUME NEW i \in Instance, Start(i) PROVE SyncInv'
    BY <1>1, Went DEF Start, quiet, Working, SyncInv, Shaped
<1>2. ASSUME NEW i \in Instance, Step(i) PROVE SyncInv'
  <2>1. CASE GetLock(i)
        BY <2>1, Went DEF GetLock, LockFree, SyncInv, Shaped
  <2>2. CASE Preflight(i)
    <3>1. Working(i) /\ holder' = holder /\ sync[i].result = None
          BY <2>2 DEF Preflight, Working, SyncInv, Shaped
    <3>2. Release(i, "unreadable") \/ Release(i, "refused") \/ GoTo(i, "ddl")
          BY <2>2 DEF Preflight
    <3>3. QED
          BY <3>1, <3>2, Went, Gave
  <2>3. CASE Refusal(i)
        BY <2>3, Gave DEF Refusal, Pending, Working
  <2>4. CASE Fails(i)
        BY <2>4, Gave DEF Fails, Working
  <2>5. CASE Finish(i)
        BY <2>5, Gave DEF Finish, Pending, Working
  <2>6. CASE ReleaseLock(i)
        BY <2>6, Went DEF ReleaseLock
  <2>7. QED
        BY <1>2, <2>1, <2>2, <2>3, <2>4, <2>5, <2>6, TimedOut, MadePlan, Executed
        DEF Step
<1>3. CASE Application
  <2>1. Overtaken /\ holder' = holder
        BY <1>3 DEF Application, Insert, Write
  <2>2. QED
        BY <2>1, OvertakenInv
<1>4. CASE UNCHANGED syncVars
    BY <1>4 DEF syncVars, SyncInv, OneSynchroniser, Shaped, Working
<1>5. QED
    BY <1>1, <1>2, <1>3, <1>4, Restarted DEF SyncNext

LEMMA SyncInitInv == SyncInit => SyncInv
<1> SUFFICES ASSUME SyncInit PROVE SyncInv
    OBVIOUS
<1>1. sync = [i \in Instance |-> Idle] /\ holder = {}
    BY DEF SyncInit
<1>2. Shaped(Idle) /\ Idle.pc = "idle"
    BY DEF Idle, None, Shaped
<1>3. QED
    BY <1>1, <1>2 DEF SyncInv, OneSynchroniser, Working

(* The instance that plans, scans or runs statements holds the advisory    *)
(* lock, no other one does, and the lock outlives no start: whatever is    *)
(* refused, fails or times out and wherever a process dies                 *)
(* (sync_table_definitions).                                               *)
THEOREM OneSynchroniserAlways == SyncSpec => []OneSynchroniser
<1>1. SyncInv => OneSynchroniser
    BY DEF SyncInv
<1>2. QED
    BY SyncInitInv, SyncNextInv, <1>1, PTL DEF SyncSpec

(* A start's plan and its scans and statements, undisturbed by other ones. *)
PlanIsAlone ==
    [][\A i \in Instance : sync[i].pc \in {"scan", "ddl"} =>
          db' = db \/ Execute(i) \/ Application]_syncVars

(* From its plan to its last statement nothing but a start's own           *)
(* statements and the writes of the application touch the tables: what     *)
(* plan_locked read of the schema is not changed under it by another start *)
(* (sync_locked).                                                          *)
THEOREM PlansRunAlone == SyncSpec => PlanIsAlone
<1>1. ASSUME SyncInv, [SyncNext]_syncVars, NEW i \in Instance,
             sync[i].pc \in {"scan", "ddl"}
      PROVE  db' = db \/ Execute(i) \/ Application
  <2>1. ASSUME NEW j \in Instance, Execute(j) PROVE j = i
        BY <1>1, <2>1 DEF Execute, Pending, SyncInv, OneSynchroniser, Working
  <2>2. ASSUME NEW j \in Instance, Start(j) \/ Step(j) \/ Restart(j)
        PROVE  db' = db \/ Execute(j)
        BY <2>2 DEF Start, Step, Restart, GetLock,
                    LockTimesOut, MakePlan, Preflight, Refusal,
                    Fails, Finish, ReleaseLock
  <2>3. QED
        BY <1>1, <2>1, <2>2 DEF SyncNext, syncVars
<1>2. SyncInv /\ [SyncNext]_syncVars =>
        [\A i \in Instance : sync[i].pc \in {"scan", "ddl"} =>
            db' = db \/ Execute(i) \/ Application]_syncVars
    BY <1>1
<1>3. QED
    BY SyncInitInv, SyncNextInv, <1>2, PTL DEF SyncSpec, PlanIsAlone

-----------------------------------------------------------------------------
(* What is left of a plan: it is all that is due, in an order, and         *)
(* everything in it is still to be done.                                   *)
Remaining(s) == {s.plan[n] : n \in s.next .. Len(s.plan)}
Planned(s, tables) ==
    /\ s.plan \in Seq(Universe) /\ Lined(s.plan, Order)
    /\ s.next \in Nat /\ s.next >= 1
    /\ Due(tables) \subseteq Remaining(s)
    /\ \A o \in Remaining(s) : OpenAt(o, tables)
OnTrack(s, tables) ==
    /\ s.pc \in {"idle", "lock", "plan"} => s.next = 1
    /\ s.pc \in {"scan", "ddl"} => Sound(tables) /\ Planned(s, tables)
    /\ s.result = "ok" => Sound(tables) /\ Due(tables) = {}
PlanInv ==
    /\ SyncInv
    /\ Holdable(want)
    /\ \A t \in DOMAIN db : IsTable(db[t])
    /\ \A i \in Instance : OnTrack(sync[i], db)

(* The invariant after a step, by what the step leaves.                    *)
LEMMA PlanInvAfter ==
    ASSUME PlanInv, SyncInv', want' = want,
           \A t \in DOMAIN db' : IsTable(db'[t]),
           \A i \in Instance : OnTrack(sync'[i], db')
    PROVE  PlanInv'
<1>1. Holdable(want)'
    BY DEF PlanInv
<1>2. Universe' = Universe /\ Order' = Order
    BY DEF Universe, Order
<1>3. Due(db)' = Due(db')
    BY DEF Due
<1>4. Sound(db)' <=> Sound(db')
    BY DEF Sound
<1>5. \A i \in Instance : OnTrack(sync[i], db)' <=> OnTrack(sync'[i], db')
    BY <1>2, <1>3, <1>4 DEF OnTrack, Planned
<1>6. QED
    BY <1>1, <1>5 DEF PlanInv

LEMMA GoToIs ==
    ASSUME SyncInv, NEW i \in Instance, NEW pc, GoTo(i, pc)
    PROVE  /\ sync'[i].pc = pc /\ sync'[i].plan = sync[i].plan
           /\ sync'[i].next = sync[i].next /\ sync'[i].result = sync[i].result
           /\ \A j \in Instance \ {i} : sync'[j] = sync[j]
<1> DEFINE s == [sync[i] EXCEPT !.pc = pc]
<1>1. /\ s = [pc |-> pc, plan |-> sync[i].plan, next |-> sync[i].next,
              scans |-> sync[i].scans, result |-> sync[i].result, stale |-> sync[i].stale]
    BY DEF SyncInv, Shaped
<1>2. sync' = [sync EXCEPT ![i] = s]
    BY DEF GoTo
<1> HIDE DEF s
<1>3. sync'[i] = s /\ \A j \in Instance \ {i} : sync'[j] = sync[j]
    BY <1>2 DEF SyncInv
<1>4. QED
    BY <1>1, <1>3

LEMMA ReleaseIs ==
    ASSUME SyncInv, NEW i \in Instance, NEW result, Release(i, result)
    PROVE  /\ sync'[i].pc = "release" /\ sync'[i].result = result
           /\ \A j \in Instance \ {i} : sync'[j] = sync[j]
<1> DEFINE s == Ended(sync[i], result)
<1>1. s = Locals("release", sync[i].plan, sync[i].next, {}, result, sync[i].stale)
    BY HasLocals, LocalsUpdated
<1>2. sync' = [sync EXCEPT ![i] = s]
    BY DEF Release, Ended
<1> HIDE DEF s
<1>3. sync'[i] = s /\ \A j \in Instance \ {i} : sync'[j] = sync[j]
    BY <1>2 DEF SyncInv
<1>4. QED
    BY <1>1, <1>3 DEF Locals

(* A start that ends without success promises nothing about its plan.      *)
LEMMA OffTrack ==
    ASSUME PlanInv, NEW i \in Instance, NEW result, Release(i, result), result # "ok",
           db' = db
    PROVE  \A j \in Instance : OnTrack(sync'[j], db')
<1>1. /\ sync'[i].pc = "release" /\ sync'[i].result = result
      /\ \A j \in Instance \ {i} : sync'[j] = sync[j]
    BY ReleaseIs DEF PlanInv
<1>2. OnTrack(sync'[i], db')
    BY <1>1 DEF OnTrack
<1>3. QED
    BY <1>1, <1>2 DEF PlanInv

LEMMA MakePlanOnTrack ==
    ASSUME PlanInv, NEW i \in Instance, MakePlan(i)
    PROVE  \A j \in Instance : OnTrack(sync'[j], db')
<1>1. CASE Refused(db)
    BY <1>1, OffTrack DEF MakePlan
<1>2. CASE ~Refused(db)
  <2> DEFINE plan == FullPlan(db)
             scans == AllScans(db)
             s == Scanning(sync[i], plan, scans)
  <2>1. s = Locals("scan", plan, sync[i].next, scans, sync[i].result, sync[i].stale)
    <3> HIDE DEF plan, scans
    <3> QED
          BY HasLocals, LocalsUpdated DEF PlanInv
  <2>2. sync' = [sync EXCEPT ![i] = s] /\ db' = db
        BY <1>2 DEF MakePlan, Scanning
  <2>3. plan \in Seq(Universe) /\ ToSet(plan) = Due(db) /\ Lined(plan, Order)
        BY FullPlanIs DEF PlanInv
  <2> HIDE DEF s, plan
  <2>4. sync'[i] = s /\ \A j \in Instance \ {i} : sync'[j] = sync[j]
        BY <2>2 DEF PlanInv, SyncInv
  <2>5. s.pc = "scan" /\ s.plan = plan /\ s.next = 1 /\ s.result = None
    <3>1. sync[i].next = 1 /\ sync[i].result = None
          BY DEF PlanInv, OnTrack, SyncInv, Shaped, MakePlan
    <3>2. QED
          BY <2>1, <3>1 DEF Locals
  <2>6. Remaining(s) = Due(db)
        BY <2>3, <2>5, LenProperties DEF Remaining, ToSet
  <2>7. Sound(db) /\ \A o \in Due(db) : OpenAt(o, db)
        BY <1>2, NotRefused DEF PlanInv
  <2>8. Planned(s, db)
        BY <2>3, <2>5, <2>6, <2>7 DEF Planned
  <2>9. OnTrack(s, db)
        BY <2>5, <2>7, <2>8 DEF OnTrack, None
  <2>10. QED
        BY <2>2, <2>4, <2>9 DEF PlanInv
<1>3. QED
    BY <1>1, <1>2

(* The first of what is left of a plan, and the others after it.           *)
LEMMA FirstLeft ==
    ASSUME NEW s, NEW tables, Planned(s, tables), s.next <= Len(s.plan)
    PROVE  LET st == s.plan[s.next]
           IN  /\ st \in Universe /\ st \in Remaining(s) /\ OpenAt(st, tables)
               /\ \A o \in Due(tables) : o = st \/ After(st, o)
               /\ Remaining(s) \ {st} = {s.plan[n] : n \in s.next + 1 .. Len(s.plan)}
<1> DEFINE k == Len(s.plan)
           st == s.plan[s.next]
<1>1. /\ k \in Nat /\ DOMAIN s.plan = 1 .. k
      /\ \A n \in 1 .. k : s.plan[n] \in Universe
    BY LenProperties DEF Planned
<1>2. s.next \in 1 .. k /\ s.next .. k = {s.next} \cup (s.next + 1 .. k)
    BY <1>1 DEF Planned
<1>3. \A n \in s.next + 1 .. k : n \in 1 .. k /\ s.next < n
    BY <1>1, <1>2
<1>4. \A n \in s.next + 1 .. k : After(st, s.plan[n])
    BY <1>1, <1>2, <1>3 DEF Planned, Lined, Order
<1>5. \A n \in s.next + 1 .. k : s.plan[n] # st
    BY <1>4 DEF After
<1>6. st \in Remaining(s)
    BY <1>2 DEF Remaining
<1> HIDE DEF k
<1>7. \A o \in Remaining(s) : o = st \/ \E n \in s.next + 1 .. k : o = s.plan[n]
    BY <1>2 DEF Remaining, k
<1>8. \A n \in s.next + 1 .. k : s.plan[n] \in Remaining(s)
    BY <1>2 DEF Remaining, k
<1> HIDE DEF st
<1>9. Remaining(s) \ {st} = {s.plan[n] : n \in s.next + 1 .. k}
    BY <1>5, <1>7, <1>8
<1>10. \A o \in Due(tables) : o = st \/ After(st, o)
    BY <1>4, <1>7 DEF Planned
<1>11. st \in Universe
    BY <1>1, <1>2 DEF st
<1>12. QED
    BY <1>6, <1>9, <1>10, <1>11 DEF Planned, st, k

LEMMA ExecuteOnTrack ==
    ASSUME PlanInv, NEW i \in Instance, Execute(i)
    PROVE  /\ \A t \in DOMAIN db' : IsTable(db'[t])
           /\ \A j \in Instance : OnTrack(sync'[j], db')
<1> DEFINE s == sync[i]
           s2 == [s EXCEPT !.next = @ + 1]
           st == s.plan[s.next]
<1>1. /\ s.pc = "ddl" /\ s.next <= Len(s.plan)
      /\ Applies(st, db) /\ db' = Run(st, db)
    BY DEF Execute, Pending, Statement
<1>2. Sound(db) /\ Planned(s, db) /\ s.result = None /\ Holdable(want)
    BY <1>1 DEF PlanInv, OnTrack, SyncInv, Shaped
<1>3. /\ s2 = [pc |-> "ddl", plan |-> s.plan, next |-> s.next + 1,
               scans |-> s.scans, result |-> None, stale |-> s.stale]
    BY <1>1, <1>2 DEF PlanInv, SyncInv, Shaped
<1>4. sync' = [sync EXCEPT ![i] = s2]
    BY DEF Execute
<1> HIDE DEF s2
<1>5. sync'[i] = s2 /\ \A j \in Instance \ {i} : sync'[j] = sync[j]
    BY <1>4 DEF PlanInv, SyncInv
<1>6. s2.pc = "ddl" /\ s2.plan = s.plan /\ s2.next = s.next + 1 /\ s2.result = None
    BY <1>3
<1> HIDE DEF s, st
<1>7. /\ st \in Universe /\ st \in Remaining(s) /\ OpenAt(st, db)
      /\ \A o \in Due(db) : o = st \/ After(st, o)
      /\ Remaining(s2) = Remaining(s) \ {st}
  <2>1. /\ st \in Universe /\ st \in Remaining(s) /\ OpenAt(st, db)
        /\ \A o \in Due(db) : o = st \/ After(st, o)
        /\ Remaining(s) \ {st} = {s.plan[n] : n \in s.next + 1 .. Len(s.plan)}
        BY <1>1, <1>2, FirstLeft DEF st
  <2>2. Remaining(s2) = {s.plan[n] : n \in s.next + 1 .. Len(s.plan)}
        BY <1>6 DEF Remaining
  <2>3. QED
        BY <2>1, <2>2
<1>8. st.kind # "create" => st.table \in DOMAIN db
    BY <1>2, <1>7, NextApplies
<1>9. /\ Sound(db')
      /\ \A o \in Due(db') : o \in Due(db) /\ o # st
      /\ \A o \in Universe : OpenAt(o, db) /\ o # st => OpenAt(o, db')
    BY <1>1, <1>2, <1>7, <1>8, RunAdvances
<1>10. Remaining(s) \subseteq Universe
  <2>1. \A n \in s.next .. Len(s.plan) : n \in 1 .. Len(s.plan)
        BY <1>2 DEF Planned
  <2>2. \A n \in 1 .. Len(s.plan) : s.plan[n] \in Universe
        BY <1>2, LenProperties DEF Planned
  <2>3. QED
        BY <2>1, <2>2 DEF Remaining
<1>11. Planned(s2, db')
  <2>1. Due(db') \subseteq Remaining(s2)
        BY <1>2, <1>7, <1>9 DEF Planned
  <2>2. \A o \in Remaining(s2) : OpenAt(o, db')
        BY <1>2, <1>7, <1>9, <1>10 DEF Planned
  <2>3. s2.next \in Nat /\ s2.next >= 1
        BY <1>2, <1>6 DEF Planned
  <2>4. QED
        BY <1>2, <1>6, <2>1, <2>2, <2>3 DEF Planned
<1>12. OnTrack(s2, db')
    BY <1>6, <1>9, <1>11 DEF OnTrack, None
<1>13. ASSUME NEW j \in Instance \ {i} PROVE OnTrack(sync'[j], db')
  <2>1. sync[j].pc \notin {"idle", "lock", "plan"} \/ sync[j].next = 1
        BY DEF PlanInv, OnTrack
  <2>2. sync[j].pc \notin {"scan", "ddl"}
        BY <1>1, <1>13 DEF PlanInv, SyncInv, OneSynchroniser, Working, s
  <2>3. sync[j].result = "ok" => Due(db') = {}
        BY <1>9 DEF PlanInv, OnTrack
  <2>4. QED
        BY <1>5, <1>9, <2>1, <2>2, <2>3 DEF OnTrack
<1>14. QED
    BY <1>5, <1>9, <1>12, <1>13 DEF Sound

(* A step that changes where a start is, and not its plan.                 *)
LEMMA GoToOnTrack ==
    ASSUME PlanInv, NEW i \in Instance, NEW pc, GoTo(i, pc), db' = db,
           \/ sync[i].pc \in {"idle", "lock"} /\ pc \in {"lock", "plan"}
           \/ sync[i].pc \in {"scan", "ddl"} /\ pc = "ddl"
           \/ pc = "done"
    PROVE  \A j \in Instance : OnTrack(sync'[j], db')
<1>1. /\ sync'[i].pc = pc /\ sync'[i].plan = sync[i].plan
      /\ sync'[i].next = sync[i].next /\ sync'[i].result = sync[i].result
      /\ \A j \in Instance \ {i} : sync'[j] = sync[j]
    BY GoToIs DEF PlanInv
<1>2. Remaining(sync'[i]) = Remaining(sync[i])
    BY <1>1 DEF Remaining
<1>3. Planned(sync'[i], db) <=> Planned(sync[i], db)
    BY <1>1, <1>2 DEF Planned
<1>4. OnTrack(sync[i], db)
    BY DEF PlanInv
<1>5. OnTrack(sync'[i], db)
    BY <1>1, <1>3, <1>4 DEF OnTrack
<1>6. QED
    BY <1>1, <1>5 DEF PlanInv

LEMMA FinishOnTrack ==
    ASSUME PlanInv, NEW i \in Instance, Finish(i)
    PROVE  \A j \in Instance : OnTrack(sync'[j], db')
<1>1. /\ sync'[i].pc = "release" /\ sync'[i].result = "ok" /\ db' = db
      /\ \A j \in Instance \ {i} : sync'[j] = sync[j]
    BY ReleaseIs DEF PlanInv, Finish
<1>2. sync[i].pc = "ddl" /\ ~(sync[i].next <= Len(sync[i].plan))
    BY DEF Finish, Pending
<1>3. Sound(db) /\ Planned(sync[i], db)
    BY <1>2 DEF PlanInv, OnTrack
<1>4. sync[i].next .. Len(sync[i].plan) = {}
    BY <1>2, <1>3, LenProperties DEF Planned
<1>5. Due(db) = {}
    BY <1>3, <1>4 DEF Planned, Remaining
<1>6. OnTrack(sync'[i], db')
    BY <1>1, <1>3, <1>5 DEF OnTrack
<1>7. QED
    BY <1>1, <1>6 DEF PlanInv

LEMMA TimedOutOnTrack ==
    ASSUME PlanInv, NEW i \in Instance, LockTimesOut(i)
    PROVE  \A j \in Instance : OnTrack(sync'[j], db')
<1> DEFINE s == GivenUp(sync[i])
<1>1. s = Locals("done", sync[i].plan, sync[i].next, sync[i].scans, "timeout", sync[i].stale)
    BY HasLocals, LocalsUpdated DEF PlanInv
<1>2. sync' = [sync EXCEPT ![i] = s] /\ db' = db
    BY DEF LockTimesOut, GivenUp
<1> HIDE DEF s
<1>3. sync'[i] = s /\ \A j \in Instance \ {i} : sync'[j] = sync[j]
    BY <1>2 DEF PlanInv, SyncInv
<1>4. OnTrack(s, db)
    BY <1>1 DEF Locals, OnTrack
<1>5. QED
    BY <1>2, <1>3, <1>4 DEF PlanInv

LEMMA RestartOnTrack ==
    ASSUME PlanInv, NEW i \in Instance, Restart(i)
    PROVE  \A j \in Instance : OnTrack(sync'[j], db')
<1>1. sync' = [sync EXCEPT ![i] = Idle] /\ db' = db
    BY DEF Restart
<1>2. sync'[i] = Idle /\ \A j \in Instance \ {i} : sync'[j] = sync[j]
    BY <1>1 DEF PlanInv, SyncInv
<1>3. OnTrack(Idle, db)
    BY DEF Idle, None, OnTrack
<1>4. QED
    BY <1>1, <1>2, <1>3 DEF PlanInv

(* What the application writes changes nothing a plan is made from.        *)
Alike(s, s2) ==
    /\ s2.columns = s.columns /\ s2.pk = s.pk /\ s2.indexes = s.indexes
    /\ s2.checks = s.checks /\ s2.fks = s.fks
LEMMA RowsAlike ==
    ASSUME NEW s, IsTable(s), NEW rows
    PROVE  Alike(s, [s EXCEPT !.rows = rows]) /\ IsTable([s EXCEPT !.rows = rows])
<1> DEFINE s2 == [s EXCEPT !.rows = rows]
<1>1. s2 = [columns |-> s.columns, pk |-> s.pk, indexes |-> s.indexes,
            checks |-> s.checks, fks |-> s.fks, rows |-> rows]
    BY DEF IsTable
<1> HIDE DEF s2
<1>2. Alike(s, s2)
    BY <1>1 DEF Alike
<1>3. s2 = [columns |-> s2.columns, pk |-> s2.pk, indexes |-> s2.indexes,
            checks |-> s2.checks, fks |-> s2.fks, rows |-> s2.rows]
    BY <1>1
<1>4. IsTable(s2)
    BY <1>2, <1>3 DEF IsTable, Alike, Columns
<1>5. QED
    BY <1>2, <1>4 DEF s2

LEMMA TablesAlike ==
    ASSUME NEW tables, NEW other, DOMAIN other = DOMAIN tables,
           \A t \in DOMAIN tables :
              IsTable(tables[t]) /\ IsTable(other[t]) /\ Alike(tables[t], other[t])
    PROVE  /\ Sound(other) <=> Sound(tables)
           /\ Due(other) = Due(tables)
           /\ \A o : OpenAt(o, other) <=> OpenAt(o, tables)
<1>1. ASSUME NEW d, NEW t \in DOMAIN tables
      PROVE  /\ Agrees(d, other[t]) <=> Agrees(d, tables[t])
             /\ \A k, y : Needs(d, other[t], k, y) <=> Needs(d, tables[t], k, y)
             /\ \A k, y : Open(other[t], k, y) <=> Open(tables[t], k, y)
    BY SameTable DEF Alike
<1>2. Sound(other) <=> Sound(tables)
    BY <1>1 DEF Sound
<1>3. \A d, k, y : Wanted(d, other, k, y) <=> Wanted(d, tables, k, y)
    BY <1>1 DEF Wanted
<1>4. \A o : o \in Due(other) <=> o \in Due(tables)
    BY <1>3, DueIs
<1>5. Due(other) = Due(tables)
    BY <1>4
<1>6. \A o : OpenAt(o, other) <=> OpenAt(o, tables)
    BY <1>1 DEF OpenAt
<1>7. QED
    BY <1>2, <1>5, <1>6

LEMMA ApplicationOnTrack ==
    ASSUME PlanInv, Application
    PROVE  /\ \A t \in DOMAIN db' : IsTable(db'[t])
           /\ \A j \in Instance : OnTrack(sync'[j], db')
<1>1. PICK t \in DOMAIN db : \E rows : db' = [db EXCEPT ![t] = [db[t] EXCEPT !.rows = rows]]
  <2>1. PICK t \in DOMAIN db :
            \/ Insert(t)
            \/ \E r \in DOMAIN db[t].rows, c \in Columns(db[t]),
                  v \in {Null, "1", "2", "a", "b", "long"} : Write(t, r, c, v)
        BY DEF Application
  <2>2. \E rows : db' = [db EXCEPT ![t] = [db[t] EXCEPT !.rows = rows]]
    <3>1. CASE Insert(t)
          BY <3>1 DEF Insert
    <3>2. CASE ~Insert(t)
      <4>1. PICK r \in DOMAIN db[t].rows : \E c, v : Write(t, r, c, v)
            BY <2>1, <3>2
      <4>2. PICK c, v : Write(t, r, c, v)
            BY <4>1
      <4> DEFINE rows == [db[t].rows EXCEPT ![r] = [db[t].rows[r] EXCEPT ![c] = v]]
      <4>3. db' = [db EXCEPT ![t] = [db[t] EXCEPT !.rows = rows]]
            BY <4>2 DEF Write
      <4>4. QED
            BY <4>3
    <3>3. QED
          BY <3>1, <3>2
  <2>3. QED
        BY <2>2
<1>2. PICK rows : db' = [db EXCEPT ![t] = [db[t] EXCEPT !.rows = rows]]
    BY <1>1
<1> DEFINE s2 == [db[t] EXCEPT !.rows = rows]
<1>3. IsTable(s2) /\ Alike(db[t], s2)
    BY RowsAlike DEF PlanInv
<1>4. db' = [db EXCEPT ![t] = s2]
    BY <1>2
<1> HIDE DEF s2
<1>5. /\ DOMAIN db' = DOMAIN db
      /\ \A u \in DOMAIN db : IsTable(db[u]) /\ IsTable(db'[u]) /\ Alike(db[u], db'[u])
  <2>1. DOMAIN db' = DOMAIN db /\ \A u \in DOMAIN db : db'[u] = IF u = t THEN s2 ELSE db[u]
        BY <1>4
  <2>2. \A u \in DOMAIN db : IsTable(db[u]) /\ Alike(db[u], db[u])
        BY DEF PlanInv, Alike
  <2>3. QED
        BY <1>3, <2>1, <2>2
<1>6. /\ Sound(db') <=> Sound(db)
      /\ Due(db') = Due(db)
      /\ \A o : OpenAt(o, db') <=> OpenAt(o, db)
    BY <1>5, TablesAlike
<1>7. ASSUME NEW j \in Instance PROVE OnTrack(sync'[j], db')
  <2> DEFINE flag == sync[j].stale \/ sync[j].pc \in {"scan", "ddl"}
             s == [sync[j] EXCEPT !.stale = flag]
  <2>1. sync'[j] = s
        BY DEF Application, Insert, Write, Overtaken
  <2>2. s = [pc |-> sync[j].pc, plan |-> sync[j].plan, next |-> sync[j].next,
             scans |-> sync[j].scans, result |-> sync[j].result, stale |-> flag]
    <3> HIDE DEF flag
    <3>1. QED
          BY DEF PlanInv, SyncInv, Shaped
  <2> HIDE DEF s, flag
  <2>3. s.pc = sync[j].pc /\ s.plan = sync[j].plan /\ s.next = sync[j].next
        /\ s.result = sync[j].result
        BY <2>2
  <2>4. Planned(s, db') <=> Planned(sync[j], db)
        BY <1>6, <2>3 DEF Planned, Remaining
  <2>5. OnTrack(sync[j], db)
        BY DEF PlanInv
  <2>6. QED
        BY <1>6, <2>1, <2>3, <2>4, <2>5 DEF OnTrack
<1>8. QED
    BY <1>5, <1>7

LEMMA PlanInvNext == PlanInv /\ [SyncNext]_syncVars => PlanInv'
<1> SUFFICES ASSUME PlanInv, [SyncNext]_syncVars PROVE PlanInv'
    OBVIOUS
<1>1. SyncInv'
    BY SyncNextInv DEF PlanInv
<1>2. ASSUME NEW i \in Instance, Start(i)
      PROVE  want' = want /\ db' = db /\ \A j \in Instance : OnTrack(sync'[j], db')
    BY <1>2, GoToOnTrack DEF Start, quiet
<1>3. ASSUME NEW i \in Instance, Restart(i)
      PROVE  want' = want /\ db' = db /\ \A j \in Instance : OnTrack(sync'[j], db')
    BY <1>3, RestartOnTrack DEF Restart
<1>4. ASSUME NEW i \in Instance, Step(i)
      PROVE  /\ want' = want /\ \A t \in DOMAIN db' : IsTable(db'[t])
             /\ \A j \in Instance : OnTrack(sync'[j], db')
  <2>0. \A t \in DOMAIN db : IsTable(db[t])
        BY DEF PlanInv
  <2>1. CASE GetLock(i)
        BY <2>0, <2>1, GoToOnTrack DEF GetLock, quiet
  <2>2. CASE LockTimesOut(i)
        BY <2>0, <2>2, TimedOutOnTrack DEF LockTimesOut, quiet
  <2>3. CASE MakePlan(i)
        BY <2>0, <2>3, MakePlanOnTrack DEF MakePlan, quiet
  <2>4. CASE Preflight(i)
    <3>1. want' = want /\ db' = db /\ sync[i].pc = "scan"
          BY <2>4 DEF Preflight, quiet
    <3>2. Release(i, "unreadable") \/ Release(i, "refused") \/ GoTo(i, "ddl")
          BY <2>4 DEF Preflight
    <3>3. QED
          BY <2>0, <3>1, <3>2, OffTrack, GoToOnTrack
  <2>5. CASE Execute(i)
        BY <2>5, ExecuteOnTrack DEF Execute, quiet
  <2>6. CASE Refusal(i)
        BY <2>0, <2>6, OffTrack DEF Refusal, quiet
  <2>7. CASE Fails(i)
        BY <2>0, <2>7, OffTrack DEF Fails
  <2>8. CASE Finish(i)
        BY <2>0, <2>8, FinishOnTrack DEF Finish, quiet
  <2>9. CASE ReleaseLock(i)
        BY <2>0, <2>9, GoToOnTrack DEF ReleaseLock, quiet
  <2>10. QED
        BY <1>4, <2>1, <2>2, <2>3, <2>4, <2>5, <2>6, <2>7, <2>8, <2>9 DEF Step
<1>5. CASE Application
  <2>1. want' = want
        BY <1>5 DEF Application, Insert, Write
  <2>2. QED
        BY <1>1, <1>5, <2>1, ApplicationOnTrack, PlanInvAfter
<1>6. CASE UNCHANGED syncVars
  <2>1. want' = want /\ db' = db /\ sync' = sync
        BY <1>6 DEF syncVars
  <2>2. QED
        BY <1>1, <2>1, PlanInvAfter DEF PlanInv
<1>7. CASE \E i \in Instance : Start(i) \/ Step(i) \/ Restart(i)
  <2>1. /\ want' = want /\ \A t \in DOMAIN db' : IsTable(db'[t])
        /\ \A j \in Instance : OnTrack(sync'[j], db')
        BY <1>2, <1>3, <1>4, <1>7 DEF PlanInv
  <2>2. QED
        BY <1>1, <2>1, PlanInvAfter
<1>8. QED
    BY <1>5, <1>6, <1>7 DEF SyncNext

LEMMA PlanInvInit == SyncInit => PlanInv
<1> SUFFICES ASSUME SyncInit PROVE PlanInv
    OBVIOUS
<1>1. Holdable(want) /\ \A t \in DOMAIN db : IsTable(db[t])
    BY ScenarioAssumption DEF SyncInit, Linked
<1>2. \A i \in Instance : sync[i] = Idle
    BY DEF SyncInit
<1>3. OnTrack(Idle, db)
    BY DEF Idle, None, OnTrack
<1>4. QED
    BY <1>1, <1>2, <1>3, SyncInitInv DEF PlanInv

LEMMA PlanInvAlways == SyncSpec => []PlanInv
BY PlanInvInit, PlanInvNext, PTL DEF SyncSpec

(* However far sync_locked got with its plan, a plan made of what          *)
(* information_schema shows now holds nothing but what is left of it; and  *)
(* where a start reported success there is nothing to plan and nothing to  *)
(* refuse, whatever other starts, deaths and writes came after             *)
(* (plan_table_sync, sync_table_definitions).                              *)
THEOREM RestIsPlannedAgain == SyncSpec => []ReplanIsTheRest
<1>1. PlanInv => ReplanIsTheRest
  <2> SUFFICES ASSUME PlanInv, NEW i \in Instance
               PROVE  /\ sync[i].pc = "ddl" /\ ~Refused(db)
                            => ToSet(FullPlan(db)) \subseteq ToSet(Rest(i))
                      /\ sync[i].result = "ok" => ~Refused(db) /\ FullPlan(db) = << >>
        BY DEF ReplanIsTheRest
  <2>1. ASSUME sync[i].pc = "ddl" PROVE ToSet(FullPlan(db)) \subseteq ToSet(Rest(i))
    <3> DEFINE s == sync[i]
               k == Len(s.plan)
    <3>1. Planned(s, db)
          BY <2>1 DEF PlanInv, OnTrack
    <3>2. ToSet(FullPlan(db)) \subseteq Remaining(s)
          BY <3>1, FullPlanIs DEF PlanInv, Planned
    <3>3. /\ s.plan \in Seq(Universe) /\ k \in Nat /\ DOMAIN s.plan = 1 .. k
          /\ s.next \in Nat /\ s.next >= 1
          BY <3>1, LenProperties DEF Planned
    <3>4. Rest(i) = SubSeq(s.plan, s.next, k)
          BY DEF Rest
    <3> HIDE DEF s, k
    <3>5. ASSUME NEW n \in s.next .. k PROVE s.plan[n] \in ToSet(Rest(i))
      <4>1. n - s.next + 1 \in 1 .. k - s.next + 1 /\ s.next + (n - s.next + 1) - 1 = n
            BY <3>3
      <4>2. /\ DOMAIN Rest(i) = 1 .. k - s.next + 1
            /\ Rest(i)[n - s.next + 1] = s.plan[s.next + (n - s.next + 1) - 1]
            BY <3>3, <3>4, <4>1
      <4>3. QED
            BY <4>1, <4>2 DEF ToSet
    <3>6. QED
          BY <3>2, <3>5 DEF Remaining, k
  <2>2. ASSUME sync[i].result = "ok" PROVE ~Refused(db) /\ FullPlan(db) = << >>
        BY <2>2, NothingDue DEF PlanInv, OnTrack
  <2>3. QED
        BY <2>1, <2>2
<1>2. QED
    BY <1>1, PlanInvAlways, PTL

(* Every statement of a plan still applies when its turn comes: its table, *)
(* columns and keys are there, and its own column, index or constraint is  *)
(* not (plan_table_sync's order of statements, and GET_LOCK around them).  *)
THEOREM EveryStatementStillNeeded == SyncSpec => []NextStillNeeded
<1>1. PlanInv => NextStillNeeded
  <2> SUFFICES ASSUME PlanInv, NEW i \in Instance, Pending(i)
               PROVE  \/ Applies(Statement(i), db)
                      \/ /\ Statement(i).kind = "rename"
                         /\ \E c \in db[Statement(i).table].checks :
                               c.column = Statement(i).object.from
        BY DEF NextStillNeeded
  <2> DEFINE s == sync[i]
             st == s.plan[s.next]
  <2>1. s.pc = "ddl" /\ s.next <= Len(s.plan) /\ Statement(i) = st
        BY DEF Pending, Statement
  <2>2. Sound(db) /\ Planned(s, db) /\ Holdable(want)
        BY <2>1 DEF PlanInv, OnTrack
  <2> HIDE DEF s
  <2>3. st \in Universe /\ OpenAt(st, db) /\ \A o \in Due(db) : o = st \/ After(st, o)
        BY <2>1, <2>2, FirstLeft
  <2> HIDE DEF st
  <2>4. QED
        BY <2>1, <2>2, <2>3, NextApplies
<1>2. QED
    BY <1>1, PlanInvAlways, PTL

-----------------------------------------------------------------------------
(* The data.  A row's cell in a column of the definition, which may still  *)
(* have its old name, and what the rows must be like for a statement that  *)
(* is left in a plan.                                                      *)
Present(d, s, c) == OldName(d, s, c) \in Columns(s)
Cell(d, s, r, c) == s.rows[r][OldName(d, s, c)]
Wider(d, s, f) == Column(d, s, f).type # f.type /\ Compatible(f.type, Column(d, s, f).type)

Suits(d, s, kind, x) ==
    /\ kind = "add" => DOMAIN s.rows = {} \/ ~x.required \/ x.default # None
    /\ kind = "modify" =>
          /\ Present(d, s, x.name)
          /\ \/ Wider(d, s, x)
             \/ \A r \in DOMAIN s.rows : Fits(Cell(d, s, r, x.name), ColumnOf(x))
    /\ kind = "index" /\ x.unique =>
          /\ \A c \in ToSet(x.columns) : Present(d, s, c)
          /\ Duplicated(s.rows, OldNames(d, s, x.columns)) = {}
    /\ kind = "check" =>
          /\ Present(d, s, x.column)
          /\ \A r \in DOMAIN s.rows : Cell(d, s, r, x.column) # x.bad
Leads(d, tables, f) ==
    LET s == tables[d.name]
    IN  \/ DOMAIN s.rows = {}
        \/ /\ Present(d, s, f.column)
           /\ f.table \in DOMAIN tables /\ f.target \in Columns(tables[f.table])
           /\ Dangling(tables, d.name, OldName(d, s, f.column), f) = {}

Adding(plan, table) ==
    {st.object.name : st \in {o \in ToSet(plan) : o.kind = "add" /\ o.table = table}}
Unscanned(plan, st) ==
    st.kind = "index" /\ ToSet(st.object.columns) \subseteq Adding(plan, st.table)
Clear(st, tables) ==
    \A d \in ToSet(want) : d.name = st.table /\ d.name \in DOMAIN tables =>
       /\ Suits(d, tables[d.name], st.kind, st.object)
       /\ st.kind = "fk" => Leads(d, tables, st.object)

(* While the application has not written: what is scanned is what was      *)
(* planned, and after the scans the rows are fit for all that is left.     *)
Undisturbed(s, tables) == ~s.stale =>
    /\ s.pc = "scan" => /\ s.plan = FullPlan(tables) /\ s.scans = AllScans(tables)
                        /\ ~Refused(tables)
    /\ s.pc = "ddl" =>
          \A o \in Remaining(s) : Unscanned(s.plan, o) \/ Clear(o, tables)
Lawful(tables) == Legal(tables) /\ Linked(tables) /\ Unreferenced(want, tables)
DataInv == PlanInv /\ Lawful(db) /\ \A i \in Instance : Undisturbed(sync[i], db)

(* What a statement does to a table, said for all kinds alike: a renamed   *)
(* column goes by its new name, in the rows, the keys and the constraints. *)
Moved(kind, x, c) == IF kind = "rename" /\ c = x.from THEN x.name ELSE c
Follows(kind, x, columns, columns2) ==
    /\ DOMAIN columns2 = DOMAIN columns
    /\ \A n \in DOMAIN columns : columns2[n] = Moved(kind, x, columns[n])
Reshapes(kind, x, s, s2) ==
    /\ \A b \in Columns(s2) :
          (kind = "add" /\ b = x.name) \/ \E c \in Columns(s) : b = Moved(kind, x, c)
    /\ kind = "add" => x.name \in Columns(s2) /\ s2.columns[x.name] = ColumnOf(x)
    /\ \A c \in Columns(s) :
          /\ Moved(kind, x, c) \in Columns(s2)
          /\ \/ kind = "modify" /\ c = x.name /\ s2.columns[c] = ColumnOf(x)
             \/ /\ s2.columns[Moved(kind, x, c)].type = s.columns[c].type
                /\ \/ kind = "pk"
                   \/ s2.columns[Moved(kind, x, c)].nullable = s.columns[c].nullable
Fills(kind, x, s, s2) ==
    /\ DOMAIN s2.rows = DOMAIN s.rows
    /\ \A r \in DOMAIN s.rows :
          /\ DOMAIN s2.rows[r] = Columns(s2)
          /\ \A c \in Columns(s) : s2.rows[r][Moved(kind, x, c)] = s.rows[r][c]
          /\ kind = "add" => s2.rows[r][x.name] = Filled(x)
Binds(kind, x, s, s2) ==
    /\ kind # "pk" => Follows(kind, x, s.pk, s2.pk)
    /\ \A j \in s2.indexes :
          \/ kind = "index" /\ j = x
          \/ \E i \in s.indexes : j.unique = i.unique /\ Follows(kind, x, i.columns, j.columns)
    /\ \A c \in s2.checks : (kind = "check" /\ c = x) \/ c \in s.checks
    /\ \A k \in s2.fks :
          \/ kind = "fk" /\ k = x
          \/ \E j \in s.fks : /\ k.column = Moved(kind, x, j.column)
                              /\ k.table = j.table /\ k.target = j.target
Becomes(kind, x, s, s2) ==
    Reshapes(kind, x, s, s2) /\ Fills(kind, x, s, s2) /\ Binds(kind, x, s, s2)
Rowed(s) == \A r \in DOMAIN s.rows : DOMAIN s.rows[r] = Columns(s)

LEMMA StaysPut ==
    ASSUME NEW kind, kind # "rename", NEW x
    PROVE  /\ \A c : Moved(kind, x, c) = c
           /\ \A columns : Follows(kind, x, columns, columns)
BY DEF Moved, Follows

(* Where only what the kind is about changes.                              *)
LEMMA StillBecomes ==
    ASSUME NEW kind \in {"modify", "pk", "index", "check", "fk"}, NEW x,
           NEW s, Rowed(s), NEW s2, s2.rows = s.rows, Columns(s2) = Columns(s),
           \A c \in Columns(s) :
              \/ kind = "modify" /\ c = x.name /\ s2.columns[c] = ColumnOf(x)
              \/ /\ s2.columns[c].type = s.columns[c].type
                 /\ kind = "pk" \/ s2.columns[c].nullable = s.columns[c].nullable,
           kind # "pk" => s2.pk = s.pk,
           \A j \in s2.indexes : (kind = "index" /\ j = x) \/ j \in s.indexes,
           \A c \in s2.checks : (kind = "check" /\ c = x) \/ c \in s.checks,
           \A k \in s2.fks : (kind = "fk" /\ k = x) \/ k \in s.fks
    PROVE  Becomes(kind, x, s, s2)
<1>1. \A c : Moved(kind, x, c) = c
    BY StaysPut
<1>2. \A columns : Follows(kind, x, columns, columns)
    BY StaysPut
<1>3. Reshapes(kind, x, s, s2)
    BY <1>1 DEF Reshapes
<1>4. Fills(kind, x, s, s2)
    BY <1>1 DEF Fills, Rowed
<1>5. Binds(kind, x, s, s2)
    BY <1>1, <1>2 DEF Binds
<1>6. QED
    BY <1>3, <1>4, <1>5 DEF Becomes

LEMMA AddBecomes ==
    ASSUME NEW s, IsTable(s), Rowed(s), NEW x, x.name \notin Columns(s)
    PROVE  Becomes("add", x, s, Altered(s, "add", x))
<1> DEFINE s2 == Altered(s, "add", x)
           c2 == With(s.columns, x.name, ColumnOf(x))
           r2 == [r \in DOMAIN s.rows |-> With(s.rows[r], x.name, Filled(x))]
<1>1. s2 = [columns |-> c2, pk |-> s.pk, indexes |-> s.indexes,
            checks |-> s.checks, fks |-> s.fks, rows |-> r2]
  <2>1. s2 = [s EXCEPT !.columns = c2, !.rows = r2]
        BY DEF Altered
  <2> HIDE DEF s2, c2, r2
  <2>2. QED
        BY <2>1 DEF IsTable
<1>2. /\ DOMAIN c2 = Columns(s) \cup {x.name} /\ c2[x.name] = ColumnOf(x)
      /\ \A c \in Columns(s) : c2[c] = s.columns[c]
    BY DEF Columns, With
<1>3. /\ DOMAIN r2 = DOMAIN s.rows
      /\ \A r \in DOMAIN s.rows :
            /\ DOMAIN r2[r] = Columns(s) \cup {x.name} /\ r2[r][x.name] = Filled(x)
            /\ \A c \in Columns(s) : r2[r][c] = s.rows[r][c]
    BY DEF With, Rowed
<1> HIDE DEF c2, r2
<1>4. /\ s2.columns = c2 /\ s2.rows = r2 /\ s2.pk = s.pk /\ s2.indexes = s.indexes
      /\ s2.checks = s.checks /\ s2.fks = s.fks
    BY <1>1
<1> HIDE DEF s2
<1>5. Columns(s2) = Columns(s) \cup {x.name}
    BY <1>2, <1>4 DEF Columns
<1>0. \A c : Moved("add", x, c) = c
    BY StaysPut
<1>6. Reshapes("add", x, s, s2)
  <2>1. \A c \in Columns(s) : s2.columns[c] = s.columns[c]
        BY <1>2, <1>4
  <2>2. s2.columns[x.name] = ColumnOf(x)
        BY <1>2, <1>4
  <2>3. QED
        BY <1>0, <1>5, <2>1, <2>2 DEF Reshapes
<1>7. Fills("add", x, s, s2)
    BY <1>0, <1>3, <1>4, <1>5 DEF Fills
<1>8. Binds("add", x, s, s2)
  <2>1. \A columns : Follows("add", x, columns, columns)
        BY StaysPut
  <2>2. QED
        BY <1>0, <1>4, <2>1 DEF Binds
<1>9. QED
    BY <1>6, <1>7, <1>8 DEF Becomes, s2

LEMMA RenameBecomes ==
    ASSUME NEW s, IsTable(s), Rowed(s),
           NEW x, x.name \notin Columns(s), x.from \in Columns(s)
    PROVE  Becomes("rename", x, s, Altered(s, "rename", x))
<1> DEFINE s2 == Altered(s, "rename", x)
           c2 == Renamed(s.columns, x)
           r2 == [r \in DOMAIN s.rows |-> Renamed(s.rows[r], x)]
           Swapped(columns) == [n \in DOMAIN columns |-> Swap(columns[n], x)]
           p2 == Swapped(s.pk)
           i2 == {[i EXCEPT !.columns = Swapped(@)] : i \in s.indexes}
           k2 == {[k EXCEPT !.column = Swap(@, x)] : k \in s.fks}
           M(c) == Moved("rename", x, c)
<1>1. s2 = [columns |-> c2, pk |-> p2, indexes |-> i2,
            checks |-> s.checks, fks |-> k2, rows |-> r2]
  <2>1. s2 = [s EXCEPT !.columns = c2, !.rows = r2, !.pk = p2, !.indexes = i2, !.fks = k2]
        BY DEF Altered
  <2> HIDE DEF s2, c2, r2, i2, k2, p2
  <2>2. QED
        BY <2>1 DEF IsTable
<1>2. \A c : Swap(c, x) = M(c)
    BY DEF Swap, Moved
<1>3. ASSUME NEW g, DOMAIN g = Columns(s)
      PROVE  /\ \A b \in DOMAIN Renamed(g, x) : \E c \in Columns(s) : b = M(c)
             /\ \A c \in Columns(s) : M(c) \in DOMAIN Renamed(g, x) /\ Renamed(g, x)[M(c)] = g[c]
  <2>1. DOMAIN Renamed(g, x) = {Swap(c, x) : c \in Columns(s)}
        BY <1>3 DEF Renamed
  <2>2. ASSUME NEW c \in Columns(s) PROVE Renamed(g, x)[Swap(c, x)] = g[c]
    <3>1. Renamed(g, x)[Swap(c, x)] = g[IF Swap(c, x) = x.name THEN x.from ELSE Swap(c, x)]
          BY <1>3 DEF Renamed
    <3>2. QED
          BY <3>1 DEF Swap
  <2> HIDE DEF M
  <2>3. QED
        BY <1>2, <2>1, <2>2
<1>4. /\ \A b \in DOMAIN c2 : \E c \in Columns(s) : b = M(c)
      /\ \A c \in Columns(s) : M(c) \in DOMAIN c2 /\ c2[M(c)] = s.columns[c]
    BY <1>3 DEF Columns
<1>5. /\ DOMAIN r2 = DOMAIN s.rows
      /\ \A r \in DOMAIN s.rows :
            /\ DOMAIN r2[r] = DOMAIN c2
            /\ \A c \in Columns(s) : r2[r][M(c)] = s.rows[r][c]
  <2>1. DOMAIN r2 = DOMAIN s.rows /\ \A r \in DOMAIN s.rows : r2[r] = Renamed(s.rows[r], x)
        OBVIOUS
  <2>2. \A r \in DOMAIN s.rows : DOMAIN Renamed(s.rows[r], x) = DOMAIN Renamed(s.columns, x)
        BY DEF Renamed, Rowed, Columns
  <2>3. \A r \in DOMAIN s.rows : \A c \in Columns(s) : Renamed(s.rows[r], x)[M(c)] = s.rows[r][c]
        BY <1>3 DEF Rowed
  <2> HIDE DEF r2, M
  <2>4. QED
        BY <2>1, <2>2, <2>3
<1>6. \A columns : Follows("rename", x, columns, Swapped(columns))
    BY <1>2 DEF Follows
<1> HIDE DEF Swapped
<1>7. \A j \in i2 : \E i \in s.indexes :
          j.unique = i.unique /\ Follows("rename", x, i.columns, j.columns)
  <2> SUFFICES ASSUME NEW j \in i2
               PROVE  \E i \in s.indexes :
                          j.unique = i.unique /\ Follows("rename", x, i.columns, j.columns)
        OBVIOUS
  <2>1. PICK i \in s.indexes : j = [i EXCEPT !.columns = Swapped(@)]
        BY DEF i2
  <2>2. i = [name |-> i.name, unique |-> i.unique, columns |-> i.columns]
        BY DEF IsTable, IsIndex
  <2>3. j.unique = i.unique /\ j.columns = Swapped(i.columns)
        BY <2>1, <2>2
  <2>4. QED
        BY <1>6, <2>3
<1>8. \A k \in k2 : \E j \in s.fks : /\ k.column = M(j.column)
                                     /\ k.table = j.table /\ k.target = j.target
  <2> SUFFICES ASSUME NEW k \in k2
               PROVE  \E j \in s.fks : /\ k.column = M(j.column)
                                       /\ k.table = j.table /\ k.target = j.target
        OBVIOUS
  <2>1. PICK j \in s.fks : k = [j EXCEPT !.column = Swap(@, x)]
        BY DEF k2
  <2>2. j = [name |-> j.name, column |-> j.column, table |-> j.table, target |-> j.target]
        BY DEF IsTable, IsKey
  <2>3. k.column = Swap(j.column, x) /\ k.table = j.table /\ k.target = j.target
        BY <2>1, <2>2
  <2>4. QED
        BY <1>2, <2>3
<1>9. Follows("rename", x, s.pk, p2)
    BY <1>6
<1> HIDE DEF c2, r2, i2, k2, p2
<1>10. /\ s2.columns = c2 /\ s2.rows = r2 /\ s2.pk = p2 /\ s2.indexes = i2
       /\ s2.checks = s.checks /\ s2.fks = k2
    BY <1>1
<1> HIDE DEF s2
<1>11. Columns(s2) = DOMAIN c2
    BY <1>10 DEF Columns
<1>12. Reshapes("rename", x, s, s2)
    BY <1>4, <1>10, <1>11 DEF Reshapes
<1>13. Fills("rename", x, s, s2)
    BY <1>5, <1>10, <1>11 DEF Fills
<1>14. Binds("rename", x, s, s2)
    BY <1>7, <1>8, <1>9, <1>10 DEF Binds
<1>15. QED
    BY <1>12, <1>13, <1>14 DEF Becomes, s2

LEMMA OtherBecomes ==
    ASSUME NEW s, IsTable(s), Rowed(s), NEW x, NEW kind \in {"modify", "pk", "index", "check", "fk"},
           kind \in {"modify", "pk"} => x.name \in Columns(s)
    PROVE  Becomes(kind, x, s, Altered(s, kind, x))
<1>1. CASE kind = "modify"
  <2> DEFINE s2 == Altered(s, "modify", x)
             c2 == [s.columns EXCEPT ![x.name] = ColumnOf(x)]
  <2>1. s2 = [s EXCEPT !.columns = c2]
        BY DEF Altered
  <2>2. DOMAIN c2 = Columns(s) /\ \A c \in Columns(s) : c2[c] = IF c = x.name THEN ColumnOf(x) ELSE s.columns[c]
        BY DEF Columns
  <2> HIDE DEF s2, c2
  <2>3. /\ s2.columns = c2 /\ s2.rows = s.rows /\ s2.pk = s.pk /\ s2.indexes = s.indexes
        /\ s2.checks = s.checks /\ s2.fks = s.fks
        BY <2>1 DEF IsTable
  <2>4. Columns(s2) = Columns(s)
        BY <2>2, <2>3 DEF Columns
  <2>5. Becomes("modify", x, s, s2)
        BY <2>2, <2>3, <2>4, StillBecomes
  <2>6. QED
        BY <1>1, <2>5 DEF s2
<1>2. CASE kind = "pk"
  <2> DEFINE s2 == Altered(s, "pk", x)
             c2 == [s.columns EXCEPT ![x.name].nullable = FALSE]
             p2 == <<x.name>>
  <2>1. s2 = [s EXCEPT !.pk = p2, !.columns = c2]
        BY DEF Altered
  <2>2. /\ DOMAIN c2 = Columns(s)
        /\ \A c \in Columns(s) : c2[c] = IF c = x.name THEN [s.columns[c] EXCEPT !.nullable = FALSE]
                                                       ELSE s.columns[c]
        BY DEF Columns
  <2> HIDE DEF s2, c2, p2
  <2>3. /\ s2.columns = c2 /\ s2.rows = s.rows /\ s2.indexes = s.indexes
        /\ s2.checks = s.checks /\ s2.fks = s.fks
        BY <2>1 DEF IsTable
  <2>4. Columns(s2) = Columns(s)
        BY <2>2, <2>3 DEF Columns
  <2>5. \A c \in Columns(s) : [s.columns[c] EXCEPT !.nullable = FALSE].type = s.columns[c].type
        BY DEF IsTable, IsColumn
  <2>6. \A c \in Columns(s) : s2.columns[c].type = s.columns[c].type
        BY <2>2, <2>3, <2>5
  <2>7. Becomes("pk", x, s, s2)
        BY <2>3, <2>4, <2>6, StillBecomes
  <2>8. QED
        BY <1>2, <2>7 DEF s2
<1>3. CASE kind = "index"
  <2> DEFINE s2 == Altered(s, "index", x)
             i2 == s.indexes \cup {x}
  <2>1. s2 = [s EXCEPT !.indexes = i2]
        BY DEF Altered
  <2> HIDE DEF s2, i2
  <2>2. /\ s2.columns = s.columns /\ s2.rows = s.rows /\ s2.pk = s.pk /\ s2.indexes = i2
        /\ s2.checks = s.checks /\ s2.fks = s.fks
        BY <2>1 DEF IsTable
  <2>3. Columns(s2) = Columns(s)
        BY <2>2 DEF Columns
  <2>4. Becomes("index", x, s, s2)
        BY <2>2, <2>3, StillBecomes DEF i2
  <2>5. QED
        BY <1>3, <2>4 DEF s2
<1>4. CASE kind = "check"
  <2> DEFINE s2 == Altered(s, "check", x)
             k2 == s.checks \cup {x}
  <2>1. s2 = [s EXCEPT !.checks = k2]
        BY DEF Altered
  <2> HIDE DEF s2, k2
  <2>2. /\ s2.columns = s.columns /\ s2.rows = s.rows /\ s2.pk = s.pk /\ s2.indexes = s.indexes
        /\ s2.checks = k2 /\ s2.fks = s.fks
        BY <2>1 DEF IsTable
  <2>3. Columns(s2) = Columns(s)
        BY <2>2 DEF Columns
  <2>4. Becomes("check", x, s, s2)
        BY <2>2, <2>3, StillBecomes DEF k2
  <2>5. QED
        BY <1>4, <2>4 DEF s2
<1>5. CASE kind = "fk"
  <2> DEFINE s2 == Altered(s, "fk", x)
             k2 == s.fks \cup {x}
  <2>1. s2 = [s EXCEPT !.fks = k2]
        BY DEF Altered
  <2> HIDE DEF s2, k2
  <2>2. /\ s2.columns = s.columns /\ s2.rows = s.rows /\ s2.pk = s.pk /\ s2.indexes = s.indexes
        /\ s2.checks = s.checks /\ s2.fks = k2
        BY <2>1 DEF IsTable
  <2>3. Columns(s2) = Columns(s)
        BY <2>2 DEF Columns
  <2>4. Becomes("fk", x, s, s2)
        BY <2>2, <2>3, StillBecomes DEF k2
  <2>5. QED
        BY <1>5, <2>4 DEF s2
<1>6. QED
    BY <1>1, <1>2, <1>3, <1>4, <1>5

(* The tables around it: every cell is still there, by the name its column *)
(* has now.                                                                *)
Kinds == {"rename", "add", "modify", "pk", "index", "check", "fk"}
Goes(st, t, c) == IF t = st.table THEN Moved(st.kind, st.object, c) ELSE c
Carries(st, tables, other) ==
    /\ DOMAIN tables \subseteq DOMAIN other
    /\ \A t \in DOMAIN tables :
          /\ DOMAIN other[t].rows = DOMAIN tables[t].rows
          /\ \A c \in Columns(tables[t]) :
                /\ Goes(st, t, c) \in Columns(other[t])
                /\ \A r \in DOMAIN tables[t].rows :
                      other[t].rows[r][Goes(st, t, c)] = tables[t].rows[r][c]

LEMMA SameDuplicates ==
    ASSUME NEW rows, NEW rows2, NEW columns, NEW columns2,
           DOMAIN rows2 = DOMAIN rows, DOMAIN columns2 = DOMAIN columns,
           \A r \in DOMAIN rows, n \in DOMAIN columns :
              rows2[r][columns2[n]] = rows[r][columns[n]]
    PROVE  Duplicated(rows2, columns2) = Duplicated(rows, columns)
<1>1. ASSUME NEW r \in DOMAIN rows
      PROVE  CellsOf(rows2[r], columns2) = CellsOf(rows[r], columns)
    BY DEF CellsOf
<1>2. QED
    BY <1>1 DEF Duplicated

LEMMA SameDangling ==
    ASSUME NEW tables, NEW other, NEW t, NEW c, NEW c2, NEW k, NEW k2, k2.table = k.table,
           DOMAIN other[t].rows = DOMAIN tables[t].rows,
           DOMAIN other[k.table].rows = DOMAIN tables[k.table].rows,
           \A r \in DOMAIN tables[t].rows : other[t].rows[r][c2] = tables[t].rows[r][c],
           \A q \in DOMAIN tables[k.table].rows :
              other[k.table].rows[q][k2.target] = tables[k.table].rows[q][k.target]
    PROVE  Dangling(other, t, c2, k2) = Dangling(tables, t, c, k)
BY DEF Dangling

LEMMA RunBecomes ==
    ASSUME NEW tables, Linked(tables), NEW st, st.kind \in Kinds, st.table \in DOMAIN tables,
           Applies(st, tables)
    PROVE  LET N == Run(st, tables)
           IN  /\ DOMAIN N = DOMAIN tables
               /\ \A t \in DOMAIN tables \ {st.table} : N[t] = tables[t]
               /\ Becomes(st.kind, st.object, tables[st.table], N[st.table])
<1> DEFINE s == tables[st.table]
           x == st.object
           s2 == Altered(s, st.kind, x)
<1>1. Run(st, tables) = [tables EXCEPT ![st.table] = s2]
    BY DEF Run, Kinds
<1>2. IsTable(s) /\ Rowed(s)
    BY DEF Linked, Rowed
<1>3. Becomes(st.kind, x, s, s2)
  <2>1. CASE st.kind = "rename"
    <3>1. x.from \in Columns(s) /\ x.name \notin Columns(s)
          BY <2>1 DEF Applies
    <3> HIDE DEF s, x
    <3>2. QED
          BY <1>2, <2>1, <3>1, RenameBecomes
  <2>2. CASE st.kind = "add"
    <3>1. x.name \notin Columns(s)
          BY <2>2 DEF Applies
    <3> HIDE DEF s, x
    <3>2. QED
          BY <1>2, <2>2, <3>1, AddBecomes
  <2>3. CASE st.kind \notin {"rename", "add"}
    <3>1. st.kind \in {"modify", "pk"} => x.name \in Columns(s)
          BY <2>3 DEF Applies
    <3>2. st.kind \in {"modify", "pk", "index", "check", "fk"}
          BY <2>3 DEF Kinds
    <3> HIDE DEF s, x
    <3>3. QED
          BY <1>2, <3>1, <3>2, OtherBecomes
  <2>4. QED
        BY <2>1, <2>2, <2>3
<1> HIDE DEF s2
<1>4. QED
    BY <1>1, <1>3

LEMMA RunCreates ==
    ASSUME NEW tables, NEW st, st.kind = "create", Applies(st, tables)
    PROVE  LET N == Run(st, tables)
           IN  /\ st.table \notin DOMAIN tables
               /\ DOMAIN N = DOMAIN tables \cup {st.table}
               /\ \A t \in DOMAIN tables : N[t] = tables[t]
               /\ N[st.table] = Created(st.object)
<1>1. st.table \notin DOMAIN tables
    BY DEF Applies
<1>2. Run(st, tables) = With(tables, st.table, Created(st.object))
    BY DEF Run
<1>3. QED
    BY <1>1, <1>2 DEF With

LEMMA RunCarries ==
    ASSUME NEW tables, Linked(tables), NEW st, st.kind \in Kinds \cup {"create"},
           st.kind # "create" => st.table \in DOMAIN tables, Applies(st, tables)
    PROVE  Carries(st, tables, Run(st, tables))
<1> DEFINE N == Run(st, tables)
<1>1. CASE st.kind = "create"
  <2>1. /\ st.table \notin DOMAIN tables /\ DOMAIN N = DOMAIN tables \cup {st.table}
        /\ \A t \in DOMAIN tables : N[t] = tables[t]
        BY <1>1, RunCreates
  <2> HIDE DEF N
  <2>2. \A t \in DOMAIN tables : \A c : Goes(st, t, c) = c
        BY <2>1 DEF Goes
  <2>3. Carries(st, tables, N)
        BY <2>1, <2>2 DEF Carries
  <2>4. QED
        BY <2>3 DEF N
<1>2. CASE st.kind # "create"
  <2>0. st.kind \in Kinds /\ st.table \in DOMAIN tables
        BY <1>2
  <2>1. /\ DOMAIN N = DOMAIN tables
        /\ \A t \in DOMAIN tables \ {st.table} : N[t] = tables[t]
        /\ Becomes(st.kind, st.object, tables[st.table], N[st.table])
        BY <2>0, RunBecomes
  <2> HIDE DEF N
  <2> DEFINE Kept2(t) ==
                 /\ DOMAIN N[t].rows = DOMAIN tables[t].rows
                 /\ \A c \in Columns(tables[t]) :
                       /\ Goes(st, t, c) \in Columns(N[t])
                       /\ \A r \in DOMAIN tables[t].rows :
                             N[t].rows[r][Goes(st, t, c)] = tables[t].rows[r][c]
  <2>2. ASSUME NEW t \in DOMAIN tables, t # st.table PROVE Kept2(t)
        BY <2>1, <2>2 DEF Goes
  <2>3. Kept2(st.table)
        BY <2>1 DEF Becomes, Reshapes, Fills, Goes
  <2> HIDE DEF Kept2
  <2>4. \A t \in DOMAIN tables : Kept2(t)
        BY <2>2, <2>3
  <2>5. Carries(st, tables, N)
        BY <2>1, <2>4 DEF Carries, Kept2
  <2>6. QED
        BY <2>5 DEF N
<1>3. QED
    BY <1>1, <1>2

(* What a foreign key refers to keeps its name.                            *)
LEMMA TargetsThere ==
    ASSUME Holdable(want), NEW d \in ToSet(want), NEW k \in ToSet(d.fks)
    PROVE  \E e \in ToSet(want) : e.name = k.table /\ k.target \in FieldNames(e)
<1>1. PICK e \in ToSet(want) : e.name = k.table /\ Keyed(e, k.target)
    BY DEF Holdable
<1>2. Accepted(e)
    BY DEF Holdable
<1>3. CASE e.pk = k.target
    BY <1>1, <1>2, <1>3 DEF Accepted, FieldNames
<1>4. CASE e.pk # k.target
  <2>1. PICK i \in ToSet(e.indexes) : i.columns # << >> /\ i.columns[1] = k.target
        BY <1>1, <1>4 DEF Keyed
  <2>2. i.columns \in Seq(FieldNames(e))
        BY <1>2 DEF Accepted
  <2>3. i.columns[1] \in FieldNames(e)
        BY <2>1, <2>2
  <2>4. QED
        BY <1>1, <2>1, <2>3
<1>5. QED
    BY <1>3, <1>4

LEMMA TargetsStay ==
    ASSUME Holdable(want), NEW tables, Unreferenced(want, tables), NEW st \in Universe
    PROVE  /\ \A t \in DOMAIN tables : \A k \in tables[t].fks :
                 Goes(st, k.table, k.target) = k.target
           /\ \A d \in ToSet(want) : \A k \in ToSet(d.fks) :
                 Goes(st, k.table, k.target) = k.target
<1>1. PICK d \in ToSet(want) :
           \E kind, x : /\ st = Of(d, kind, x)
                        /\ OfKind(d, kind, x) \/ (kind = "create" /\ x = d)
    BY UniverseIs
<1>2. st.table = d.name /\ (st.kind = "rename" => st.object \in Fields(d))
    BY <1>1 DEF Of, OfKind
<1>3. ASSUME NEW k, k.table = d.name => \A f \in Fields(d) : k.target # f.from
      PROVE  Goes(st, k.table, k.target) = k.target
    BY <1>2, <1>3 DEF Goes, Moved
<1>4. ASSUME NEW t \in DOMAIN tables, NEW k \in tables[t].fks
      PROVE  Goes(st, k.table, k.target) = k.target
    BY <1>3 DEF Unreferenced
<1>5. ASSUME NEW e \in ToSet(want), NEW k \in ToSet(e.fks)
      PROVE  Goes(st, k.table, k.target) = k.target
  <2>1. PICK a \in ToSet(want) : a.name = k.table /\ k.target \in FieldNames(a)
        BY <1>5, TargetsThere
  <2>2. k.table = d.name => a = d
        BY <2>1, DefinitionsAre
  <2>3. k.table = d.name => \A f \in Fields(d) : k.target # f.from
        BY <2>1, <2>2 DEF Holdable, Accepted, FieldNames
  <2>4. QED
        BY <1>3, <2>3
<1>6. QED
    BY <1>4, <1>5

(* A definition finds its columns again after a statement, under the name  *)
(* they have now, and with what they held.                                 *)
LEMMA OldNameGoes ==
    ASSUME NEW d, Accepted(d), NEW s, IsTable(s), NEW s2, IsTable(s2),
           NEW kind, NEW x, OfKind(d, kind, x), Open(s, kind, x), Becomes(kind, x, s, s2),
           NEW f \in Fields(d), Present(d, s, f.name)
    PROVE  OldName(d, s2, f.name) = Moved(kind, x, OldName(d, s, f.name))
<1>1. /\ \A c \in Columns(s) : Moved(kind, x, c) \in Columns(s2)
      /\ \A b \in Columns(s2) :
            (kind = "add" /\ b = x.name) \/ \E c \in Columns(s) : b = Moved(kind, x, c)
    BY DEF Becomes, Reshapes
<1>2. kind \in {"rename", "add", "modify"} => x \in Fields(d)
    BY DEF OfKind, Primary
<1>3. /\ \A g \in Fields(d) : g.name = f.name => g = f
      /\ \A g \in Fields(d) : f.name # g.from /\ f.from # g.name
      /\ \A g \in Fields(d) : g.from = f.from /\ f.from # None => g = f
  <2>1. \A g, h \in Fields(d) : g.name = h.name => g = h
        BY NamesApart
  <2>2. \A g, h \in Fields(d) : g.from # h.name /\ (g.from = h.from /\ g.from # None => g = h)
        BY DEF Accepted
  <2>3. QED
        BY <2>1, <2>2
<1>4. /\ OldName(d, s, f.name) = IF f \in Renames(d, s) THEN f.from ELSE f.name
      /\ OldName(d, s2, f.name) = IF f \in Renames(d, s2) THEN f.from ELSE f.name
    BY NamesAre
<1>5. /\ f \in Renames(d, s) <=> f.name \notin Columns(s) /\ f.from \in Columns(s)
      /\ f \in Renames(d, s2) <=> f.name \notin Columns(s2) /\ f.from \in Columns(s2)
    BY DEF Renames
<1>6. CASE f.name \in Columns(s)
  <2>1. Moved(kind, x, f.name) = f.name
        BY <1>2, <1>3 DEF Moved
  <2>2. f.name \in Columns(s2)
        BY <1>1, <1>6, <2>1
  <2>3. QED
        BY <1>4, <1>5, <1>6, <2>1, <2>2
<1>7. CASE f.name \notin Columns(s)
  <2>1. f.from \in Columns(s) /\ OldName(d, s, f.name) = f.from /\ f.from # None
        BY <1>4, <1>5, <1>7 DEF Present, IsTable
  <2>2. CASE kind = "rename" /\ x = f
    <3>1. Moved(kind, x, f.from) = f.name
          BY <2>2 DEF Moved
    <3>2. f.name \in Columns(s2)
          BY <1>1, <2>1, <3>1
    <3>3. QED
          BY <1>4, <1>5, <2>1, <3>1, <3>2
  <2>3. CASE ~(kind = "rename" /\ x = f)
    <3>1. Moved(kind, x, f.from) = f.from
          BY <1>2, <1>3, <2>1, <2>3 DEF Moved
    <3>2. f.from \in Columns(s2)
          BY <1>1, <2>1, <3>1
    <3>3. \A c \in Columns(s) : Moved(kind, x, c) # f.name
          BY <1>2, <1>3, <1>7, <2>3 DEF Moved
    <3>4. ~(kind = "add" /\ f.name = x.name)
          BY <1>2, <1>3, <2>1 DEF Open
    <3>5. f.name \notin Columns(s2)
          BY <1>1, <3>3, <3>4
    <3>6. QED
          BY <1>4, <1>5, <2>1, <3>1, <3>2, <3>5
  <2>4. QED
        BY <2>2, <2>3
<1>8. QED
    BY <1>6, <1>7

LEMMA CellsStay ==
    ASSUME NEW d, Accepted(d), NEW s, IsTable(s), NEW s2, IsTable(s2),
           NEW kind, NEW x, OfKind(d, kind, x), Open(s, kind, x), Becomes(kind, x, s, s2)
    PROVE  \A c \in FieldNames(d) : Present(d, s, c) =>
              /\ OldName(d, s2, c) = Moved(kind, x, OldName(d, s, c))
              /\ Present(d, s2, c)
              /\ \A r \in DOMAIN s.rows : Cell(d, s2, r, c) = Cell(d, s, r, c)
<1> SUFFICES ASSUME NEW f \in Fields(d), Present(d, s, f.name)
             PROVE  /\ OldName(d, s2, f.name) = Moved(kind, x, OldName(d, s, f.name))
                    /\ Present(d, s2, f.name)
                    /\ \A r \in DOMAIN s.rows : Cell(d, s2, r, f.name) = Cell(d, s, r, f.name)
    BY DEF FieldNames
<1>1. OldName(d, s2, f.name) = Moved(kind, x, OldName(d, s, f.name))
    BY OldNameGoes
<1>2. OldName(d, s, f.name) \in Columns(s)
    BY DEF Present
<1>3. Present(d, s2, f.name)
    BY <1>1, <1>2 DEF Present, Becomes, Reshapes
<1>4. ASSUME NEW r \in DOMAIN s.rows PROVE Cell(d, s2, r, f.name) = Cell(d, s, r, f.name)
    BY <1>1, <1>2 DEF Cell, Becomes, Fills
<1>5. QED
    BY <1>1, <1>3, <1>4

LEMMA TypeStays ==
    ASSUME NEW d, Accepted(d), NEW s, IsTable(s), NEW s2, IsTable(s2),
           NEW kind, NEW x, OfKind(d, kind, x), Open(s, kind, x), Becomes(kind, x, s, s2),
           NEW f \in Fields(d), Present(d, s, f.name), ~(kind = "modify" /\ x = f)
    PROVE  Column(d, s2, f).type = Column(d, s, f).type
<1> DEFINE c == OldName(d, s, f.name)
<1>1. OldName(d, s2, f.name) = Moved(kind, x, c)
    BY OldNameGoes
<1>2. c \in {f.name, f.from} /\ c \in Columns(s)
  <2>1. c = IF f \in Renames(d, s) THEN f.from ELSE f.name
        BY NamesAre
  <2>2. QED
        BY <2>1 DEF Present
<1>3. kind = "modify" => c # x.name
  <2>1. ASSUME kind = "modify" PROVE x \in Fields(d) /\ x.name # f.from /\ x.name # f.name
    <3>1. x \in Fields(d)
          BY <2>1 DEF OfKind
    <3>2. x.name # f.name
          BY <2>1, <3>1, NamesApart
    <3>3. x.name # f.from
          BY <3>1 DEF Accepted
    <3>4. QED
          BY <3>1, <3>2, <3>3
  <2>2. QED
        BY <1>2, <2>1
<1> HIDE DEF c
<1>4. s2.columns[Moved(kind, x, c)].type = s.columns[c].type
    BY <1>2, <1>3 DEF Becomes, Reshapes
<1>5. QED
    BY <1>1, <1>4 DEF Column, c

(* What the rows are fit for they stay fit for.                            *)
LEMMA SuitsAfter ==
    ASSUME NEW d, Accepted(d), NEW s, IsTable(s), NEW s2, IsTable(s2),
           NEW kind, NEW x, OfKind(d, kind, x), Open(s, kind, x), Becomes(kind, x, s, s2),
           NEW k, NEW y, OfKind(d, k, y), ~(k = kind /\ y = x), Suits(d, s, k, y)
    PROVE  Suits(d, s2, k, y)
<1>1. \A c \in FieldNames(d) : Present(d, s, c) =>
          /\ OldName(d, s2, c) = Moved(kind, x, OldName(d, s, c))
          /\ Present(d, s2, c)
          /\ \A r \in DOMAIN s.rows : Cell(d, s2, r, c) = Cell(d, s, r, c)
    BY CellsStay
<1>2. DOMAIN s2.rows = DOMAIN s.rows
    BY DEF Becomes, Fills
<1>3. CASE k = "add"
    BY <1>2, <1>3 DEF Suits
<1>4. CASE k = "modify"
  <2>1. y \in Fields(d) /\ y.name \in FieldNames(d) /\ Present(d, s, y.name)
        BY <1>4 DEF OfKind, FieldNames, Suits
  <2>2. Column(d, s2, y).type = Column(d, s, y).type
        BY <1>4, <2>1, TypeStays
  <2>3. Wider(d, s, y) => Wider(d, s2, y)
        BY <2>2 DEF Wider
  <2>4. (\A r \in DOMAIN s.rows : Fits(Cell(d, s, r, y.name), ColumnOf(y)))
        => \A r \in DOMAIN s2.rows : Fits(Cell(d, s2, r, y.name), ColumnOf(y))
        BY <1>1, <1>2, <2>1
  <2>5. QED
        BY <1>1, <1>4, <2>1, <2>3, <2>4 DEF Suits
<1>5. CASE k = "index"
  <2> SUFFICES ASSUME y.unique
               PROVE  /\ \A c \in ToSet(y.columns) : Present(d, s2, c)
                      /\ Duplicated(s2.rows, OldNames(d, s2, y.columns)) = {}
        BY <1>5 DEF Suits
  <2>1. /\ \A c \in ToSet(y.columns) : Present(d, s, c)
        /\ Duplicated(s.rows, OldNames(d, s, y.columns)) = {}
        BY <1>5 DEF Suits
  <2>2. y.columns \in Seq(FieldNames(d))
        BY <1>5 DEF OfKind, Accepted
  <2>3. \A n \in DOMAIN y.columns : y.columns[n] \in FieldNames(d) /\ y.columns[n] \in ToSet(y.columns)
        BY <2>2, ElementOfSeq, LenProperties DEF ToSet
  <2>4. \A c \in ToSet(y.columns) : c \in FieldNames(d)
        BY <2>3 DEF ToSet
  <2> DEFINE old == OldNames(d, s, y.columns)
             new == OldNames(d, s2, y.columns)
  <2>5. DOMAIN old = DOMAIN y.columns /\ DOMAIN new = DOMAIN y.columns
        BY DEF OldNames
  <2>6. ASSUME NEW r \in DOMAIN s.rows, NEW n \in DOMAIN y.columns
        PROVE  s2.rows[r][new[n]] = s.rows[r][old[n]]
    <3>1. Cell(d, s2, r, y.columns[n]) = Cell(d, s, r, y.columns[n])
          BY <1>1, <2>1, <2>3
    <3>2. QED
          BY <3>1 DEF OldNames, Cell
  <2> HIDE DEF old, new
  <2>7. Duplicated(s2.rows, new) = Duplicated(s.rows, old)
        BY <1>2, <2>5, <2>6, SameDuplicates
  <2>8. QED
        BY <1>1, <2>1, <2>4, <2>7 DEF old, new
<1>6. CASE k = "check"
  <2>1. y.column \in FieldNames(d)
        BY <1>6 DEF OfKind, Accepted
  <2>2. Present(d, s, y.column) /\ \A r \in DOMAIN s.rows : Cell(d, s, r, y.column) # y.bad
        BY <1>6 DEF Suits
  <2>3. QED
        BY <1>1, <1>2, <1>6, <2>1, <2>2 DEF Suits
<1>7. CASE k \notin {"add", "modify", "index", "check"}
    BY <1>7 DEF Suits
<1>8. QED
    BY <1>3, <1>4, <1>5, <1>6, <1>7

(* What MySQL sees of one table when a statement applies, and the rows that *)
(* obey the table's own constraints.                                       *)
Meets(s, kind, x) ==
    /\ kind \in {"modify", "pk"} => x.name \in Columns(s)
    /\ kind = "index" => ToSet(x.columns) \subseteq Columns(s)
    /\ kind \in {"check", "fk"} => x.column \in Columns(s)
    /\ kind = "rename" => \A c \in s.checks : c.column # x.from
Named(s) ==
    /\ \A i \in s.indexes : ToSet(i.columns) \subseteq Columns(s)
    /\ \A c \in s.checks : c.column \in Columns(s)
Fit(s) == \A r \in DOMAIN s.rows, c \in Columns(s) : Fits(s.rows[r][c], s.columns[c])
Sorted(s) ==
    /\ s.pk # << >> => Duplicated(s.rows, s.pk) = {}
    /\ \A i \in s.indexes : i.unique => Duplicated(s.rows, i.columns) = {}
Passing(s) == \A c \in s.checks, r \in DOMAIN s.rows : s.rows[r][c.column] # c.bad

LEMMA OwnName ==
    ASSUME NEW d, NEW s, NEW c \in Columns(s)
    PROVE  OldName(d, s, c) = c
BY DEF OldName, Renames

LEMMA FitAfter ==
    ASSUME NEW d, Accepted(d), NEW s, NEW s2, NEW kind, kind # "pk", NEW x,
           OfKind(d, kind, x), Meets(s, kind, x), Becomes(kind, x, s, s2),
           Fit(s), Suits(d, s, kind, x), kind = "modify" => ~Wider(d, s, x)
    PROVE  Fit(s2)
<1>1. /\ DOMAIN s2.rows = DOMAIN s.rows
      /\ \A r \in DOMAIN s.rows : \A c \in Columns(s) : s2.rows[r][Moved(kind, x, c)] = s.rows[r][c]
      /\ kind = "add" => \A r \in DOMAIN s.rows : s2.rows[r][x.name] = Filled(x)
    BY DEF Becomes, Fills
<1>2. SUFFICES ASSUME NEW r \in DOMAIN s.rows, NEW b \in Columns(s2)
               PROVE  Fits(s2.rows[r][b], s2.columns[b])
    BY <1>1 DEF Fit
<1>3. CASE kind = "add" /\ b = x.name
  <2>1. s2.rows[r][b] = Filled(x) /\ s2.columns[b] = ColumnOf(x)
        BY <1>1, <1>3 DEF Becomes, Reshapes
  <2>2. x \in Fields(d) /\ x.required \in BOOLEAN
        BY <1>3 DEF OfKind, Accepted
  <2>3. CASE x.default # None
        BY <2>1, <2>2, <2>3 DEF Filled, Accepted
  <2>4. CASE x.default = None
    <3>1. x.required = FALSE
          BY <1>3, <2>2, <2>4 DEF Suits
    <3>2. Filled(x) = Null /\ ColumnOf(x).nullable = TRUE
          BY <2>4, <3>1 DEF Filled, ColumnOf
    <3>3. QED
          BY <2>1, <3>2 DEF Fits
  <2>5. QED
        BY <2>3, <2>4
<1>4. CASE ~(kind = "add" /\ b = x.name)
  <2>1. PICK c \in Columns(s) : b = Moved(kind, x, c)
        BY <1>4 DEF Becomes, Reshapes
  <2>2. s2.rows[r][b] = s.rows[r][c] /\ Fits(s.rows[r][c], s.columns[c])
        BY <1>1, <2>1 DEF Fit
  <2>3. CASE kind = "modify" /\ c = x.name /\ s2.columns[c] = ColumnOf(x)
    <3>1. b = c /\ OldName(d, s, x.name) = c
          BY <2>1, <2>3, OwnName DEF Moved
    <3>2. Fits(Cell(d, s, r, x.name), ColumnOf(x))
          BY <2>3 DEF Suits
    <3>3. QED
          BY <2>2, <2>3, <3>1, <3>2 DEF Cell
  <2>4. CASE /\ s2.columns[b].type = s.columns[c].type
             /\ s2.columns[b].nullable = s.columns[c].nullable
        BY <2>2, <2>4 DEF Fits
  <2>5. QED
        BY <2>1, <2>3, <2>4 DEF Becomes, Reshapes
<1>5. QED
    BY <1>3, <1>4

LEMMA SortedAfter ==
    ASSUME NEW d, Accepted(d), NEW s, IsTable(s), NEW s2, IsTable(s2),
           NEW kind, kind # "pk", NEW x,
           OfKind(d, kind, x), Meets(s, kind, x), Named(s), Becomes(kind, x, s, s2),
           Sorted(s), Suits(d, s, kind, x)
    PROVE  Sorted(s2)
<1>1. /\ DOMAIN s2.rows = DOMAIN s.rows
      /\ \A r \in DOMAIN s.rows : \A c \in Columns(s) : s2.rows[r][Moved(kind, x, c)] = s.rows[r][c]
    BY DEF Becomes, Fills
<1>2. ASSUME NEW columns, NEW columns2, Follows(kind, x, columns, columns2),
             ToSet(columns) \subseteq Columns(s)
      PROVE  Duplicated(s2.rows, columns2) = Duplicated(s.rows, columns)
  <2>1. \A n \in DOMAIN columns : columns[n] \in Columns(s)
        BY <1>2 DEF ToSet
  <2>2. \A r \in DOMAIN s.rows, n \in DOMAIN columns : s2.rows[r][columns2[n]] = s.rows[r][columns[n]]
        BY <1>1, <1>2, <2>1 DEF Follows
  <2>3. QED
        BY <1>1, <1>2, <2>2, SameDuplicates DEF Follows
<1>3. s2.pk # << >> => Duplicated(s2.rows, s2.pk) = {}
  <2>1. Follows(kind, x, s.pk, s2.pk)
        BY DEF Becomes, Binds
  <2>2. s.pk \in Seq(Columns(s)) /\ s2.pk \in Seq(Columns(s2))
        BY DEF IsTable
  <2>3. ToSet(s.pk) \subseteq Columns(s)
        BY <2>2, ElementOfSeq, LenProperties DEF ToSet
  <2>4. s.pk = << >> => s2.pk = << >>
    <3>1. DOMAIN s2.pk = DOMAIN s.pk
          BY <2>1 DEF Follows
    <3> DEFINE seq == s2.pk
    <3>2. seq \in Seq(Columns(s2)) /\ Len(seq) \in Nat /\ DOMAIN seq = 1 .. Len(seq)
          BY <2>2, LenProperties
    <3>3. s.pk = << >> => DOMAIN seq = {}
          BY <3>1
    <3> HIDE DEF seq
    <3>4. DOMAIN seq = {} => Len(seq) = 0
          BY <3>2
    <3>5. Len(seq) = 0 => seq = << >>
          BY <3>2
    <3>6. QED
          BY <3>3, <3>4, <3>5 DEF seq
  <2>5. QED
        BY <1>2, <2>1, <2>3, <2>4 DEF Sorted
<1>4. ASSUME NEW j \in s2.indexes, j.unique PROVE Duplicated(s2.rows, j.columns) = {}
  <2>1. CASE \E i \in s.indexes : j.unique = i.unique /\ Follows(kind, x, i.columns, j.columns)
    <3>1. PICK i \in s.indexes : j.unique = i.unique /\ Follows(kind, x, i.columns, j.columns)
          BY <2>1
    <3>2. ToSet(i.columns) \subseteq Columns(s) /\ Duplicated(s.rows, i.columns) = {}
          BY <1>4, <3>1 DEF Named, Sorted
    <3>3. QED
          BY <1>2, <3>1, <3>2
  <2>2. CASE kind = "index" /\ j = x
    <3> DEFINE old == OldNames(d, s, x.columns)
    <3>1. ToSet(x.columns) \subseteq Columns(s) /\ Duplicated(s.rows, old) = {}
          BY <1>4, <2>2 DEF Meets, Suits
    <3>2. DOMAIN old = DOMAIN x.columns /\ \A n \in DOMAIN x.columns : old[n] = x.columns[n]
      <4>1. \A n \in DOMAIN x.columns : x.columns[n] \in Columns(s)
            BY <3>1 DEF ToSet
      <4>2. \A n \in DOMAIN x.columns : OldName(d, s, x.columns[n]) = x.columns[n]
            BY <4>1, OwnName
      <4>3. QED
            BY <4>2 DEF OldNames
    <3> HIDE DEF old
    <3>3. Follows(kind, x, old, x.columns)
      <4>1. \A c : Moved(kind, x, c) = c
            BY <2>2, StaysPut
      <4>2. QED
            BY <3>2, <4>1 DEF Follows
    <3>4. ToSet(old) \subseteq Columns(s)
          BY <3>1, <3>2 DEF ToSet
    <3>5. QED
          BY <1>2, <2>2, <3>1, <3>3, <3>4
  <2>3. QED
        BY <2>1, <2>2 DEF Becomes, Binds
<1>5. QED
    BY <1>3, <1>4 DEF Sorted

LEMMA PassingAfter ==
    ASSUME NEW d, NEW s, NEW s2, NEW kind, NEW x,
           Meets(s, kind, x), Named(s), Becomes(kind, x, s, s2),
           Passing(s), Suits(d, s, kind, x)
    PROVE  Passing(s2)
<1>1. /\ DOMAIN s2.rows = DOMAIN s.rows
      /\ \A r \in DOMAIN s.rows : \A c \in Columns(s) : s2.rows[r][Moved(kind, x, c)] = s.rows[r][c]
    BY DEF Becomes, Fills
<1>2. SUFFICES ASSUME NEW c \in s2.checks, NEW r \in DOMAIN s.rows
               PROVE  s2.rows[r][c.column] # c.bad
    BY <1>1 DEF Passing
<1>3. CASE c \in s.checks
  <2>1. Moved(kind, x, c.column) = c.column /\ c.column \in Columns(s)
        BY <1>3 DEF Moved, Meets, Named
  <2>2. QED
        BY <1>1, <1>3, <2>1 DEF Passing
<1>4. CASE kind = "check" /\ c = x
  <2>1. x.column \in Columns(s) /\ Moved(kind, x, x.column) = x.column
        BY <1>4 DEF Meets, Moved
  <2>2. Cell(d, s, r, x.column) # x.bad
        BY <1>4 DEF Suits
  <2>3. Cell(d, s, r, x.column) = s.rows[r][x.column]
        BY <2>1, OwnName DEF Cell
  <2>4. QED
        BY <1>1, <1>4, <2>1, <2>2, <2>3
<1>5. QED
    BY <1>3, <1>4 DEF Becomes, Binds

(* Rows lead where they led.                                               *)
LEMMA DanglingStays ==
    ASSUME NEW tables, NEW st, NEW other, Carries(st, tables, other),
           NEW t \in DOMAIN tables, NEW c \in Columns(tables[t]), NEW k, NEW k2,
           k.table \in DOMAIN tables, k.target \in Columns(tables[k.table]),
           Goes(st, k.table, k.target) = k.target,
           k2.table = k.table, k2.target = k.target
    PROVE  Dangling(other, t, Goes(st, t, c), k2) = Dangling(tables, t, c, k)
<1>1. DOMAIN other[t].rows = DOMAIN tables[t].rows
    BY DEF Carries
<1>2. DOMAIN other[k.table].rows = DOMAIN tables[k.table].rows
    BY DEF Carries
<1>3. \A r \in DOMAIN tables[t].rows : other[t].rows[r][Goes(st, t, c)] = tables[t].rows[r][c]
    BY DEF Carries
<1>4. \A q \in DOMAIN tables[k.table].rows :
          other[k.table].rows[q][k2.target] = tables[k.table].rows[q][k.target]
    BY DEF Carries
<1>5. QED
    BY <1>1, <1>2, <1>3, <1>4, SameDangling

(* A statement for which the rows are fit, and which is none that adds a   *)
(* primary key or makes a column narrower, leaves rows that obey all.      *)
Widens(st, tables) ==
    /\ st.kind = "modify"
    /\ \E d \in ToSet(want) : d.name = st.table /\ Wider(d, tables[st.table], st.object)

(* The statement, its definition and its table.                            *)
LEMMA StatementIs ==
    ASSUME Holdable(want), NEW st \in Universe
    PROVE  /\ st.kind \in Kinds \cup {"create"}
           /\ st = [kind |-> st.kind, table |-> st.table, object |-> st.object]
           /\ \E d \in ToSet(want) :
                 /\ Accepted(d) /\ st.table = d.name
                 /\ st.kind # "create" => OfKind(d, st.kind, st.object)
                 /\ st.kind = "create" => st.object = d
<1>1. PICK d \in ToSet(want) :
           \E kind, x : /\ st = Of(d, kind, x)
                        /\ OfKind(d, kind, x) \/ (kind = "create" /\ x = d)
    BY UniverseIs
<1>2. PICK kind, x : /\ st = Of(d, kind, x)
                     /\ OfKind(d, kind, x) \/ (kind = "create" /\ x = d)
    BY <1>1
<1>3. /\ st.table = d.name /\ st.kind = kind /\ st.object = x
      /\ st = [kind |-> st.kind, table |-> st.table, object |-> st.object]
    BY <1>2 DEF Of
<1>4. OfKind(d, kind, x) => kind \in Kinds
    BY DEF OfKind, Kinds
<1>5. "create" \notin Kinds
    BY DEF Kinds
<1>6. Accepted(d)
    BY DefinitionsAre
<1>7. QED
    BY <1>2, <1>3, <1>4, <1>5, <1>6, Zenon

LEMMA MeetsWhatApplies ==
    ASSUME NEW tables, NEW st, st.kind \in Kinds, Applies(st, tables)
    PROVE  Meets(tables[st.table], st.kind, st.object)
<1>1. CASE st.kind = "rename"
    BY <1>1 DEF Applies, Meets
<1>2. CASE st.kind = "add"
    BY <1>2 DEF Applies, Meets
<1>3. CASE st.kind = "modify"
    BY <1>3 DEF Applies, Meets
<1>4. CASE st.kind = "pk"
    BY <1>4 DEF Applies, Meets
<1>5. CASE st.kind = "index"
    BY <1>5 DEF Applies, Meets
<1>6. CASE st.kind = "check"
    BY <1>6 DEF Applies, Meets
<1>7. CASE st.kind = "fk"
    BY <1>7 DEF Applies, Meets
<1>8. QED
    BY <1>1, <1>2, <1>3, <1>4, <1>5, <1>6, <1>7 DEF Kinds

LEMMA CreatedTable ==
    ASSUME NEW d
    PROVE  /\ Created(d).rows = << >> /\ DOMAIN Created(d).rows = {}
           /\ Created(d).fks = {} /\ Columns(Created(d)) = FieldNames(d)
           /\ Created(d).indexes = ToSet(d.indexes) /\ Created(d).checks = ToSet(d.checks)
BY DEF Created, Columns, FieldNames

LEMMA NothingDuplicated ==
    ASSUME NEW rows, DOMAIN rows = {}, NEW columns
    PROVE  Duplicated(rows, columns) = {}
BY DEF Duplicated

(* The parts of Legal.                                                     *)
Leading(tables, t) ==
    \A k \in tables[t].fks : Dangling(tables, t, k.column, k) = {}
LEMMA LegalIs ==
    ASSUME NEW tables
    PROVE  Legal(tables) <=>
              \A t \in DOMAIN tables :
                 /\ Fit(tables[t]) /\ Sorted(tables[t]) /\ Passing(tables[t])
                 /\ Leading(tables, t)
BY DEF Legal, RowsLegal, Fit, Sorted, Passing, Leading

LEMMA OldKeysLead ==
    ASSUME Holdable(want), NEW tables, Linked(tables), Legal(tables), Unreferenced(want, tables),
           NEW st \in Universe, NEW other, Carries(st, tables, other),
           NEW t \in DOMAIN tables, NEW j \in tables[t].fks,
           NEW k, k.column = Goes(st, t, j.column), k.table = j.table, k.target = j.target
    PROVE  Dangling(other, t, k.column, k) = {}
<1>1. /\ j.column \in Columns(tables[t])
      /\ j.table \in DOMAIN tables /\ j.target \in Columns(tables[j.table])
    BY DEF Linked
<1>2. Goes(st, j.table, j.target) = j.target
    BY TargetsStay
<1>3. Dangling(tables, t, j.column, j) = {}
    BY DEF Legal, RowsLegal
<1>4. QED
    BY <1>1, <1>2, <1>3, DanglingStays

LEMMA NewKeyLeads ==
    ASSUME Holdable(want), NEW tables, Linked(tables), Unreferenced(want, tables),
           NEW d \in ToSet(want), d.name \in DOMAIN tables, NEW f \in ToSet(d.fks),
           NEW st \in Universe, st.table = d.name, st.kind = "fk",
           f.column \in Columns(tables[d.name]), Leads(d, tables, f),
           NEW other, Carries(st, tables, other)
    PROVE  Dangling(other, d.name, f.column, f) = {}
<1>1. CASE DOMAIN tables[d.name].rows = {}
  <2>1. DOMAIN other[d.name].rows = {}
        BY <1>1 DEF Carries
  <2>2. QED
        BY <2>1 DEF Dangling
<1>2. CASE DOMAIN tables[d.name].rows # {}
  <2>1. /\ f.table \in DOMAIN tables /\ f.target \in Columns(tables[f.table])
        /\ Dangling(tables, d.name, OldName(d, tables[d.name], f.column), f) = {}
        BY <1>2 DEF Leads
  <2>2. OldName(d, tables[d.name], f.column) = f.column
        BY OwnName
  <2>3. Goes(st, f.table, f.target) = f.target
        BY TargetsStay
  <2>4. Goes(st, d.name, f.column) = f.column
        BY DEF Goes, Moved
  <2>5. Dangling(other, d.name, Goes(st, d.name, f.column), f) = Dangling(tables, d.name, f.column, f)
        BY <2>1, <2>3, DanglingStays
  <2>6. QED
        BY <2>1, <2>2, <2>4, <2>5
<1>3. QED
    BY <1>1, <1>2

LEMMA LegalAfter ==
    ASSUME Holdable(want), NEW tables, Sound(tables), Lawful(tables), NEW st \in Universe,
           st.kind # "create" => st.table \in DOMAIN tables, Applies(st, tables),
           Sound(Run(st, tables)),
           st.kind # "pk", Clear(st, tables), ~Widens(st, tables)
    PROVE  Legal(Run(st, tables))
<1> DEFINE N == Run(st, tables)
<1>1. PICK d \in ToSet(want) :
         /\ Accepted(d) /\ st.table = d.name
         /\ st.kind # "create" => OfKind(d, st.kind, st.object)
         /\ st.kind = "create" => st.object = d
    BY StatementIs
<1>2. st.kind \in Kinds \cup {"create"}
    BY StatementIs
<1>3. Legal(tables) /\ Linked(tables) /\ Unreferenced(want, tables)
    BY DEF Lawful
<1>4. Carries(st, tables, N)
    BY <1>2, <1>3, RunCarries
<1>5. /\ \A t \in DOMAIN tables :
            /\ Fit(tables[t]) /\ Sorted(tables[t]) /\ Passing(tables[t])
            /\ Leading(tables, t)
    BY <1>3, LegalIs
<1>6. CASE st.kind = "create"
  <2>1. /\ st.table \notin DOMAIN tables /\ DOMAIN N = DOMAIN tables \cup {st.table}
        /\ \A t \in DOMAIN tables : N[t] = tables[t]
        /\ N[st.table] = Created(d)
    <3>1. /\ st.table \notin DOMAIN tables /\ DOMAIN N = DOMAIN tables \cup {st.table}
          /\ \A t \in DOMAIN tables : N[t] = tables[t]
          /\ N[st.table] = Created(st.object)
      <4> DEFINE M == Run(st, tables)
      <4>1. /\ st.table \notin DOMAIN tables /\ DOMAIN M = DOMAIN tables \cup {st.table}
            /\ \A t \in DOMAIN tables : M[t] = tables[t]
            /\ M[st.table] = Created(st.object)
            BY <1>6, RunCreates, Zenon
      <4>2. QED
            BY <4>1
    <3>2. st.object = d
          BY <1>1, <1>6
    <3> HIDE DEF N
    <3>3. QED
          BY <3>1, <3>2
  <2> HIDE DEF N
  <2>2. DOMAIN N[st.table].rows = {} /\ N[st.table].fks = {}
        BY <2>1, CreatedTable
  <2>3. Fit(N[st.table]) /\ Sorted(N[st.table]) /\ Passing(N[st.table]) /\ Leading(N, st.table)
        BY <2>2, NothingDuplicated DEF Fit, Sorted, Passing, Leading
  <2>4. ASSUME NEW t \in DOMAIN tables
        PROVE  Fit(N[t]) /\ Sorted(N[t]) /\ Passing(N[t]) /\ Leading(N, t)
    <3>1. ASSUME NEW k \in tables[t].fks PROVE Dangling(N, t, k.column, k) = {}
      <4>1. Goes(st, t, k.column) = k.column
            BY <2>1 DEF Goes
      <4>2. QED
            BY <1>3, <1>4, <4>1, OldKeysLead DEF N
    <3>2. QED
          BY <1>5, <2>1, <3>1 DEF Leading
  <2>5. Legal(N)
        BY <2>1, <2>3, <2>4, LegalIs
  <2>6. QED
        BY <2>5 DEF N
<1>7. CASE st.kind # "create"
  <2> DEFINE s == tables[st.table]
             s2 == N[st.table]
  <2>0. st.table \in DOMAIN tables /\ st.kind \in Kinds
        BY <1>2, <1>7
  <2>1. /\ DOMAIN N = DOMAIN tables
        /\ \A t \in DOMAIN tables \ {st.table} : N[t] = tables[t]
        /\ Becomes(st.kind, st.object, s, s2)
        BY <1>3, <2>0, RunBecomes
  <2>2. Meets(s, st.kind, st.object)
        BY <2>0, MeetsWhatApplies
  <2>3. Suits(d, s, st.kind, st.object) /\ (st.kind = "fk" => Leads(d, tables, st.object))
        BY <1>1, <2>0 DEF Clear
  <2>4. OfKind(d, st.kind, st.object) /\ (st.kind = "modify" => ~Wider(d, s, st.object))
        BY <1>1, <1>7 DEF Widens
  <2>5. IsTable(s) /\ IsTable(s2) /\ Named(s)
        BY <1>3, <2>0, <2>1 DEF Sound, Linked, Named
  <2>6. Fit(s) /\ Sorted(s) /\ Passing(s)
        BY <1>5, <2>0
  <2> HIDE DEF N, s, s2
  <2>7. Fit(s2)
        BY <1>1, <2>1, <2>2, <2>3, <2>4, <2>6, FitAfter
  <2>8. Sorted(s2)
        BY <1>1, <2>1, <2>2, <2>3, <2>4, <2>5, <2>6, SortedAfter
  <2>9. Passing(s2)
        BY <2>1, <2>2, <2>3, <2>5, <2>6, PassingAfter
  <2>10. ASSUME NEW t \in DOMAIN tables, NEW k \in N[t].fks
         PROVE  Dangling(N, t, k.column, k) = {}
    <3>1. CASE \E j \in tables[t].fks :
                  k.column = Goes(st, t, j.column) /\ k.table = j.table /\ k.target = j.target
          BY <1>3, <1>4, <3>1, OldKeysLead DEF N
    <3>2. CASE t = st.table /\ st.kind = "fk" /\ k = st.object
      <4>1. k \in ToSet(d.fks)
            BY <2>4, <3>2 DEF OfKind
      <4>2. k.column \in Columns(tables[d.name])
            BY <1>1, <2>2, <3>2 DEF Meets, s
      <4>3. QED
            BY <1>1, <1>3, <1>4, <2>0, <2>3, <3>2, <4>1, <4>2, NewKeyLeads DEF N
    <3>3. t # st.table => k \in tables[t].fks /\ Goes(st, t, k.column) = k.column
          BY <2>1 DEF Goes
    <3>4. t = st.table =>
             \/ st.kind = "fk" /\ k = st.object
             \/ \E j \in tables[t].fks :
                   k.column = Goes(st, t, j.column) /\ k.table = j.table /\ k.target = j.target
          BY <2>1 DEF Becomes, Binds, Goes, s, s2
    <3>5. QED
          BY <3>1, <3>2, <3>3, <3>4
  <2>11. \A t \in DOMAIN N : Fit(N[t]) /\ Sorted(N[t]) /\ Passing(N[t]) /\ Leading(N, t)
    <3>1. \A t \in DOMAIN tables : Leading(N, t)
          BY <2>10 DEF Leading
    <3>2. \A t \in DOMAIN tables : Fit(N[t]) /\ Sorted(N[t]) /\ Passing(N[t])
          BY <1>5, <2>1, <2>7, <2>8, <2>9 DEF s2
    <3>3. QED
          BY <2>1, <3>1, <3>2
  <2>12. QED
        BY <2>11, LegalIs DEF N
<1>8. QED
    BY <1>6, <1>7

(* And what else is left to run still finds rows that are fit for it.      *)
LEMMA LeadsAfter ==
    ASSUME Holdable(want), NEW tables, Unreferenced(want, tables), NEW st \in Universe,
           NEW other, Carries(st, tables, other),
           NEW e \in ToSet(want), e.name \in DOMAIN tables, NEW f \in ToSet(e.fks),
           Leads(e, tables, f),
           Present(e, tables[e.name], f.column) =>
              OldName(e, other[e.name], f.column)
                 = Goes(st, e.name, OldName(e, tables[e.name], f.column))
    PROVE  Leads(e, other, f)
<1>1. CASE DOMAIN tables[e.name].rows = {}
    BY <1>1 DEF Leads, Carries
<1>2. CASE DOMAIN tables[e.name].rows # {}
  <2> DEFINE c == OldName(e, tables[e.name], f.column)
  <2>1. /\ Present(e, tables[e.name], f.column)
        /\ f.table \in DOMAIN tables /\ f.target \in Columns(tables[f.table])
        /\ Dangling(tables, e.name, c, f) = {}
        BY <1>2 DEF Leads
  <2>2. Goes(st, f.table, f.target) = f.target
        BY TargetsStay
  <2>3. c \in Columns(tables[e.name])
        BY <2>1 DEF Present
  <2>4. OldName(e, other[e.name], f.column) = Goes(st, e.name, c)
        BY <2>1
  <2> HIDE DEF c
  <2>5. Dangling(other, e.name, Goes(st, e.name, c), f) = {}
        BY <2>1, <2>2, <2>3, DanglingStays
  <2>6. Present(e, other[e.name], f.column)
        BY <2>3, <2>4 DEF Present, Carries
  <2>7. f.table \in DOMAIN other /\ f.target \in Columns(other[f.table])
        BY <2>1, <2>2 DEF Carries
  <2>8. QED
        BY <2>4, <2>5, <2>6, <2>7 DEF Leads
<1>3. QED
    BY <1>1, <1>2

LEMMA CreatedSuits ==
    ASSUME NEW d, Accepted(d), NEW k, NEW y, OfKind(d, k, y)
    PROVE  Suits(d, Created(d), k, y)
<1> DEFINE s == Created(d)
<1>1. DOMAIN s.rows = {} /\ Columns(s) = FieldNames(d)
    BY CreatedTable
<1> HIDE DEF s
<1>2. \A c \in FieldNames(d) : Present(d, s, c)
    BY <1>1, OwnName DEF Present
<1>3. k = "modify" => y.name \in FieldNames(d)
    BY DEF OfKind, FieldNames
<1>4. k = "index" => \A c \in ToSet(y.columns) : c \in FieldNames(d)
  <2>1. ASSUME k = "index" PROVE y.columns \in Seq(FieldNames(d))
        BY <2>1 DEF OfKind, Accepted
  <2>2. QED
        BY <2>1, ElementOfSeq, LenProperties DEF ToSet
<1>5. k = "check" => y.column \in FieldNames(d)
    BY DEF OfKind, Accepted
<1>6. Duplicated(s.rows, OldNames(d, s, y.columns)) = {}
    BY <1>1, NothingDuplicated
<1>7. Suits(d, s, k, y)
    BY <1>1, <1>2, <1>3, <1>4, <1>5, <1>6 DEF Suits
<1>8. QED
    BY <1>7 DEF s

LEMMA ClearAfter ==
    ASSUME Holdable(want), NEW tables, Sound(tables), Lawful(tables), NEW st \in Universe,
           st.kind # "create" => st.table \in DOMAIN tables, OpenAt(st, tables),
           Applies(st, tables), Sound(Run(st, tables)),
           NEW o \in Universe, o # st, Clear(o, tables)
    PROVE  Clear(o, Run(st, tables))
<1> DEFINE N == Run(st, tables)
<1>1. PICK d \in ToSet(want) :
         /\ Accepted(d) /\ st.table = d.name
         /\ st.kind # "create" => OfKind(d, st.kind, st.object)
         /\ st.kind = "create" => st.object = d
    BY StatementIs
<1>2. PICK e \in ToSet(want) :
         /\ Accepted(e) /\ o.table = e.name
         /\ o.kind # "create" => OfKind(e, o.kind, o.object)
    BY StatementIs
<1>3. /\ st.kind \in Kinds \cup {"create"}
      /\ st = [kind |-> st.kind, table |-> st.table, object |-> st.object]
      /\ o = [kind |-> o.kind, table |-> o.table, object |-> o.object]
    BY StatementIs
<1>4. Linked(tables) /\ Unreferenced(want, tables)
    BY DEF Lawful
<1>5. Carries(st, tables, N)
    BY <1>3, <1>4, RunCarries
<1>6. \A a \in ToSet(want) : a.name = o.table => a = e
    BY <1>2, DefinitionsAre
<1>7. SUFFICES ASSUME e.name \in DOMAIN N, o.kind # "create"
               PROVE  /\ Suits(e, N[e.name], o.kind, o.object)
                      /\ o.kind = "fk" => Leads(e, N, o.object)
  <2>1. CASE o.kind = "create"
        BY <2>1 DEF Clear, Suits
  <2>2. CASE o.kind # "create"
    <3> HIDE DEF N
    <3>1. Clear(o, N)
          BY <1>6, <1>7, <2>2 DEF Clear
    <3>2. QED
          BY <3>1 DEF N
  <2>3. QED
        BY <2>1, <2>2
<1>8. OfKind(e, o.kind, o.object)
    BY <1>2, <1>7
<1>9. o.kind = "fk" => o.object \in ToSet(e.fks)
    BY <1>8 DEF OfKind
<1>10. CASE e.name \notin DOMAIN tables
  <2>1. st.kind = "create" /\ e = d /\ N[e.name] = Created(e)
    <3>1. st.kind = "create" /\ e.name = st.table
      <4>1. CASE st.kind = "create"
        <5>1. DOMAIN N = DOMAIN tables \cup {st.table}
              BY <4>1, RunCreates
        <5> HIDE DEF N
        <5>2. QED
              BY <1>7, <1>10, <4>1, <5>1
      <4>2. CASE st.kind # "create"
        <5>1. DOMAIN N = DOMAIN tables
              BY <1>3, <1>4, <4>2, RunBecomes
        <5> HIDE DEF N
        <5>2. QED
              BY <1>7, <1>10, <5>1
      <4>3. QED
            BY <4>1, <4>2
    <3>2. e = d
          BY <1>1, <3>1, DefinitionsAre
    <3>3. N[st.table] = Created(st.object)
          BY <3>1, RunCreates
    <3> HIDE DEF N
    <3>4. QED
          BY <1>1, <3>1, <3>2, <3>3
  <2> HIDE DEF N
  <2>2. Suits(e, N[e.name], o.kind, o.object)
        BY <1>2, <1>8, <2>1, CreatedSuits
  <2>3. DOMAIN N[e.name].rows = {}
        BY <2>1, CreatedTable
  <2>4. QED
        BY <2>2, <2>3 DEF Leads
<1>11. CASE e.name \in DOMAIN tables
  <2>1. /\ Suits(e, tables[e.name], o.kind, o.object)
        /\ o.kind = "fk" => Leads(e, tables, o.object)
        BY <1>2, <1>11 DEF Clear
  <2>2. CASE e.name # st.table
    <3>1. N[e.name] = tables[e.name]
      <4>1. CASE st.kind = "create"
            BY <1>11, <4>1, RunCreates
      <4>2. CASE st.kind # "create"
            BY <1>3, <1>4, <1>11, <2>2, <4>2, RunBecomes
      <4>3. QED
            BY <4>1, <4>2
    <3> HIDE DEF N
    <3>2. \A c : Goes(st, e.name, c) = c
          BY <2>2 DEF Goes
    <3>3. o.kind = "fk" => Leads(e, N, o.object)
      <4>1. SUFFICES ASSUME o.kind = "fk" PROVE Leads(e, N, o.object)
            OBVIOUS
      <4>2. OldName(e, N[e.name], o.object.column)
               = Goes(st, e.name, OldName(e, tables[e.name], o.object.column))
            BY <3>1, <3>2
      <4>3. QED
            BY <1>4, <1>5, <1>9, <1>11, <2>1, <4>1, <4>2, LeadsAfter DEF N
    <3>4. QED
          BY <2>1, <3>1, <3>3
  <2>3. CASE e.name = st.table
    <3> DEFINE s == tables[e.name]
               s2 == N[e.name]
    <3>1. st.kind # "create"
          BY <1>11, <2>3 DEF Applies
    <3>2. e = d /\ OfKind(e, st.kind, st.object)
          BY <1>1, <2>3, <3>1, DefinitionsAre
    <3>3. Becomes(st.kind, st.object, s, s2)
          BY <1>3, <1>4, <1>11, <2>3, <3>1, RunBecomes
    <3>4. IsTable(s) /\ IsTable(s2)
          BY <1>7, <1>11 DEF Sound
    <3>5. Open(s, st.kind, st.object)
          BY <1>11, <2>3 DEF OpenAt
    <3>6. ~(o.kind = st.kind /\ o.object = st.object)
          BY <1>2, <1>3, <2>3
    <3> HIDE DEF N, s, s2
    <3>7. Suits(e, s2, o.kind, o.object)
          BY <1>2, <1>8, <2>1, <3>2, <3>3, <3>4, <3>5, <3>6, SuitsAfter DEF s
    <3>8. o.kind = "fk" => Leads(e, N, o.object)
      <4>1. SUFFICES ASSUME o.kind = "fk" PROVE Leads(e, N, o.object)
            OBVIOUS
      <4>2. o.object.column \in FieldNames(e)
            BY <1>2, <1>9, <4>1 DEF Accepted
      <4>3. Present(e, s, o.object.column) =>
               OldName(e, s2, o.object.column)
                  = Moved(st.kind, st.object, OldName(e, s, o.object.column))
            BY <1>2, <3>2, <3>3, <3>4, <3>5, <4>2, CellsStay
      <4>4. \A c : Goes(st, e.name, c) = Moved(st.kind, st.object, c)
            BY <2>3 DEF Goes
      <4>5. Present(e, tables[e.name], o.object.column) =>
               OldName(e, N[e.name], o.object.column)
                  = Goes(st, e.name, OldName(e, tables[e.name], o.object.column))
            BY <4>3, <4>4 DEF s, s2
      <4>6. QED
            BY <1>4, <1>5, <1>9, <1>11, <2>1, <4>1, <4>5, LeadsAfter DEF N
    <3>9. QED
          BY <3>7, <3>8 DEF s2
  <2>4. QED
        BY <2>2, <2>3
<1>12. QED
    BY <1>10, <1>11

(* Keys and constraints go on naming what is there.                        *)
Keyring(tables, t) ==
    \A k \in tables[t].fks :
       /\ k.column \in Columns(tables[t])
       /\ k.table \in DOMAIN tables /\ k.target \in Columns(tables[k.table])

LEMMA LinkedIs ==
    ASSUME NEW tables
    PROVE  Linked(tables) <=>
              \A t \in DOMAIN tables :
                 /\ IsTable(tables[t]) /\ Rowed(tables[t]) /\ Named(tables[t])
                 /\ Keyring(tables, t)
BY DEF Linked, Rowed, Named, Keyring

LEMMA NamedAfter ==
    ASSUME NEW s, NEW s2, NEW kind, NEW x,
           Meets(s, kind, x), Named(s), Becomes(kind, x, s, s2)
    PROVE  Named(s2) /\ Rowed(s2)
<1>1. \A c \in Columns(s) : Moved(kind, x, c) \in Columns(s2)
    BY DEF Becomes, Reshapes
<1>2. ASSUME NEW j \in s2.indexes PROVE ToSet(j.columns) \subseteq Columns(s2)
  <2>1. CASE kind = "index" /\ j = x
    <3>1. \A c : Moved(kind, x, c) = c
          BY <2>1, StaysPut
    <3>2. ToSet(x.columns) \subseteq Columns(s)
          BY <2>1 DEF Meets
    <3>3. QED
          BY <1>1, <2>1, <3>1, <3>2
  <2>2. CASE \E i \in s.indexes : Follows(kind, x, i.columns, j.columns)
    <3>1. PICK i \in s.indexes : Follows(kind, x, i.columns, j.columns)
          BY <2>2
    <3>2. \A n \in DOMAIN i.columns : i.columns[n] \in Columns(s)
          BY DEF Named, ToSet
    <3>3. \A n \in DOMAIN j.columns : j.columns[n] \in Columns(s2)
          BY <1>1, <3>1, <3>2 DEF Follows
    <3>4. QED
          BY <3>3 DEF ToSet
  <2>3. QED
        BY <2>1, <2>2 DEF Becomes, Binds
<1>3. ASSUME NEW c \in s2.checks PROVE c.column \in Columns(s2)
  <2>1. (kind = "check" /\ c = x) \/ c \in s.checks
        BY DEF Becomes, Binds
  <2>2. c.column \in Columns(s)
        BY <2>1 DEF Meets, Named
  <2>3. Moved(kind, x, c.column) = c.column
        BY <2>1 DEF Meets, Moved
  <2>4. QED
        BY <1>1, <2>2, <2>3
<1>4. Rowed(s2)
    BY DEF Becomes, Fills, Rowed
<1>5. QED
    BY <1>2, <1>3, <1>4 DEF Named

LEMMA KeyringAfter ==
    ASSUME Holdable(want), NEW tables, Linked(tables), Unreferenced(want, tables),
           NEW st \in Universe, NEW other, Carries(st, tables, other),
           NEW t \in DOMAIN tables,
           \A k \in other[t].fks :
              \E j : /\ j \in tables[t].fks \/ \E d \in ToSet(want) : j \in ToSet(d.fks)
                     /\ j.column \in Columns(tables[t])
                     /\ j.table \in DOMAIN tables /\ j.target \in Columns(tables[j.table])
                     /\ k.column = Goes(st, t, j.column)
                     /\ k.table = j.table /\ k.target = j.target
    PROVE  Keyring(other, t)
<1> SUFFICES ASSUME NEW k \in other[t].fks
             PROVE  /\ k.column \in Columns(other[t])
                    /\ k.table \in DOMAIN other /\ k.target \in Columns(other[k.table])
    BY DEF Keyring
<1>1. PICK j : /\ j \in tables[t].fks \/ \E d \in ToSet(want) : j \in ToSet(d.fks)
               /\ j.column \in Columns(tables[t])
               /\ j.table \in DOMAIN tables /\ j.target \in Columns(tables[j.table])
               /\ k.column = Goes(st, t, j.column)
               /\ k.table = j.table /\ k.target = j.target
    OBVIOUS
<1>2. Goes(st, j.table, j.target) = j.target
    BY <1>1, TargetsStay
<1>3. \A u \in DOMAIN tables : \A c \in Columns(tables[u]) : Goes(st, u, c) \in Columns(other[u])
    BY DEF Carries
<1>4. DOMAIN tables \subseteq DOMAIN other
    BY DEF Carries
<1>5. QED
    BY <1>1, <1>2, <1>3, <1>4

LEMMA LinkedAfter ==
    ASSUME Holdable(want), NEW tables, Linked(tables), Unreferenced(want, tables),
           NEW st \in Universe, st.kind # "create" => st.table \in DOMAIN tables,
           Applies(st, tables), Sound(Run(st, tables)),
           st.kind = "fk" =>
              /\ st.object.table \in DOMAIN tables
              /\ st.object.target \in Columns(tables[st.object.table])
    PROVE  Linked(Run(st, tables))
<1> DEFINE N == Run(st, tables)
<1>1. PICK d \in ToSet(want) :
         /\ Accepted(d) /\ st.table = d.name
         /\ st.kind # "create" => OfKind(d, st.kind, st.object)
         /\ st.kind = "create" => st.object = d
    BY StatementIs
<1>2. st.kind \in Kinds \cup {"create"}
    BY StatementIs
<1>3. Carries(st, tables, N)
    BY <1>2, RunCarries
<1>4. \A t \in DOMAIN tables :
         IsTable(tables[t]) /\ Rowed(tables[t]) /\ Named(tables[t]) /\ Keyring(tables, t)
    BY LinkedIs
<1>5. \A t \in DOMAIN N : IsTable(N[t])
    BY DEF Sound
<1>6. ASSUME NEW t \in DOMAIN tables, t # st.table, N[t] = tables[t]
      PROVE  Rowed(N[t]) /\ Named(N[t]) /\ Keyring(N, t)
  <2> HIDE DEF N
  <2>1. \A c : Goes(st, t, c) = c
        BY <1>6 DEF Goes
  <2>2. Keyring(N, t)
    <3>1. \A k \in N[t].fks :
             /\ k \in tables[t].fks /\ k.column \in Columns(tables[t])
             /\ k.table \in DOMAIN tables /\ k.target \in Columns(tables[k.table])
             /\ k.column = Goes(st, t, k.column)
          BY <1>4, <1>6, <2>1 DEF Keyring
    <3>2. QED
          BY <1>3, <3>1, KeyringAfter
  <2>3. QED
        BY <1>4, <1>6, <2>2
<1>7. CASE st.kind = "create"
  <2>1. /\ DOMAIN N = DOMAIN tables \cup {st.table} /\ st.table \notin DOMAIN tables
        /\ \A t \in DOMAIN tables : N[t] = tables[t]
        /\ N[st.table] = Created(st.object)
        BY <1>7, RunCreates
  <2> HIDE DEF N
  <2>2. Rowed(N[st.table]) /\ Keyring(N, st.table)
        BY <2>1, CreatedTable DEF Rowed, Keyring
  <2>3. Named(N[st.table])
    <3>1. \A i \in ToSet(d.indexes) : ToSet(i.columns) \subseteq FieldNames(d)
      <4>1. \A i \in ToSet(d.indexes) : i.columns \in Seq(FieldNames(d))
            BY <1>1 DEF Accepted
      <4>2. QED
            BY <4>1, Members
    <3>2. \A c \in ToSet(d.checks) : c.column \in FieldNames(d)
          BY <1>1 DEF Accepted
    <3>3. QED
          BY <1>1, <1>7, <2>1, <3>1, <3>2, CreatedTable DEF Named
  <2>4. ASSUME NEW t \in DOMAIN N
        PROVE  IsTable(N[t]) /\ Rowed(N[t]) /\ Named(N[t]) /\ Keyring(N, t)
    <3>1. CASE t = st.table
          BY <1>5, <2>2, <2>3, <3>1
    <3>2. CASE t # st.table
          BY <1>5, <1>6, <2>1, <3>2
    <3>3. QED
          BY <3>1, <3>2
  <2>5. Linked(N)
        BY <2>4, LinkedIs
  <2>6. QED
        BY <2>5 DEF N
<1>8. CASE st.kind # "create"
  <2> DEFINE s == tables[st.table]
             s2 == N[st.table]
  <2>1. /\ DOMAIN N = DOMAIN tables
        /\ \A t \in DOMAIN tables \ {st.table} : N[t] = tables[t]
        /\ Becomes(st.kind, st.object, s, s2)
        BY <1>2, <1>8, RunBecomes
  <2>2. Meets(s, st.kind, st.object)
        BY <1>2, <1>8, MeetsWhatApplies
  <2> HIDE DEF N, s, s2
  <2>3. st.table \in DOMAIN tables
        BY <1>8
  <2>4. Named(s2) /\ Rowed(s2)
        BY <1>4, <2>1, <2>2, <2>3, NamedAfter DEF s
  <2>5. \A c : Goes(st, st.table, c) = Moved(st.kind, st.object, c)
        BY DEF Goes
  <2>6. Keyring(N, st.table)
    <3>1. ASSUME NEW k \in s2.fks
          PROVE  \E j : /\ j \in s.fks \/ \E e \in ToSet(want) : j \in ToSet(e.fks)
                        /\ j.column \in Columns(s)
                        /\ j.table \in DOMAIN tables /\ j.target \in Columns(tables[j.table])
                        /\ k.column = Goes(st, st.table, j.column)
                        /\ k.table = j.table /\ k.target = j.target
      <4>1. CASE st.kind = "fk" /\ k = st.object
        <5>1. k \in ToSet(d.fks)
              BY <1>1, <4>1 DEF OfKind
        <5>2. k.column \in Columns(s)
              BY <2>2, <4>1 DEF Meets
        <5>3. k.column = Goes(st, st.table, k.column)
              BY <2>5, <4>1, StaysPut
        <5>4. QED
              BY <4>1, <5>1, <5>2, <5>3
      <4>2. CASE \E j \in s.fks : /\ k.column = Moved(st.kind, st.object, j.column)
                                  /\ k.table = j.table /\ k.target = j.target
            BY <1>4, <2>3, <2>5, <4>2 DEF Keyring, s
      <4>3. QED
            BY <2>1, <4>1, <4>2 DEF Becomes, Binds
    <3>2. QED
          BY <1>3, <2>3, <3>1, KeyringAfter DEF s, s2
  <2>7. ASSUME NEW t \in DOMAIN N
        PROVE  IsTable(N[t]) /\ Rowed(N[t]) /\ Named(N[t]) /\ Keyring(N, t)
    <3>1. CASE t = st.table
          BY <1>5, <2>4, <2>6, <3>1 DEF s2
    <3>2. CASE t # st.table
          BY <1>5, <1>6, <2>1, <3>2
    <3>3. QED
          BY <3>1, <3>2
  <2>8. Linked(N)
        BY <2>7, LinkedIs
  <2>9. QED
        BY <2>8 DEF N
<1>9. QED
    BY <1>7, <1>8

LEMMA UnreferencedAfter ==
    ASSUME Holdable(want), NEW tables, Linked(tables), Unreferenced(want, tables),
           NEW st \in Universe, st.kind # "create" => st.table \in DOMAIN tables,
           Applies(st, tables)
    PROVE  Unreferenced(want, Run(st, tables))
<1> DEFINE N == Run(st, tables)
<1>1. PICK d \in ToSet(want) :
         /\ Accepted(d) /\ st.table = d.name
         /\ st.kind # "create" => OfKind(d, st.kind, st.object)
    BY StatementIs
<1>2. st.kind \in Kinds \cup {"create"}
    BY StatementIs
<1>3. ASSUME NEW t \in DOMAIN N, NEW k \in N[t].fks
      PROVE  \/ \E e \in ToSet(want) : k \in ToSet(e.fks)
             \/ t \in DOMAIN tables /\ \E j \in tables[t].fks : k.table = j.table /\ k.target = j.target
  <2>1. CASE st.kind = "create"
    <3>1. /\ DOMAIN N = DOMAIN tables \cup {st.table}
          /\ \A u \in DOMAIN tables : N[u] = tables[u]
          /\ N[st.table] = Created(st.object)
          BY <2>1, RunCreates
    <3> HIDE DEF N
    <3>2. N[st.table].fks = {}
          BY <3>1, CreatedTable
    <3>3. QED
          BY <1>3, <3>1, <3>2
  <2>2. CASE st.kind # "create"
    <3>1. /\ DOMAIN N = DOMAIN tables
          /\ \A u \in DOMAIN tables \ {st.table} : N[u] = tables[u]
          /\ Becomes(st.kind, st.object, tables[st.table], N[st.table])
          BY <1>2, <2>2, RunBecomes
    <3> HIDE DEF N
    <3>2. CASE t # st.table
          BY <1>3, <3>1, <3>2
    <3>3. CASE t = st.table
      <4>1. \/ st.kind = "fk" /\ k = st.object
            \/ \E j \in tables[t].fks : k.table = j.table /\ k.target = j.target
            BY <1>3, <3>1, <3>3 DEF Becomes, Binds
      <4>2. st.kind = "fk" => st.object \in ToSet(d.fks)
            BY <1>1 DEF OfKind
      <4>3. QED
            BY <1>3, <3>1, <4>1, <4>2
    <3>4. QED
          BY <3>2, <3>3
  <2>3. QED
        BY <2>1, <2>2
<1> HIDE DEF N
<1>4. ASSUME NEW e \in ToSet(want), NEW t \in DOMAIN N, NEW f \in Fields(e),
             NEW k \in N[t].fks, k.table = e.name
      PROVE  k.target # f.from
  <2>1. CASE \E g \in ToSet(want) : k \in ToSet(g.fks)
    <3>1. PICK b \in ToSet(want) : b.name = k.table /\ k.target \in FieldNames(b)
          BY <2>1, TargetsThere
    <3>2. b = e /\ Accepted(e)
          BY <1>4, <3>1, DefinitionsAre
    <3>3. \A g \in Fields(e) : f.from # g.name
          BY <3>2 DEF Accepted
    <3>4. QED
          BY <3>1, <3>2, <3>3 DEF FieldNames
  <2>2. CASE t \in DOMAIN tables
             /\ \E j \in tables[t].fks : k.table = j.table /\ k.target = j.target
        BY <1>4, <2>2 DEF Unreferenced
  <2>3. QED
        BY <1>3, <1>4, <2>1, <2>2
<1>5. QED
    BY <1>4 DEF Unreferenced, N

-----------------------------------------------------------------------------
(* The preflight.  What the scans of one table find nothing of.            *)
LEMMA FoundIs ==
    ASSUME NEW d, NEW tables, NEW kind, NEW columns, NEW x, NEW c, columns[1] = c
    PROVE  LET scan == Scan(d, kind, columns, x)
               rows == tables[d.name].rows
           IN  /\ kind = "null" =>
                     Found(scan, tables) = {r \in DOMAIN rows : rows[r][c] = Null}
               /\ kind = "value" =>
                     Found(scan, tables)
                        = {r \in DOMAIN rows : rows[r][c] \notin Values(x.type) \cup {Null}}
               /\ kind = "unique" => Found(scan, tables) = Duplicated(rows, columns)
               /\ kind = "check" =>
                     Found(scan, tables) = {r \in DOMAIN rows : rows[r][c] = x.bad}
               /\ kind = "fk" => Found(scan, tables) = Dangling(tables, d.name, c, x)
<1> DEFINE scan == Scan(d, kind, columns, x)
           rows == tables[d.name].rows
<1>1. /\ scan.kind = kind /\ scan.table = d.name /\ scan.columns = columns /\ scan.object = x
    BY DEF Scan
<1> HIDE DEF scan
<1>2. kind = "null" => Found(scan, tables) = {r \in DOMAIN rows : rows[r][c] = Null}
    BY <1>1 DEF Found
<1>3. kind = "value" =>
         Found(scan, tables)
            = {r \in DOMAIN rows : rows[r][c] \notin Values(x.type) \cup {Null}}
    BY <1>1 DEF Found
<1>4. kind = "unique" => Found(scan, tables) = Duplicated(rows, columns)
    BY <1>1 DEF Found
<1>5. kind = "check" => Found(scan, tables) = {r \in DOMAIN rows : rows[r][c] = x.bad}
    BY <1>1 DEF Found
<1>6. kind = "fk" => Found(scan, tables) = Dangling(tables, d.name, c, x)
    BY <1>1 DEF Found
<1>7. QED
    BY <1>2, <1>3, <1>4, <1>5, <1>6 DEF scan

LEMMA ReadableIs ==
    ASSUME NEW d, NEW tables, NEW kind, NEW columns, NEW x,
           Readable(Scan(d, kind, columns, x), tables)
    PROVE  /\ ToSet(columns) \subseteq Columns(tables[d.name])
           /\ kind = "fk" => x.table \in DOMAIN tables /\ x.target \in Columns(tables[x.table])
<1> DEFINE scan == Scan(d, kind, columns, x)
<1>1. /\ scan.kind = kind /\ scan.table = d.name /\ scan.columns = columns /\ scan.object = x
    BY DEF Scan
<1> HIDE DEF scan
<1>2. Readable(scan, tables)
    BY DEF scan
<1>3. QED
    BY <1>1, <1>2 DEF Readable

LEMMA NewObjectsAre ==
    ASSUME NEW d, Accepted(d), NEW s
    PROVE  /\ ToSet(NewIndexes(d, s)) = {i \in ToSet(d.indexes) : ~Covered(d, s, i)}
           /\ ToSet(NewChecks(d, s)) = {c \in ToSet(d.checks) : ~Checked(s, c)}
           /\ ToSet(NewKeys(d, s)) = {f \in ToSet(d.fks) : ~Referenced(d, s, f)}
<1>1. ASSUME NEW T, NEW seq \in Seq(T), NEW S, S \subseteq ToSet(seq)
      PROVE  ToSet(Chosen(seq, S)) = S
  <2>1. ToSet(Chosen(seq, S)) = ToSet(seq) \cap S
        BY ChosenIs
  <2>2. QED
        BY <1>1, <2>1
<1>2. /\ d.indexes \in Seq(ToSet(d.indexes)) /\ d.checks \in Seq(ToSet(d.checks))
      /\ d.fks \in Seq(ToSet(d.fks))
    BY AcceptedLists
<1>3. ToSet(NewIndexes(d, s)) = {i \in ToSet(d.indexes) : ~Covered(d, s, i)}
  <2> DEFINE S == {i \in ToSet(d.indexes) : ~Covered(d, s, i)}
  <2>1. S \subseteq ToSet(d.indexes) /\ NewIndexes(d, s) = Chosen(d.indexes, S)
        BY DEF NewIndexes
  <2> HIDE DEF S
  <2>2. ToSet(NewIndexes(d, s)) = S
        BY <1>1, <1>2, <2>1
  <2>3. QED
        BY <2>2 DEF S
<1>4. ToSet(NewChecks(d, s)) = {c \in ToSet(d.checks) : ~Checked(s, c)}
  <2> DEFINE S == {c \in ToSet(d.checks) : ~Checked(s, c)}
  <2>1. S \subseteq ToSet(d.checks) /\ NewChecks(d, s) = Chosen(d.checks, S)
        BY DEF NewChecks
  <2> HIDE DEF S
  <2>2. ToSet(NewChecks(d, s)) = S
        BY <1>1, <1>2, <2>1
  <2>3. QED
        BY <2>2 DEF S
<1>5. ToSet(NewKeys(d, s)) = {f \in ToSet(d.fks) : ~Referenced(d, s, f)}
  <2> DEFINE S == {f \in ToSet(d.fks) : ~Referenced(d, s, f)}
  <2>1. S \subseteq ToSet(d.fks) /\ NewKeys(d, s) = Chosen(d.fks, S)
        BY DEF NewKeys
  <2> HIDE DEF S
  <2>2. ToSet(NewKeys(d, s)) = S
        BY <1>1, <1>2, <2>1
  <2>3. QED
        BY <2>2 DEF S
<1>6. QED
    BY <1>3, <1>4, <1>5

(* Scanned and found clean, one definition against its table.              *)
Clean(d, tables) ==
    \A scan \in Scans(d, tables) : Readable(scan, tables) /\ Found(scan, tables) = {}

LEMMA ModifiedClean ==
    ASSUME NEW d, Accepted(d), NEW tables, d.name \in DOMAIN tables,
           IsTable(tables[d.name]), Fit(tables[d.name]), Clean(d, tables),
           NEW x \in Kept(d, tables[d.name])
    PROVE  Suits(d, tables[d.name], "modify", x)
<1> DEFINE s == tables[d.name]
           c == OldName(d, s, x.name)
<1>1. x \in Fields(d) /\ c \in Columns(s)
    BY KeptNames DEF Kept
<1>2. x.required \in BOOLEAN
    BY <1>1 DEF Accepted
<1>3. Tightens(d, s, x) => \A r \in DOMAIN s.rows : s.rows[r][c] # Null
  <2>1. SUFFICES ASSUME Tightens(d, s, x) PROVE \A r \in DOMAIN s.rows : s.rows[r][c] # Null
        OBVIOUS
  <2> DEFINE scan == Scan(d, "null", <<c>>, x)
  <2>2. scan \in Scans(d, tables)
    <3>1. scan \in NullScans(d, s)
          BY <2>1 DEF NullScans
    <3> HIDE DEF scan
    <3>2. QED
          BY <3>1 DEF Scans
  <2>3. Found(scan, tables) = {}
        BY <2>2 DEF Clean
  <2>4. Found(scan, tables) = {r \in DOMAIN s.rows : s.rows[r][c] = Null}
    <3> HIDE DEF c
    <3>1. QED
          BY FoundIs
  <2> HIDE DEF scan
  <2>5. QED
        BY <2>3, <2>4
<1>4. TypeDiffers(d, s, x) =>
         \A r \in DOMAIN s.rows : s.rows[r][c] \in Values(x.type) \cup {Null}
  <2>1. SUFFICES ASSUME TypeDiffers(d, s, x)
                 PROVE  \A r \in DOMAIN s.rows : s.rows[r][c] \in Values(x.type) \cup {Null}
        OBVIOUS
  <2> DEFINE scan == Scan(d, "value", <<c>>, x)
  <2>2. scan \in Scans(d, tables)
    <3>1. scan \in ValueScans(d, s)
          BY <2>1 DEF ValueScans
    <3> HIDE DEF scan
    <3>2. QED
          BY <3>1 DEF Scans
  <2>3. Found(scan, tables) = {}
        BY <2>2 DEF Clean
  <2>4. Found(scan, tables)
           = {r \in DOMAIN s.rows : s.rows[r][c] \notin Values(x.type) \cup {Null}}
    <3> HIDE DEF c
    <3>1. QED
          BY FoundIs
  <2> HIDE DEF scan
  <2>5. QED
        BY <2>3, <2>4
<1> HIDE DEF c
<1>5. Column(d, s, x) = s.columns[c]
    BY DEF Column, c
<1> HIDE DEF s
<1>6. Fit(s)
    BY DEF s
<1>7. ASSUME ~Wider(d, s, x), NEW r \in DOMAIN s.rows
      PROVE  Fits(s.rows[r][c], ColumnOf(x))
  <2> DEFINE v == s.rows[r][c]
  <2>1. Fits(v, s.columns[c])
        BY <1>1, <1>6, <1>7 DEF Fit
  <2>2. ColumnOf(x).nullable = ~x.required /\ ColumnOf(x).type = x.type
        BY DEF ColumnOf
  <2>3. CASE v = Null
    <3>1. s.columns[c].nullable
          BY <2>1, <2>3 DEF Fits
    <3>2. ~Tightens(d, s, x)
          BY <1>3, <1>7, <2>3
    <3>3. ~x.required
          BY <1>5, <3>1, <3>2 DEF Tightens
    <3>4. QED
          BY <2>2, <2>3, <3>3 DEF Fits
  <2>4. CASE v # Null
    <3>1. v \in Values(x.type)
      <4>1. CASE TypeDiffers(d, s, x)
            BY <1>4, <1>7, <2>4, <4>1
      <4>2. CASE ~TypeDiffers(d, s, x)
        <5>1. s.columns[c].type = x.type
              BY <1>5, <1>7, <4>2 DEF TypeDiffers, Wider
        <5>2. QED
              BY <2>1, <2>4, <5>1 DEF Fits
      <4>3. QED
            BY <4>1, <4>2
    <3>2. QED
          BY <2>2, <2>4, <3>1 DEF Fits
  <2>5. QED
        BY <2>3, <2>4
<1>8. Present(d, s, x.name)
    BY <1>1 DEF Present, c
<1>9. Wider(d, s, x) \/ \A r \in DOMAIN s.rows : Fits(Cell(d, s, r, x.name), ColumnOf(x))
    BY <1>7 DEF Cell, c
<1>10. QED
    BY <1>8, <1>9 DEF Suits, s

LEMMA IndexClean ==
    ASSUME NEW d, Accepted(d), NEW tables, d.name \in DOMAIN tables, Clean(d, tables),
           NEW x \in ToSet(d.indexes), ~Covered(d, tables[d.name], x),
           ~AllNew(d, tables[d.name], x)
    PROVE  Suits(d, tables[d.name], "index", x)
<1> SUFFICES ASSUME x.unique PROVE Suits(d, tables[d.name], "index", x)
    BY DEF Suits
<1> DEFINE s == tables[d.name]
           columns == OldNames(d, s, x.columns)
           scan == Scan(d, "unique", columns, x)
<1>1. scan \in Scans(d, tables)
  <2>1. x \in ToSet(NewIndexes(d, s))
        BY NewObjectsAre
  <2>2. scan \in UniqueScans(d, s)
        BY <2>1 DEF UniqueScans
  <2> HIDE DEF scan
  <2>3. QED
        BY <2>2 DEF Scans
<1>2. Readable(scan, tables) /\ Found(scan, tables) = {}
    BY <1>1 DEF Clean
<1> HIDE DEF columns
<1>3. Found(scan, tables) = Duplicated(s.rows, columns)
    BY FoundIs
<1>4. ToSet(columns) \subseteq Columns(s)
    BY <1>2, ReadableIs
<1>5. \A c \in ToSet(x.columns) : Present(d, s, c)
  <2> SUFFICES ASSUME NEW n \in DOMAIN x.columns PROVE Present(d, s, x.columns[n])
        BY DEF ToSet
  <2>1. DOMAIN columns = DOMAIN x.columns /\ columns[n] = OldName(d, s, x.columns[n])
        BY DEF columns, OldNames
  <2>2. columns[n] \in ToSet(columns)
        BY <2>1 DEF ToSet
  <2>3. QED
        BY <1>4, <2>1, <2>2 DEF Present
<1> HIDE DEF scan, s
<1>6. Suits(d, s, "index", x)
    BY <1>2, <1>3, <1>5 DEF Suits, columns
<1>7. QED
    BY <1>6 DEF s

LEMMA CheckClean ==
    ASSUME NEW d, Accepted(d), NEW tables, d.name \in DOMAIN tables, Clean(d, tables),
           NEW x \in ToSet(d.checks), ~Checked(tables[d.name], x)
    PROVE  Suits(d, tables[d.name], "check", x)
<1> DEFINE s == tables[d.name]
           c == OldName(d, s, x.column)
           scan == Scan(d, "check", <<c>>, x)
<1>1. scan \in Scans(d, tables)
  <2>1. x \in ToSet(NewChecks(d, s))
        BY NewObjectsAre
  <2>2. scan \in CheckScans(d, s)
        BY <2>1 DEF CheckScans
  <2> HIDE DEF scan
  <2>3. QED
        BY <2>2 DEF Scans
<1>2. Readable(scan, tables) /\ Found(scan, tables) = {}
    BY <1>1 DEF Clean
<1> HIDE DEF c
<1>3. Found(scan, tables) = {r \in DOMAIN s.rows : s.rows[r][c] = x.bad}
    BY FoundIs
<1>4. ToSet(<<c>>) \subseteq Columns(s)
    BY <1>2, ReadableIs
<1> HIDE DEF scan, s
<1>5. c \in Columns(s)
    BY <1>4 DEF ToSet
<1>6. \A r \in DOMAIN s.rows : s.rows[r][c] # x.bad
    BY <1>2, <1>3
<1>7. Suits(d, s, "check", x)
    BY <1>5, <1>6 DEF Suits, Present, Cell, c
<1>8. QED
    BY <1>7 DEF s

LEMMA KeyClean ==
    ASSUME NEW d, Accepted(d), NEW tables, d.name \in DOMAIN tables, Clean(d, tables),
           NEW x \in ToSet(d.fks), ~Referenced(d, tables[d.name], x)
    PROVE  Leads(d, tables, x)
<1> DEFINE s == tables[d.name]
           c == OldName(d, s, x.column)
           scan == Scan(d, "fk", <<c>>, x)
<1>1. scan \in Scans(d, tables)
  <2>1. x \in ToSet(NewKeys(d, s))
        BY NewObjectsAre
  <2>2. scan \in KeyScans(d, s)
        BY <2>1 DEF KeyScans
  <2> HIDE DEF scan
  <2>3. QED
        BY <2>2 DEF Scans
<1>2. Readable(scan, tables) /\ Found(scan, tables) = {}
    BY <1>1 DEF Clean
<1> HIDE DEF c
<1>3. Found(scan, tables) = Dangling(tables, d.name, c, x)
    BY FoundIs
<1>4. /\ ToSet(<<c>>) \subseteq Columns(s)
      /\ x.table \in DOMAIN tables /\ x.target \in Columns(tables[x.table])
    BY <1>2, ReadableIs
<1> HIDE DEF scan
<1>5. c \in Columns(s)
    BY <1>4 DEF ToSet
<1>6. QED
    BY <1>2, <1>3, <1>4, <1>5 DEF Leads, Present, c

LEMMA CleanSuits ==
    ASSUME NEW d, Accepted(d), NEW tables, d.name \in DOMAIN tables,
           IsTable(tables[d.name]), Fit(tables[d.name]),
           ~Refuses(d, tables[d.name]), Clean(d, tables),
           NEW kind, NEW x, Needs(d, tables[d.name], kind, x)
    PROVE  \/ kind = "index" /\ AllNew(d, tables[d.name], x)
           \/ /\ Suits(d, tables[d.name], kind, x)
              /\ kind = "fk" => Leads(d, tables, x)
<1> DEFINE s == tables[d.name]
<1>1. CASE kind \in {"rename", "pk"}
    BY <1>1 DEF Suits
<1>2. CASE kind = "add"
  <2>1. x \in Missing(d, s)
        BY <1>2 DEF Needs
  <2>2. s.rows = << >> \/ ~x.required \/ x.default # None
        BY <2>1 DEF Refuses
  <2>3. s.rows = << >> => DOMAIN s.rows = {}
        OBVIOUS
  <2> HIDE DEF s
  <2>4. Suits(d, s, "add", x)
        BY <2>2, <2>3 DEF Suits
  <2>5. QED
        BY <1>2, <2>4 DEF s
<1>3. CASE kind = "modify"
  <2>1. x \in Kept(d, s)
        BY <1>3 DEF Needs
  <2>2. QED
        BY <1>3, <2>1, ModifiedClean
<1>4. CASE kind = "index"
    BY <1>4, IndexClean DEF Needs
<1>5. CASE kind = "check"
    BY <1>5, CheckClean DEF Needs
<1>6. CASE kind = "fk"
  <2>1. Leads(d, tables, x)
        BY <1>6, KeyClean DEF Needs
  <2>2. QED
        BY <1>6, <2>1 DEF Suits
<1>7. QED
    BY <1>1, <1>2, <1>3, <1>4, <1>5, <1>6 DEF Needs

(* After clean scans the rows are fit for the whole plan.                  *)
LEMMA CleanScans ==
    ASSUME Holdable(want), NEW tables, Lawful(tables), ~Refused(tables),
           \A scan \in AllScans(tables) : Readable(scan, tables) /\ Found(scan, tables) = {},
           NEW o \in Due(tables)
    PROVE  Unscanned(FullPlan(tables), o) \/ Clear(o, tables)
<1>0. PICK d \in ToSet(want) : \E kind, x : o = Of(d, kind, x) /\ Wanted(d, tables, kind, x)
    BY DueIs
<1>1. PICK kind, x : o = Of(d, kind, x) /\ Wanted(d, tables, kind, x)
    BY <1>0
<1>2. o.kind = kind /\ o.table = d.name /\ o.object = x
    BY <1>1 DEF Of
<1>3. /\ Accepted(d)
      /\ \A e \in ToSet(want) : e.name = d.name => e = d
    BY DefinitionsAre
<1>4. CASE d.name \notin DOMAIN tables
    BY <1>2, <1>4 DEF Clear
<1>5. CASE d.name \in DOMAIN tables
  <2>1. IsTable(tables[d.name]) /\ Fit(tables[d.name])
        BY <1>5, LegalIs DEF Lawful, Linked
  <2>2. ~Refuses(d, tables[d.name])
        BY <1>5 DEF Refused
  <2>3. Clean(d, tables)
        BY DEF Clean, AllScans
  <2>4. Needs(d, tables[d.name], kind, x)
        BY <1>1, <1>5 DEF Wanted
  <2>5. CASE kind = "index" /\ AllNew(d, tables[d.name], x)
    <3>1. ASSUME NEW f \in Missing(d, tables[d.name])
          PROVE  f.name \in Adding(FullPlan(tables), d.name)
      <4> DEFINE a == Of(d, "add", f)
      <4>1. Wanted(d, tables, "add", f)
            BY <1>5 DEF Wanted, Needs
      <4>2. a \in Due(tables)
            BY <4>1, DueIs
      <4>3. a \in ToSet(FullPlan(tables))
        <5> HIDE DEF a
        <5>1. QED
              BY <4>2, FullPlanIs
      <4>4. a.kind = "add" /\ a.table = d.name /\ a.object = f
            BY DEF Of
      <4> HIDE DEF a
      <4>5. QED
            BY <4>3, <4>4 DEF Adding
    <3>2. ToSet(x.columns) \subseteq Adding(FullPlan(tables), d.name)
          BY <2>5, <3>1 DEF AllNew
    <3>3. QED
          BY <1>2, <2>5, <3>2 DEF Unscanned
  <2>6. CASE /\ Suits(d, tables[d.name], kind, x)
             /\ kind = "fk" => Leads(d, tables, x)
        BY <1>2, <1>3, <2>6 DEF Clear
  <2>7. QED
        BY <1>3, <1>5, <2>1, <2>2, <2>3, <2>4, <2>5, <2>6, CleanSuits
<1>6. QED
    BY <1>4, <1>5

(* What the application writes is legal, and its rows keep their columns.  *)
LEMMA ApplicationLawful ==
    ASSUME Lawful(db), Application, want' = want
    PROVE  Lawful(db')
<1>1. PICK t \in DOMAIN db :
         \/ Insert(t)
         \/ \E r \in DOMAIN db[t].rows, c \in Columns(db[t]),
               v \in {Null, "1", "2", "a", "b", "long"} : Write(t, r, c, v)
    BY DEF Application
<1>2. Legal(db') /\ \E rows : /\ db' = [db EXCEPT ![t] = [db[t] EXCEPT !.rows = rows]]
                              /\ \A q \in DOMAIN rows : DOMAIN rows[q] = Columns(db[t])
  <2>1. CASE Insert(t)
    <3>1. PICK row \in [Columns(db[t]) -> {Null, "1", "a"}] :
             db' = [db EXCEPT ![t].rows = <<row>>]
          BY <2>1 DEF Insert
    <3>2. db' = [db EXCEPT ![t] = [db[t] EXCEPT !.rows = <<row>>]]
          BY <3>1
    <3>3. \A q \in DOMAIN <<row>> : DOMAIN <<row>>[q] = Columns(db[t])
          BY <3>1
    <3>4. Legal(db')
          BY <2>1 DEF Insert
    <3>5. QED
          BY <3>2, <3>3, <3>4
  <2>2. CASE ~Insert(t)
    <3>1. PICK r \in DOMAIN db[t].rows : \E c \in Columns(db[t]) : \E v : Write(t, r, c, v)
          BY <1>1, <2>2
    <3>2. PICK c \in Columns(db[t]) : \E v : Write(t, r, c, v)
          BY <3>1
    <3>3. PICK v : Write(t, r, c, v)
          BY <3>2
    <3> DEFINE old == db[t].rows
               row == [old[r] EXCEPT ![c] = v]
               rows == [old EXCEPT ![r] = row]
    <3>4. db' = [db EXCEPT ![t] = [db[t] EXCEPT !.rows = rows]] /\ Legal(db')
          BY <3>3 DEF Write
    <3>5. \A q \in DOMAIN old : DOMAIN old[q] = Columns(db[t])
          BY DEF Lawful, Linked
    <3>6. DOMAIN row = DOMAIN old[r]
          OBVIOUS
    <3> HIDE DEF row
    <3>7. DOMAIN rows = DOMAIN old /\ \A q \in DOMAIN old : rows[q] = row \/ rows[q] = old[q]
          OBVIOUS
    <3> HIDE DEF rows
    <3>8. \A q \in DOMAIN rows : DOMAIN rows[q] = Columns(db[t])
          BY <3>5, <3>6, <3>7
    <3>9. QED
          BY <3>4, <3>8
  <2>3. QED
        BY <2>1, <2>2
<1>3. PICK rows : /\ db' = [db EXCEPT ![t] = [db[t] EXCEPT !.rows = rows]]
                  /\ \A q \in DOMAIN rows : DOMAIN rows[q] = Columns(db[t])
    BY <1>2
<1> DEFINE s2 == [db[t] EXCEPT !.rows = rows]
<1>4. IsTable(s2) /\ Alike(db[t], s2) /\ s2.rows = rows
  <2>1. IsTable(db[t])
        BY DEF Lawful, Linked
  <2>2. s2.rows = rows
        BY <2>1 DEF IsTable
  <2>3. QED
        BY <2>1, <2>2, RowsAlike
<1>5. db' = [db EXCEPT ![t] = s2]
    BY <1>3
<1> HIDE DEF s2
<1>6. /\ DOMAIN db' = DOMAIN db
      /\ \A u \in DOMAIN db :
            IsTable(db[u]) /\ IsTable(db'[u]) /\ Alike(db[u], db'[u]) /\ Rowed(db'[u])
  <2>1. DOMAIN db' = DOMAIN db /\ \A u \in DOMAIN db : db'[u] = IF u = t THEN s2 ELSE db[u]
        BY <1>5
  <2>2. \A u \in DOMAIN db : IsTable(db[u]) /\ Alike(db[u], db[u]) /\ Rowed(db[u])
        BY DEF Lawful, Linked, Alike, Rowed
  <2>3. Rowed(s2)
        BY <1>3, <1>4 DEF Rowed, Alike, Columns
  <2>4. QED
        BY <1>4, <2>1, <2>2, <2>3
<1>7. \A u \in DOMAIN db : /\ Columns(db'[u]) = Columns(db[u]) /\ db'[u].fks = db[u].fks
                           /\ db'[u].indexes = db[u].indexes /\ db'[u].checks = db[u].checks
    BY <1>6 DEF Alike, Columns
<1>8. \A u \in DOMAIN db : Named(db[u]) /\ Keyring(db, u)
    BY LinkedIs DEF Lawful
<1>9. \A u \in DOMAIN db' : Named(db'[u]) /\ Keyring(db', u)
  <2> SUFFICES ASSUME NEW u \in DOMAIN db' PROVE Named(db'[u]) /\ Keyring(db', u)
        OBVIOUS
  <2>1. Named(db'[u])
        BY <1>6, <1>7, <1>8 DEF Named
  <2>2. Keyring(db', u)
        BY <1>6, <1>7, <1>8 DEF Keyring
  <2>3. QED
        BY <2>1, <2>2
<1>10. Linked(db')
    BY <1>6, <1>9, LinkedIs
<1>11. Unreferenced(want, db')
    BY <1>6, <1>7 DEF Lawful, Unreferenced
<1>12. QED
    BY <1>2, <1>10, <1>11 DEF Lawful

LEMMA OutOfScans ==
    ASSUME NEW s, s.pc \notin {"scan", "ddl"}, NEW tables
    PROVE  Undisturbed(s, tables)
BY DEF Undisturbed

(* While the one instance that works moves, the others have nothing to     *)
(* lose.                                                                   *)
LEMMA OthersUndisturbed ==
    ASSUME PlanInv, NEW i \in Instance, Working(i), NEW j \in Instance \ {i}, NEW tables
    PROVE  Undisturbed(sync[j], tables)
BY OutOfScans DEF PlanInv, SyncInv, OneSynchroniser, Working

LEMMA ExecuteData ==
    ASSUME DataInv, NEW i \in Instance, Execute(i)
    PROVE  Lawful(db') /\ \A j \in Instance : Undisturbed(sync'[j], db')
<1> DEFINE s == sync[i]
           s2 == [s EXCEPT !.next = @ + 1]
           st == s.plan[s.next]
<1>1. /\ s.pc = "ddl" /\ s.next <= Len(s.plan)
      /\ Applies(st, db) /\ db' = Run(st, db) /\ Legal(db') /\ want' = want
    BY DEF Execute, Pending, Statement, quiet
<1>2. Sound(db) /\ Planned(s, db) /\ Holdable(want) /\ Lawful(db)
    BY <1>1 DEF DataInv, PlanInv, OnTrack
<1>3. s2 = Locals("ddl", s.plan, s.next + 1, s.scans, s.result, s.stale)
    BY <1>1 DEF DataInv, PlanInv, SyncInv, Shaped, Locals
<1>4. sync' = [sync EXCEPT ![i] = s2]
    BY DEF Execute
<1>5. Undisturbed(s, db)
    BY DEF DataInv
<1> HIDE DEF s2
<1>6. sync'[i] = s2 /\ \A j \in Instance \ {i} : sync'[j] = sync[j]
    BY <1>4 DEF DataInv, PlanInv, SyncInv
<1>7. s2.pc = "ddl" /\ s2.plan = s.plan /\ s2.next = s.next + 1 /\ s2.stale = s.stale
    BY <1>3 DEF Locals
<1> HIDE DEF s, st
<1>8. /\ st \in Universe /\ st \in Remaining(s) /\ OpenAt(st, db)
      /\ \A o \in Due(db) : o = st \/ After(st, o)
      /\ Remaining(s2) = Remaining(s) \ {st}
  <2>1. /\ st \in Universe /\ st \in Remaining(s) /\ OpenAt(st, db)
        /\ \A o \in Due(db) : o = st \/ After(st, o)
        /\ Remaining(s) \ {st} = {s.plan[n] : n \in s.next + 1 .. Len(s.plan)}
        BY <1>1, <1>2, FirstLeft DEF st
  <2>2. Remaining(s2) = {s.plan[n] : n \in s.next + 1 .. Len(s.plan)}
        BY <1>7 DEF Remaining
  <2>3. QED
        BY <2>1, <2>2
<1>9. st.kind # "create" => st.table \in DOMAIN db
    BY <1>2, <1>8, NextApplies
<1>10. Sound(Run(st, db))
    BY <1>1, <1>2, <1>8, <1>9, RunAdvances
<1>11. st.kind = "fk" =>
          st.object.table \in DOMAIN db /\ st.object.target \in Columns(db[st.object.table])
  <2> SUFFICES ASSUME st.kind = "fk"
               PROVE  /\ st.object.table \in DOMAIN db
                      /\ st.object.target \in Columns(db[st.object.table])
        OBVIOUS
  <2>1. PICK d \in ToSet(want) : OfKind(d, st.kind, st.object)
        BY <1>2, <1>8, StatementIs
  <2>2. st.object \in ToSet(d.fks)
        BY <2>1 DEF OfKind
  <2>3. PICK e \in ToSet(want) : e.name = st.object.table /\ st.object.target \in FieldNames(e)
        BY <1>2, <2>2, TargetsThere
  <2>4. \A o \in Due(db) : o.kind = "fk"
        BY <1>8 DEF After
  <2>5. "fk" \notin Columnar
        BY DEF Columnar
  <2>6. e.name \in DOMAIN db /\ FieldNames(e) \subseteq Columns(db[e.name])
        BY <1>2, <2>4, <2>5, AllThere
  <2>7. QED
        BY <2>3, <2>6
<1>12. Lawful(db')
  <2>1. Linked(db') /\ Unreferenced(want, db')
        BY <1>1, <1>2, <1>8, <1>9, <1>10, <1>11, LinkedAfter, UnreferencedAfter DEF Lawful
  <2>2. QED
        BY <1>1, <2>1 DEF Lawful
<1>13. Remaining(s) \subseteq Universe
  <2>1. \A n \in s.next .. Len(s.plan) : n \in 1 .. Len(s.plan)
        BY <1>2 DEF Planned
  <2>2. \A n \in 1 .. Len(s.plan) : s.plan[n] \in Universe
        BY <1>2, LenProperties DEF Planned
  <2>3. QED
        BY <2>1, <2>2 DEF Remaining
<1>14. ASSUME ~s2.stale, NEW o \in Remaining(s2)
       PROVE  Unscanned(s2.plan, o) \/ Clear(o, Run(st, db))
  <2>1. o \in Remaining(s) /\ o # st /\ o \in Universe
        BY <1>8, <1>13, <1>14
  <2>2. Unscanned(s.plan, o) \/ Clear(o, db)
        BY <1>1, <1>5, <1>7, <1>14, <2>1 DEF Undisturbed, s
  <2>3. CASE Clear(o, db)
        BY <1>1, <1>2, <1>8, <1>9, <1>10, <2>1, <2>3, ClearAfter
  <2>4. QED
        BY <1>7, <2>2, <2>3
<1>15. Undisturbed(s2, db')
  <2>1. ASSUME ~s2.stale, NEW o \in Remaining(s2)
        PROVE  Unscanned(s2.plan, o) \/ Clear(o, db')
    <3>1. Unscanned(s2.plan, o) \/ Clear(o, Run(st, db))
          BY <1>14, <2>1
    <3>2. Clear(o, Run(st, db)) => Clear(o, db')
          BY <1>1, Zenon
    <3>3. QED
          BY <3>1, <3>2
  <2>2. s2.pc # "scan"
        BY <1>7
  <2>3. QED
        BY <2>1, <2>2 DEF Undisturbed
<1>16. Working(i)
    BY <1>1 DEF Working, s
<1>17. \A j \in Instance \ {i} : Undisturbed(sync'[j], db')
    BY <1>6, <1>16, OthersUndisturbed DEF DataInv
<1>18. QED
    BY <1>6, <1>12, <1>15, <1>17

(* A step after which its instance is neither scanning nor altering.       *)
LEMMA MovedOn ==
    ASSUME DataInv, NEW i \in Instance, db' = db, sync'[i].pc \notin {"scan", "ddl"},
           \A j \in Instance \ {i} : sync'[j] = sync[j]
    PROVE  \A j \in Instance : Undisturbed(sync'[j], db')
<1>1. Undisturbed(sync'[i], db')
    BY OutOfScans
<1>2. \A j \in Instance \ {i} : Undisturbed(sync'[j], db')
    BY DEF DataInv
<1>3. QED
    BY <1>1, <1>2

LEMMA MakePlanData ==
    ASSUME DataInv, NEW i \in Instance, MakePlan(i)
    PROVE  \A j \in Instance : Undisturbed(sync'[j], db')
<1>1. CASE Refused(db)
  <2>1. /\ sync'[i].pc = "release" /\ db' = db
        /\ \A j \in Instance \ {i} : sync'[j] = sync[j]
        BY <1>1, ReleaseIs DEF DataInv, PlanInv, MakePlan
  <2>2. QED
        BY <2>1, MovedOn
<1>2. CASE ~Refused(db)
  <2> DEFINE plan == FullPlan(db)
             scans == AllScans(db)
             s == Scanning(sync[i], plan, scans)
  <2>1. s = Locals("scan", plan, sync[i].next, scans, sync[i].result, sync[i].stale)
    <3> HIDE DEF plan, scans
    <3> QED
          BY HasLocals, LocalsUpdated DEF DataInv, PlanInv
  <2>2. sync' = [sync EXCEPT ![i] = s] /\ db' = db
        BY <1>2 DEF MakePlan, Scanning
  <2> HIDE DEF s
  <2>3. sync'[i] = s /\ \A j \in Instance \ {i} : sync'[j] = sync[j]
        BY <2>2 DEF DataInv, PlanInv, SyncInv
  <2> HIDE DEF plan, scans
  <2>4. s.pc = "scan" /\ s.plan = plan /\ s.scans = scans
        BY <2>1 DEF Locals
  <2>5. Undisturbed(s, db)
        BY <1>2, <2>4 DEF Undisturbed, plan, scans
  <2>6. QED
        BY <2>2, <2>3, <2>5 DEF DataInv
<1>3. QED
    BY <1>1, <1>2

LEMMA PreflightData ==
    ASSUME DataInv, NEW i \in Instance, Preflight(i)
    PROVE  \A j \in Instance : Undisturbed(sync'[j], db')
<1>1. sync[i].pc = "scan" /\ db' = db
    BY DEF Preflight, quiet
<1>2. CASE Release(i, "unreadable") \/ Release(i, "refused")
  <2>1. sync'[i].pc = "release" /\ \A j \in Instance \ {i} : sync'[j] = sync[j]
        BY <1>2, ReleaseIs DEF DataInv, PlanInv
  <2>2. QED
        BY <1>1, <2>1, MovedOn
<1>3. CASE ~(Release(i, "unreadable") \/ Release(i, "refused"))
  <2> DEFINE s == sync[i]
             s2 == [s EXCEPT !.pc = "ddl"]
  <2>1. /\ GoTo(i, "ddl")
        /\ \A scan \in s.scans : Readable(scan, db) /\ Found(scan, db) = {}
        BY <1>3 DEF Preflight, AllReadable
  <2>2. s2 = Locals("ddl", s.plan, s.next, s.scans, s.result, s.stale)
        BY DEF DataInv, PlanInv, SyncInv, Shaped, Locals
  <2>3. sync' = [sync EXCEPT ![i] = s2]
        BY <2>1 DEF GoTo
  <2>4. Undisturbed(s, db) /\ Planned(s, db)
        BY <1>1 DEF DataInv, PlanInv, OnTrack
  <2> HIDE DEF s2
  <2>5. sync'[i] = s2 /\ \A j \in Instance \ {i} : sync'[j] = sync[j]
        BY <2>3 DEF DataInv, PlanInv, SyncInv
  <2>6. s2.pc = "ddl" /\ s2.plan = s.plan /\ s2.next = s.next /\ s2.stale = s.stale
        BY <2>2 DEF Locals
  <2>7. s.pc = "scan"
        BY <1>1
  <2> HIDE DEF s
  <2>8. ASSUME ~s2.stale, NEW o \in Remaining(s2)
        PROVE  Unscanned(s2.plan, o) \/ Clear(o, db)
    <3>1. s.plan = FullPlan(db) /\ s.scans = AllScans(db) /\ ~Refused(db)
          BY <2>4, <2>6, <2>7, <2>8 DEF Undisturbed
    <3>2. PICK n \in s.next .. Len(s.plan) : o = s.plan[n]
          BY <2>6, <2>8 DEF Remaining
    <3>3. n \in DOMAIN s.plan
          BY <2>4, <3>2, LenProperties DEF Planned
    <3>4. o \in ToSet(s.plan)
          BY <3>2, <3>3 DEF ToSet
    <3>5. Holdable(want) /\ Lawful(db)
          BY DEF DataInv, PlanInv
    <3>6. o \in Due(db)
          BY <3>1, <3>4, <3>5, FullPlanIs
    <3>7. QED
          BY <2>1, <2>6, <3>1, <3>5, <3>6, CleanScans
  <2>9. s2.pc # "scan"
        BY <2>6
  <2>10. Undisturbed(s2, db)
        BY <2>8, <2>9 DEF Undisturbed
  <2>11. QED
        BY <1>1, <2>5, <2>10 DEF DataInv
<1>4. QED
    BY <1>2, <1>3

LEMMA ApplicationData ==
    ASSUME DataInv, Application
    PROVE  \A j \in Instance : Undisturbed(sync'[j], db')
<1> SUFFICES ASSUME NEW j \in Instance PROVE Undisturbed(sync'[j], db')
    OBVIOUS
<1> DEFINE flag == sync[j].stale \/ sync[j].pc \in {"scan", "ddl"}
           s == [sync[j] EXCEPT !.stale = flag]
<1>1. sync'[j] = s
    BY DEF Application, Insert, Write, Overtaken
<1>2. s = [pc |-> sync[j].pc, plan |-> sync[j].plan, next |-> sync[j].next,
           scans |-> sync[j].scans, result |-> sync[j].result, stale |-> flag]
  <2> HIDE DEF flag
  <2>1. QED
        BY DEF DataInv, PlanInv, SyncInv, Shaped
<1> HIDE DEF s
<1>3. sync[j].pc \in {"scan", "ddl"} => flag
    OBVIOUS
<1> HIDE DEF flag
<1>4. s.pc = sync[j].pc /\ s.stale = flag
    BY <1>2
<1>5. sync[j].pc \in {"scan", "ddl"} => s.stale
    BY <1>3, <1>4, Zenon
<1>6. Undisturbed(s, db')
    BY <1>4, <1>5 DEF Undisturbed
<1>7. QED
    BY <1>1, <1>6

LEMMA DataInvNext == DataInv /\ [SyncNext]_syncVars => DataInv'
<1> SUFFICES ASSUME DataInv, [SyncNext]_syncVars PROVE DataInv'
    OBVIOUS
<1>1. PlanInv'
    BY PlanInvNext DEF DataInv
<1>2. SUFFICES /\ want' = want /\ Lawful(db')
               /\ \A j \in Instance : Undisturbed(sync'[j], db')
  <2>1. want' = want /\ Lawful(db') => Lawful(db)'
        BY DEF Lawful
  <2>2. want' = want => \A j \in Instance :
           Undisturbed(sync'[j], db') => Undisturbed(sync[j], db)'
        BY DEF Undisturbed, FullPlan, AllScans, Refused, Clear
  <2>3. QED
        BY <1>1, <2>1, <2>2 DEF DataInv
<1>3. SyncInv /\ Lawful(db)
    BY DEF DataInv, PlanInv
<1>4. ASSUME NEW i \in Instance, NEW result, Release(i, result), db' = db
      PROVE  \A j \in Instance : Undisturbed(sync'[j], db')
  <2>1. sync'[i].pc = "release" /\ \A j \in Instance \ {i} : sync'[j] = sync[j]
        BY <1>3, <1>4, ReleaseIs
  <2>2. QED
        BY <1>4, <2>1, MovedOn
<1>5. ASSUME NEW i \in Instance, NEW pc \in {"lock", "plan", "done"}, GoTo(i, pc), db' = db
      PROVE  \A j \in Instance : Undisturbed(sync'[j], db')
  <2>1. sync'[i].pc = pc /\ \A j \in Instance \ {i} : sync'[j] = sync[j]
        BY <1>3, <1>5, GoToIs
  <2>2. QED
        BY <1>5, <2>1, MovedOn
<1>6. ASSUME NEW i \in Instance, Start(i)
      PROVE  want' = want /\ db' = db /\ \A j \in Instance : Undisturbed(sync'[j], db')
    BY <1>5, <1>6 DEF Start, quiet
<1>7. ASSUME NEW i \in Instance, Restart(i)
      PROVE  want' = want /\ db' = db /\ \A j \in Instance : Undisturbed(sync'[j], db')
  <2>1. sync' = [sync EXCEPT ![i] = Idle] /\ db' = db /\ want' = want
        BY <1>7 DEF Restart
  <2>2. sync'[i] = Idle /\ \A j \in Instance \ {i} : sync'[j] = sync[j]
        BY <1>3, <2>1 DEF SyncInv
  <2>3. Idle.pc \notin {"scan", "ddl"}
        BY DEF Idle
  <2>4. QED
        BY <2>1, <2>2, <2>3, MovedOn
<1>8. ASSUME NEW i \in Instance, LockTimesOut(i)
      PROVE  want' = want /\ db' = db /\ \A j \in Instance : Undisturbed(sync'[j], db')
  <2> DEFINE s == GivenUp(sync[i])
  <2>1. s = Locals("done", sync[i].plan, sync[i].next, sync[i].scans, "timeout", sync[i].stale)
        BY <1>3, HasLocals, LocalsUpdated
  <2>2. sync' = [sync EXCEPT ![i] = s] /\ db' = db /\ want' = want
        BY <1>8 DEF LockTimesOut, GivenUp, quiet
  <2> HIDE DEF s
  <2>3. sync'[i] = s /\ \A j \in Instance \ {i} : sync'[j] = sync[j]
        BY <1>3, <2>2 DEF SyncInv
  <2>4. s.pc = "done"
        BY <2>1 DEF Locals
  <2>5. QED
        BY <2>2, <2>3, <2>4, MovedOn
<1>9. ASSUME NEW i \in Instance, Step(i)
      PROVE  /\ want' = want /\ Lawful(db')
             /\ \A j \in Instance : Undisturbed(sync'[j], db')
  <2>1. CASE GetLock(i)
        BY <1>3, <1>5, <2>1 DEF GetLock, quiet
  <2>2. CASE LockTimesOut(i)
        BY <1>3, <1>8, <2>2
  <2>3. CASE MakePlan(i)
    <3>1. want' = want /\ db' = db
          BY <2>3 DEF MakePlan, quiet
    <3>2. QED
          BY <1>3, <2>3, <3>1, MakePlanData
  <2>4. CASE Preflight(i)
    <3>1. want' = want /\ db' = db
          BY <2>4 DEF Preflight, quiet
    <3>2. QED
          BY <1>3, <2>4, <3>1, PreflightData
  <2>5. CASE Execute(i)
    <3>1. want' = want
          BY <2>5 DEF Execute, quiet
    <3>2. QED
          BY <2>5, <3>1, ExecuteData
  <2>6. CASE Refusal(i)
        BY <1>3, <1>4, <2>6 DEF Refusal, quiet
  <2>7. CASE Fails(i)
        BY <1>3, <1>4, <2>7 DEF Fails
  <2>8. CASE Finish(i)
        BY <1>3, <1>4, <2>8 DEF Finish, quiet
  <2>9. CASE ReleaseLock(i)
        BY <1>3, <1>5, <2>9 DEF ReleaseLock, quiet
  <2>10. QED
        BY <1>9, <2>1, <2>2, <2>3, <2>4, <2>5, <2>6, <2>7, <2>8, <2>9 DEF Step
<1>10. CASE Application
  <2>1. want' = want
        BY <1>10 DEF Application, Insert, Write
  <2>2. QED
        BY <1>3, <1>10, <2>1, ApplicationLawful, ApplicationData
<1>11. CASE UNCHANGED syncVars
  <2>1. want' = want /\ db' = db /\ sync' = sync
        BY <1>11 DEF syncVars
  <2>2. QED
        BY <1>3, <2>1 DEF DataInv
<1>12. CASE \E i \in Instance : Start(i) \/ Step(i) \/ Restart(i)
    BY <1>3, <1>6, <1>7, <1>9, <1>12
<1>13. QED
    BY <1>10, <1>11, <1>12 DEF SyncNext

LEMMA DataInvInit == SyncInit => DataInv
<1> SUFFICES ASSUME SyncInit PROVE DataInv
    OBVIOUS
<1>1. Lawful(db)
    BY ScenarioAssumption, RenamesAssumption DEF SyncInit, Lawful
<1>2. \A i \in Instance : sync[i] = Idle
    BY DEF SyncInit
<1>3. Undisturbed(Idle, db)
    BY OutOfScans DEF Idle
<1>4. QED
    BY <1>1, <1>2, <1>3, PlanInvInit DEF DataInv

(* After a clean preflight, and as long as the application has written     *)
(* nothing since the plan was made, no statement of the plan leaves rows   *)
(* that break a column or a constraint - whatever other starts, deaths and *)
(* refusals went before - but an added primary key, a unique index over    *)
(* added columns, and a MODIFY that makes a wider column narrower          *)
(* (plan_table_sync's scans, preflight_primary_keys, sync_locked).         *)
THEOREM ScannedStatementsSucceed == SyncSpec => []ScannedDdlSucceeds
<1>1. DataInv => ScannedDdlSucceeds
  <2> SUFFICES ASSUME DataInv, NEW i \in Instance, Blocked(i)
               PROVE  LET st == Statement(i)
                      IN  \/ st.kind = "pk"
                          \/ /\ st.kind = "index"
                             /\ ToSet(st.object.columns) \subseteq Added(i, st.table)
                          \/ st.kind = "modify" /\ Narrows(st)
        BY DEF ScannedDdlSucceeds
  <2> DEFINE s == sync[i]
             st == s.plan[s.next]
  <2>1. /\ s.pc = "ddl" /\ s.next <= Len(s.plan) /\ Statement(i) = st /\ ~s.stale
        /\ Applies(st, db) /\ ~Legal(Run(st, db))
        BY DEF Blocked, Pending, Statement
  <2>2. Sound(db) /\ Planned(s, db) /\ Holdable(want) /\ Lawful(db) /\ Undisturbed(s, db)
        BY <2>1 DEF DataInv, PlanInv, OnTrack
  <2>3. Added(i, st.table) = Adding(s.plan, st.table)
        BY DEF Added, Adding
  <2> HIDE DEF s
  <2>4. /\ st \in Universe /\ st \in Remaining(s) /\ OpenAt(st, db)
        /\ \A o \in Due(db) : o = st \/ After(st, o)
        BY <2>1, <2>2, FirstLeft
  <2> HIDE DEF st
  <2>5. st.kind # "create" => st.table \in DOMAIN db
        BY <2>2, <2>4, NextApplies
  <2>6. Sound(Run(st, db))
        BY <2>1, <2>2, <2>4, <2>5, RunAdvances
  <2>7. Unscanned(s.plan, st) \/ Clear(st, db)
        BY <2>1, <2>2, <2>4 DEF Undisturbed
  <2>8. CASE Unscanned(s.plan, st)
        BY <2>1, <2>3, <2>8 DEF Unscanned
  <2>9. CASE Clear(st, db)
    <3>1. st.kind = "pk" \/ Widens(st, db)
          BY <2>1, <2>2, <2>4, <2>5, <2>6, <2>9, LegalAfter
    <3>2. CASE Widens(st, db)
      <4>1. PICK d \in ToSet(want) : d.name = st.table /\ Wider(d, db[st.table], st.object)
            BY <3>2 DEF Widens
      <4>2. st.kind = "modify" /\ st.object.name \in Columns(db[st.table])
            BY <2>1, <3>2 DEF Widens, Applies
      <4>3. OldName(d, db[st.table], st.object.name) = st.object.name
            BY <4>2, OwnName
      <4>4. Narrows(st)
            BY <4>1, <4>3 DEF Wider, Column, Narrows
      <4>5. QED
            BY <2>1, <4>2, <4>4
    <3>3. QED
          BY <2>1, <3>1, <3>2
  <2>10. QED
        BY <2>7, <2>8, <2>9
<1>2. SyncSpec => []DataInv
    BY DataInvInit, DataInvNext, PTL DEF SyncSpec
<1>3. QED
    BY <1>1, <1>2, PTL
=============================================================================
