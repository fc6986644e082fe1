---------------------------- MODULE NalParserProofs ----------------------------
(***************************************************************************)
(* What split_annex_b_nals() and process_frame_nals() promise for frames   *)
(* of any packs, of any bytes and any length: the cuts are in order, they  *)
(* leave no start code in a NAL unit, and access unit and cache are what   *)
(* their definition says.                                                  *)
(*                                                                         *)
(* Facts about recursive definitions are proved with the least element of  *)
(* the set of numbers for which they would fail.                           *)
(***************************************************************************)
EXTENDS NalParser, SequenceTheorems, FiniteSetTheorems, TLAPS

-----------------------------------------------------------------------------
(* Numbers and sequences *)

\* A set of natural numbers that is not empty has a least element.
LEMMA Least ==
  ASSUME NEW T, T \subseteq Nat, T # {}
  PROVE  \E x \in T : \A y \in T : x <= y
<1> DEFINE R == OpToRel(<, Nat)
<1>1. IsWellFoundedOn(R, Nat)
  BY NatLessThanWellFounded
<1>2. PICK x \in T : \A y \in T : ~(<<y, x>> \in R)
  <2> HIDE DEF R
  <2> QED
    BY <1>1, WFMin, Zenon
<1>3. \A y \in T : ~(y < x)
  BY <1>2 DEF OpToRel
<1> QED
  BY <1>3

\* Max() of a bounded set is its largest element.
LEMMA Largest ==
  ASSUME NEW n \in Nat, NEW T, T \subseteq 1 .. n, T # {}
  PROVE  Max(T) \in T /\ \A y \in T : y <= Max(T)
<1> DEFINE U == {n - y : y \in T}
<1>1. U \subseteq Nat /\ U # {}
  OBVIOUS
<1>2. PICK u \in U : \A v \in U : u <= v
  <2> HIDE DEF U
  <2> QED
    BY <1>1, Least
<1>3. PICK x \in T : u = n - x
  BY <1>2
<1>4. ASSUME NEW y \in T
      PROVE  y <= x
  <2>1. n - y \in U
    OBVIOUS
  <2>2. n - x <= n - y
    BY <1>2, <1>3, <2>1
  <2> QED
    BY <2>2
<1>5. \E m \in T : \A y \in T : m >= y
  BY <1>4
<1> QED
  BY <1>5 DEF Max

\* A sequence that increases is what Ascending() makes of its members.
LEMMA AscendingIs ==
  ASSUME NEW q \in Seq(Nat), NEW S,
         S = {q[n] : n \in 1 .. Len(q)},
         \A m, n \in 1 .. Len(q) : m < n => q[m] < q[n]
  PROVE  Ascending(S) = q
<1> DEFINE k == Len(q)
<1>0. k \in Nat /\ DOMAIN q = 1 .. k /\ \A n \in 1 .. k : q[n] \in Nat
  BY LenProperties, ElementOfSeq
<1> HIDE DEF k
<1>1. ASSUME NEW m \in 0 .. k
      PROVE  Cardinality({q[n] : n \in 1 .. m}) = m
  <2> DEFINE T == {q[n] : n \in 1 .. m}
             f == [n \in 1 .. m |-> q[n]]
  <2>1. f \in [1 .. m -> T] /\ \A y \in T : \E n \in 1 .. m : f[n] = y
    OBVIOUS
  <2>2. \A a, b \in 1 .. m : f[a] = f[b] => a = b
    <3>1. \A a, b \in 1 .. m : a < b => q[a] < q[b] /\ q[a] \in Nat /\ q[b] \in Nat
      BY <1>0 DEF k
    <3> QED
      BY <3>1
  <2>3. f \in Bijection(1 .. m, T)
    BY <2>1, <2>2 DEF Bijection, Injection, Surjection, IsInjective
  <2>4. ExistsBijection(1 .. m, T)
    BY <2>3 DEF ExistsBijection
  <2>5. m \in Nat
    BY <1>0
  <2> QED
    BY <2>4, <2>5, FS_CountingElements
<1>2. Cardinality(S) = k
  <2>1. k \in 0 .. k /\ S = {q[n] : n \in 1 .. k}
    BY <1>0 DEF k
  <2> QED
    BY <1>1, <2>1
<1>3. ASSUME NEW m \in 1 .. k
      PROVE  {y \in S : y <= q[m]} = {q[n] : n \in 1 .. m}
  <2>1. \A n \in 1 .. k : q[n] <= q[m] <=> n <= m
    <3>1. \A a, b \in 1 .. k : a < b => q[a] < q[b]
      BY DEF k
    <3> QED
      BY <1>0, <1>3, <3>1
  <2>2. S = {q[n] : n \in 1 .. k}
    BY DEF k
  <2> QED
    BY <1>0, <1>3, <2>1, <2>2
<1>4. ASSUME NEW m \in 1 .. k
      PROVE  (CHOOSE x \in S : Cardinality({y \in S : y <= x}) = m) = q[m]
  <2>1. q[m] \in S /\ Cardinality({y \in S : y <= q[m]}) = m
    <3>1. m \in 0 .. k
      BY <1>0
    <3> QED
      BY <1>1, <1>3, <1>4, <3>1 DEF k
  <2>2. ASSUME NEW x \in S, Cardinality({y \in S : y <= x}) = m
        PROVE  x = q[m]
    <3>1. PICK n \in 1 .. k : x = q[n]
      BY DEF k
    <3>2. Cardinality({y \in S : y <= q[n]}) = n
      <4>1. n \in 0 .. k
        BY <1>0
      <4> QED
        BY <1>1, <1>3, <4>1
    <3>3. n = m
      BY <2>2, <3>1, <3>2
    <3> QED
      BY <3>1, <3>3
  <2> QED
    BY <2>1, <2>2
<1>5. Ascending(S) = [m \in 1 .. k |-> q[m]]
  BY <1>2, <1>4 DEF Ascending
<1>6. q = [m \in 1 .. k |-> q[m]]
  BY <1>0 DEF k
<1> QED
  BY <1>5, <1>6

\* Every bounded set of numbers is that of an increasing sequence.
LEMMA AscendingExists ==
  ASSUME NEW k \in Nat, NEW S, S \subseteq 1 .. k
  PROVE  \E q \in Seq(1 .. k) :
            /\ S = {q[n] : n \in 1 .. Len(q)}
            /\ \A m, n \in 1 .. Len(q) : m < n => q[m] < q[n]
<1> DEFINE Lists(q, R) == /\ R = {q[n] : n \in 1 .. Len(q)}
                          /\ \A m, n \in 1 .. Len(q) : m < n => q[m] < q[n]
           T == {j \in Nat : \E R \in SUBSET (1 .. j) : ~ \E q \in Seq(1 .. j) : Lists(q, R)}
<1>1. T = {}
  <2> SUFFICES ASSUME T # {} PROVE FALSE
    OBVIOUS
  <2>1. T \subseteq Nat
    OBVIOUS
  <2>2. PICK j \in T : \A y \in T : j <= y
    <3> HIDE DEF T
    <3> QED
      BY <2>1, Least
  <2>3. PICK R \in SUBSET (1 .. j) : ~ \E q \in Seq(1 .. j) : Lists(q, R)
    BY <2>2
  <2>4. j \in Nat
    BY <2>2
  <2>5. CASE j = 0
    <3>1. <<>> \in Seq(1 .. j) /\ Len(<<>>) = 0
      BY EmptySeq
    <3>2. R = {}
      BY <2>5
    <3>3. Lists(<<>>, R)
      BY <3>1, <3>2
    <3> HIDE DEF Lists
    <3> QED
      BY <2>3, <3>1, <3>3
  <2>6. CASE j # 0
    <3> DEFINE Q == R \ {j}
    <3>1. j - 1 \in Nat /\ ~(j <= j - 1)
      BY <2>4, <2>6
    <3>2. Q \in SUBSET (1 .. j - 1)
      BY <2>3, <2>4
    <3>3. j - 1 \notin T
      BY <2>2, <3>1
    <3>4. PICK q \in Seq(1 .. j - 1) : Lists(q, Q)
      <4> HIDE DEF Lists, Q
      <4> QED
        BY <3>1, <3>2, <3>3
    <3>5. q \in Seq(1 .. j)
      <4>1. 1 .. j - 1 \subseteq 1 .. j
        BY <2>4
      <4> QED
        BY <4>1, SeqMonotonic
    <3>6. CASE j \notin R
      <4>1. Q = R
        BY <3>6
      <4> HIDE DEF Lists, Q
      <4> QED
        BY <2>3, <3>4, <3>5, <4>1
    <3>7. CASE j \in R
      <4> DEFINE r == Append(q, j)
                 l == Len(q)
      <4>1. j \in 1 .. j
        BY <2>4, <2>6
      <4>2. /\ l \in Nat /\ r \in Seq(1 .. j) /\ Len(r) = l + 1 /\ r[l + 1] = j
            /\ \A n \in 1 .. l : r[n] = q[n] /\ q[n] \in 1 .. j - 1
        BY <3>4, <3>5, <4>1, AppendProperties, LenProperties, ElementOfSeq
      <4> HIDE DEF r
      <4>3. \A n \in 1 .. l + 1 : n \in 1 .. l \/ n = l + 1
        BY <4>2
      <4>4. R = {r[n] : n \in 1 .. Len(r)}
        <5>1. Q = {q[n] : n \in 1 .. l}
          BY <3>4
        <5> HIDE DEF l
        <5>2. R = Q \cup {j}
          BY <3>7
        <5>3. ASSUME NEW x \in R
              PROVE  \E n \in 1 .. l + 1 : x = r[n]
          <6>1. CASE x = j
            BY <4>2, <6>1
          <6>2. CASE x \in Q
            <7>1. PICK n \in 1 .. l : x = q[n]
              BY <5>1, <6>2
            <7> QED
              BY <4>2, <7>1
          <6> QED
            BY <5>2, <6>1, <6>2
        <5>4. ASSUME NEW n \in 1 .. l + 1
              PROVE  r[n] \in R
          BY <3>7, <4>2, <4>3, <5>1, <5>2
        <5>5. R = {r[n] : n \in 1 .. l + 1}
          BY <5>3, <5>4
        <5> QED
          BY <4>2, <5>5
      <4>5. \A m, n \in 1 .. Len(r) : m < n => r[m] < r[n]
        <5> SUFFICES ASSUME NEW m \in 1 .. l + 1, NEW n \in 1 .. l + 1, m < n
                     PROVE  r[m] < r[n]
          BY <4>2
        <5>1. m \in 1 .. l
          BY <4>2
        <5>2. CASE n \in 1 .. l
          <6>1. q[m] < q[n]
            BY <3>4, <5>1, <5>2
          <6> QED
            BY <4>2, <5>1, <5>2, <6>1
        <5>3. CASE n = l + 1
          BY <2>4, <4>2, <5>1, <5>3
        <5> QED
          BY <4>3, <5>2, <5>3
      <4>6. Lists(r, R)
        BY <4>4, <4>5
      <4> HIDE DEF Lists
      <4> QED
        BY <2>3, <4>2, <4>6
    <3> QED
      BY <3>6, <3>7
  <2> QED
    BY <2>5, <2>6
<1>2. k \notin T
  BY <1>1
<1>3. \E q \in Seq(1 .. k) : Lists(q, S)
  <2>1. S \in SUBSET (1 .. k)
    OBVIOUS
  <2> HIDE DEF Lists
  <2> QED
    BY <1>2, <2>1
<1> QED
  BY <1>3

\* NonEmpty() keeps what it should.
LEMMA NonEmptyType ==
  ASSUME NEW X, NEW s \in Seq(X)
  PROVE  NonEmpty(s) \in Seq(X \ {<<>>})
<1> DEFINE S == {n \in DOMAIN s : s[n] # <<>>}
<1>1. Len(s) \in Nat /\ DOMAIN s = 1 .. Len(s) /\ \A n \in 1 .. Len(s) : s[n] \in X
  BY LenProperties, ElementOfSeq
<1>2. S \subseteq 1 .. Len(s)
  BY <1>1
<1>3. PICK q \in Seq(1 .. Len(s)) :
            /\ S = {q[n] : n \in 1 .. Len(q)}
            /\ \A m, n \in 1 .. Len(q) : m < n => q[m] < q[n]
  <2> HIDE DEF S
  <2> QED
    BY <1>1, <1>2, AscendingExists
<1>4. q \in Seq(Nat)
  <2>1. 1 .. Len(s) \subseteq Nat
    BY <1>1
  <2> QED
    BY <2>1, SeqMonotonic
<1>5. Ascending(S) = q
  <2> HIDE DEF S
  <2> QED
    BY <1>3, <1>4, AscendingIs
<1>6. Len(q) \in Nat /\ DOMAIN q = 1 .. Len(q)
  BY LenProperties
<1>7. \A m \in 1 .. Len(q) : s[q[m]] \in X \ {<<>>}
  <2>1. \A m \in 1 .. Len(q) : q[m] \in S
    BY <1>3
  <2> QED
    BY <1>1, <2>1
<1>8. NonEmpty(s) = [m \in 1 .. Len(q) |-> s[q[m]]]
  BY <1>5, <1>6 DEF NonEmpty
<1> QED
  BY <1>6, <1>7, <1>8

\* The equation that defines FlattenSeq().
Flat(ps, f) == f = [n \in 1 .. Len(ps) |-> IF n = 1 THEN ps[n] ELSE f[n - 1] \o ps[n]]

\* Its solutions agree as far as their arguments do.
LEMMA FlatUnique ==
  ASSUME NEW ps, NEW rs, NEW f, NEW g, Flat(ps, f), Flat(rs, g),
         Len(ps) \in Nat, Len(rs) \in Nat, Len(ps) <= Len(rs),
         \A n \in 1 .. Len(ps) : ps[n] = rs[n]
  PROVE  \A n \in 1 .. Len(ps) : f[n] = g[n]
<1> DEFINE T == {n \in 1 .. Len(ps) : f[n] # g[n]}
<1> SUFFICES ASSUME T # {} PROVE FALSE
  OBVIOUS
<1>1. T \subseteq Nat
  OBVIOUS
<1>2. PICK x \in T : \A y \in T : x <= y
  <2> HIDE DEF T
  <2> QED
    BY <1>1, Least
<1>3. x \in 1 .. Len(ps) /\ x \in 1 .. Len(rs) /\ f[x] # g[x]
  BY <1>2
<1>4. /\ f[x] = IF x = 1 THEN ps[x] ELSE f[x - 1] \o ps[x]
      /\ g[x] = IF x = 1 THEN rs[x] ELSE g[x - 1] \o rs[x]
  BY <1>3 DEF Flat
<1>5. CASE x = 1
  BY <1>3, <1>4, <1>5
<1>6. CASE x # 1
  <2>1. x - 1 \in 1 .. Len(ps) /\ ~(x <= x - 1)
    BY <1>3, <1>6
  <2>2. f[x - 1] = g[x - 1]
    BY <1>2, <2>1
  <2> QED
    BY <1>3, <1>4, <1>6, <2>2
<1> QED
  BY <1>5, <1>6

\* It has a solution.
LEMMA FlatExists ==
  ASSUME NEW ps, Len(ps) \in Nat
  PROVE  \E f : Flat(ps, f)
<1> DEFINE F(m, f) == f = [n \in 1 .. m |-> IF n = 1 THEN ps[n] ELSE f[n - 1] \o ps[n]]
           T == {m \in Nat : ~ \E f : F(m, f)}
<1>1. T = {}
  <2> SUFFICES ASSUME T # {} PROVE FALSE
    OBVIOUS
  <2>1. T \subseteq Nat
    OBVIOUS
  <2>2. PICK m \in T : \A y \in T : m <= y
    <3> HIDE DEF T
    <3> QED
      BY <2>1, Least
  <2>3. m \in Nat /\ ~ \E f : F(m, f)
    BY <2>2
  <2>4. CASE m = 0
    <3> DEFINE f == [n \in 1 .. 0 |-> 0]
    <3>1. F(0, f)
      OBVIOUS
    <3> QED
      BY <2>3, <2>4, <3>1
  <2>5. CASE m # 0
    <3>1. m - 1 \in Nat /\ ~(m <= m - 1)
      BY <2>3, <2>5
    <3>2. m - 1 \notin T
      BY <2>2, <3>1
    <3>3. PICK f : F(m - 1, f)
      BY <3>1, <3>2
    <3> DEFINE g == [n \in 1 .. m |-> IF n = 1 THEN ps[n] ELSE f[n - 1] \o ps[n]]
    <3>4. ASSUME NEW n \in 1 .. m - 1
          PROVE  g[n] = f[n]
      <4>1. n \in 1 .. m
        BY <2>3
      <4>2. f[n] = IF n = 1 THEN ps[n] ELSE f[n - 1] \o ps[n]
        BY <3>3
      <4> QED
        BY <4>1, <4>2
    <3>5. ASSUME NEW n \in 1 .. m, n # 1
          PROVE  g[n - 1] = f[n - 1]
      <4>1. n - 1 \in 1 .. m - 1
        BY <2>3, <3>5
      <4> HIDE DEF g
      <4> QED
        BY <3>4, <4>1
    <3>6. g = [n \in 1 .. m |-> IF n = 1 THEN ps[n] ELSE g[n - 1] \o ps[n]]
      <4> DEFINE h == [n \in 1 .. m |-> IF n = 1 THEN ps[n] ELSE g[n - 1] \o ps[n]]
      <4>1. \A n \in 1 .. m : g[n] = h[n]
        BY <3>5
      <4> QED
        BY <4>1
    <3>7. F(m, g)
      BY <3>6
    <3> QED
      BY <2>3, <3>7
  <2> QED
    BY <2>4, <2>5
<1>2. Len(ps) \notin T
  BY <1>1
<1>3. \E f : F(Len(ps), f)
  BY <1>2
<1> QED
  BY <1>3 DEF Flat

\* FlattenSeq() is the last value of a solution.
LEMMA FlattenIs ==
  ASSUME NEW ps, Len(ps) \in Nat, Len(ps) # 0
  PROVE  \E f : Flat(ps, f) /\ FlattenSeq(ps) = f[Len(ps)]
<1> DEFINE f == CHOOSE f : f = [n \in 1 .. Len(ps) |->
                                 IF n = 1 THEN ps[n] ELSE f[n - 1] \o ps[n]]
<1>1. \E g : g = [n \in 1 .. Len(ps) |-> IF n = 1 THEN ps[n] ELSE g[n - 1] \o ps[n]]
  BY FlatExists DEF Flat
<1>2. f = [n \in 1 .. Len(ps) |-> IF n = 1 THEN ps[n] ELSE f[n - 1] \o ps[n]]
  BY <1>1, Zenon
<1>3. FlattenSeq(ps) = f[Len(ps)]
  BY DEF FlattenSeq
<1> HIDE DEF f
<1> QED
  BY <1>2, <1>3 DEF Flat

\* One more sequence is appended to what was flattened before.
LEMMA FlattenMore ==
  ASSUME NEW X, NEW ps \in Seq(Seq(X)), NEW p \in Seq(X)
  PROVE  FlattenSeq(Append(ps, p)) = FlattenSeq(ps) \o p
<1> DEFINE rs == Append(ps, p)
           k == Len(ps)
<1>0. /\ k \in Nat /\ Len(rs) = k + 1 /\ rs[k + 1] = p
      /\ \A n \in 1 .. k : rs[n] = ps[n]
  BY AppendProperties, LenProperties
<1> HIDE DEF rs
<1>1. PICK g : Flat(rs, g) /\ FlattenSeq(rs) = g[k + 1]
  BY <1>0, FlattenIs
<1>2. g[k + 1] = IF k + 1 = 1 THEN rs[k + 1] ELSE g[k] \o rs[k + 1]
  <2>1. k + 1 \in 1 .. Len(rs) /\ (k + 1) - 1 = k
    BY <1>0
  <2> HIDE DEF k
  <2>2. g[k + 1] = IF k + 1 = 1 THEN rs[k + 1] ELSE g[(k + 1) - 1] \o rs[k + 1]
    BY <1>1, <2>1 DEF Flat
  <2> QED
    BY <1>0, <2>1, <2>2
<1>3. CASE k = 0
  <2>1. ps = <<>>
    BY <1>3, EmptySeq
  <2>2. FlattenSeq(ps) = <<>>
    BY <1>3, <2>1 DEF FlattenSeq
  <2>3. <<>> \o p = p
    BY ConcatEmptySeq
  <2> QED
    BY <1>0, <1>1, <1>2, <1>3, <2>2, <2>3 DEF rs
<1>4. CASE k # 0
  <2>1. PICK f : Flat(ps, f) /\ FlattenSeq(ps) = f[k]
    BY <1>0, <1>4, FlattenIs
  <2>2. k \in 1 .. k /\ k <= Len(rs)
    BY <1>0, <1>4
  <2>3. \A n \in 1 .. k : f[n] = g[n]
    <3>1. /\ Len(ps) \in Nat /\ Len(rs) \in Nat /\ Len(ps) <= Len(rs)
          /\ \A n \in 1 .. Len(ps) : ps[n] = rs[n]
      BY <1>0
    <3> QED
      BY <1>1, <2>1, <3>1, FlatUnique
  <2>4. f[k] = g[k]
    BY <2>2, <2>3
  <2> QED
    BY <1>0, <1>1, <1>2, <1>4, <2>1, <2>4 DEF rs
<1> QED
  BY <1>3, <1>4

\* The latest of two sequences is that of the second, if it has one.
LEMMA LatestOfBoth ==
  ASSUME NEW X, NEW s \in Seq(X), NEW t \in Seq(X), NEW c, NEW k, NEW before
  PROVE  Latest(c, s \o t, k, before) = Latest(c, t, k, Latest(c, s, k, before))
<1> DEFINE l == Len(s)
           P == Places(c, s \o t, k)
           Ps == Places(c, s, k)
           Pt == Places(c, t, k)
<1>0. /\ l \in Nat /\ Len(t) \in Nat /\ DOMAIN s = 1 .. l /\ DOMAIN t = 1 .. Len(t)
      /\ DOMAIN (s \o t) = 1 .. l + Len(t)
      /\ \A m \in 1 .. l : (s \o t)[m] = s[m]
      /\ \A m \in 1 .. Len(t) : (s \o t)[l + m] = t[m]
  <2>1. /\ s \o t \in Seq(X) /\ Len(s \o t) = Len(s) + Len(t)
        /\ \A m \in 1 .. Len(s) + Len(t) : (s \o t)[m] =
                     IF m <= Len(s) THEN s[m] ELSE t[m - Len(s)]
    BY ConcatProperties
  <2>2. l \in Nat /\ Len(t) \in Nat /\ DOMAIN s = 1 .. l /\ DOMAIN t = 1 .. Len(t)
    BY LenProperties
  <2>3. DOMAIN (s \o t) = 1 .. l + Len(t)
    BY <2>1, LenProperties
  <2>4. ASSUME NEW m \in 1 .. l
        PROVE  (s \o t)[m] = s[m]
    BY <2>1, <2>2
  <2>5. ASSUME NEW m \in 1 .. Len(t)
        PROVE  (s \o t)[l + m] = t[m]
    <3>1. l + m \in 1 .. Len(s) + Len(t) /\ ~(l + m <= Len(s)) /\ (l + m) - Len(s) = m
      BY <2>2
    <3> QED
      BY <2>1, <3>1
  <2> QED
    BY <2>2, <2>3, <2>4, <2>5
<1>1. /\ Ps \subseteq 1 .. l /\ Pt \subseteq 1 .. Len(t) /\ P \subseteq 1 .. l + Len(t)
      /\ l + Len(t) \in Nat
  BY <1>0 DEF Places
<1>2. \A m \in 1 .. l : m \in P <=> m \in Ps
  BY <1>0 DEF Places
<1>3. \A m \in 1 .. Len(t) : l + m \in P <=> m \in Pt
  BY <1>0 DEF Places
<1>4. /\ Latest(c, s \o t, k, before) = IF P = {} THEN before ELSE (s \o t)[Max(P)]
      /\ Latest(c, s, k, before) = IF Ps = {} THEN before ELSE s[Max(Ps)]
      /\ Latest(c, t, k, Latest(c, s, k, before))
            = IF Pt = {} THEN Latest(c, s, k, before) ELSE t[Max(Pt)]
  BY DEF Latest
<1> HIDE DEF l, P, Ps, Pt
<1>5. CASE Pt = {}
  <2>1. ASSUME NEW m \in P
        PROVE  m \in 1 .. l
    <3> SUFFICES ASSUME ~(m \in 1 .. l) PROVE FALSE
      OBVIOUS
    <3>1. m - l \in 1 .. Len(t) /\ l + (m - l) = m
      BY <1>0, <1>1
    <3> QED
      BY <1>3, <1>5, <3>1
  <2>2. P = Ps
    BY <1>1, <1>2, <2>1
  <2>3. CASE Ps = {}
    BY <1>4, <1>5, <2>2, <2>3
  <2>4. CASE Ps # {}
    <3>1. Max(Ps) \in 1 .. l
      BY <1>0, <1>1, <2>4, Largest
    <3> QED
      BY <1>0, <1>4, <1>5, <2>2, <2>4, <3>1
  <2> QED
    BY <2>3, <2>4
<1>6. CASE Pt # {}
  <2>1. Max(Pt) \in Pt /\ \A y \in Pt : y <= Max(Pt)
    BY <1>0, <1>1, <1>6, Largest
  <2>2. l + Max(Pt) \in P
    BY <1>1, <1>3, <2>1
  <2>3. Max(P) \in P /\ \A y \in P : y <= Max(P)
    BY <1>1, <2>2, Largest
  <2>4. Max(P) = l + Max(Pt)
    <3>1. l + Max(Pt) <= Max(P) /\ Max(Pt) \in 1 .. Len(t) /\ Max(P) \in 1 .. l + Len(t)
      BY <1>1, <2>1, <2>2, <2>3
    <3> DEFINE m == Max(P) - l
    <3>2. m \in 1 .. Len(t) /\ l + m = Max(P)
      BY <1>0, <3>1
    <3>3. m \in Pt
      BY <1>3, <2>3, <3>2
    <3>4. m <= Max(Pt)
      BY <2>1, <3>3
    <3> QED
      BY <1>0, <3>1, <3>2, <3>4
  <2>5. (s \o t)[Max(P)] = t[Max(Pt)]
    BY <1>0, <1>1, <2>1, <2>4
  <2> QED
    BY <1>4, <1>6, <2>2, <2>5
<1> QED
  BY <1>5, <1>6

-----------------------------------------------------------------------------
(* The scan of a pack *)

Cut == [at : Nat, len : {3, 4}]

\* The state of the scan has its type.
ScanTypeOK ==
    /\ frame \in Seq(Seq(0 .. 255))
    /\ next \in Nat \ {0}
    /\ data \in Seq(0 .. 255)
    /\ i \in Nat
    /\ cuts \in Seq(Cut)

\* Every 00 00 01 that begins in what was scanned has its cut.
MarksCut ==
    \A p \in 0 .. Len(data) :
       Mark(data, p) /\ p < i => \E n \in 1 .. Len(cuts) : cuts[n].at = p + 3

\* Every cut is behind a 00 00 01, and a zero before that is part of the start code.
CutsMark ==
    \A n \in 1 .. Len(cuts) :
       /\ Mark(data, cuts[n].at - 3)
       /\ cuts[n].len = 4 <=> cuts[n].at > 3 /\ At(data, cuts[n].at - 4) = 0

\* The scan has not stepped into a long start code.
NotWithin == i > 0 => ~LongMark(data, i - 1)

IInv == ScanTypeOK /\ CutsOrdered /\ MarksCut /\ CutsMark /\ NotWithin

\* What start_code_len() says: a start code that is complete, and ends in the only
\* 00 00 01 that begins within it.
LEMMA StartCodeLenIs ==
  ASSUME NEW d \in Seq(0 .. 255), NEW p \in Nat, p < Len(d)
  PROVE  /\ StartCodeLen(d, p) \in {0, 3, 4}
         /\ p + StartCodeLen(d, p) <= Len(d)
         /\ StartCodeLen(d, p) = 0 => ~Mark(d, p)
         /\ StartCodeLen(d, p) > 0 =>
               \A q \in Nat : /\ p <= q /\ q < p + StartCodeLen(d, p)
                              /\ Mark(d, q)
                              => q + 3 = p + StartCodeLen(d, p)
<1>0. Len(d) \in Nat
  BY LenProperties
<1>1. CASE Mark(d, p)
  <2>1. StartCodeLen(d, p) = 3 /\ p + 3 <= Len(d) /\ At(d, p + 2) = 1
    BY <1>1 DEF StartCodeLen, Mark
  <2>2. ASSUME NEW q \in Nat, p <= q, q < p + 3, Mark(d, q)
        PROVE  q = p
    <3>1. q \in {p, p + 1, p + 2}
      BY <2>2
    <3>2. CASE q = p + 1
      <4>1. At(d, p + 2) = 0
        <5>1. q + 1 = p + 2
          BY <3>2
        <5> QED
          BY <2>2, <5>1 DEF Mark
      <4> QED
        BY <2>1, <4>1
    <3>3. CASE q = p + 2
      BY <2>1, <2>2, <3>3 DEF Mark
    <3> QED
      BY <3>1, <3>2, <3>3
  <2> QED
    BY <1>0, <1>1, <2>1, <2>2
<1>2. CASE ~Mark(d, p) /\ LongMark(d, p)
  <2>1. StartCodeLen(d, p) = 4 /\ p + 4 <= Len(d) /\ At(d, p + 3) = 1
    BY <1>2 DEF StartCodeLen, LongMark
  <2>2. ASSUME NEW q \in Nat, p <= q, q < p + 4, Mark(d, q)
        PROVE  q = p + 1
    <3>1. q \in {p, p + 1, p + 2, p + 3}
      BY <2>2
    <3>2. CASE q = p + 2
      <4>1. q + 1 = p + 3
        BY <3>2
      <4> QED
        BY <2>1, <2>2, <4>1 DEF Mark
    <3>3. CASE q = p + 3
      BY <2>1, <2>2, <3>3 DEF Mark
    <3>4. q # p
      BY <1>2, <2>2
    <3> QED
      BY <3>1, <3>2, <3>3, <3>4
  <2> QED
    BY <1>0, <1>2, <2>1, <2>2
<1>3. CASE ~Mark(d, p) /\ ~LongMark(d, p)
  <2>1. StartCodeLen(d, p) = 0
    BY <1>3 DEF StartCodeLen
  <2> QED
    BY <1>0, <1>3, <2>1
<1> QED
  BY <1>1, <1>2, <1>3

\* The start code found at p ends in 00 00 01 and 1, and is a long one exactly if there
\* is a zero before that.
LEMMA CutIs ==
  ASSUME NEW d \in Seq(0 .. 255), NEW p \in Nat, p < Len(d),
         p > 0 => ~LongMark(d, p - 1),
         NEW len, len = StartCodeLen(d, p), len > 0
  PROVE  /\ Mark(d, p + len - 3)
         /\ len = 4 <=> p + len > 3 /\ At(d, p + len - 4) = 0
         /\ At(d, p + len - 1) = 1
<1>0. Len(d) \in Nat
  BY LenProperties
<1>1. CASE Mark(d, p)
  <2>1. len = 3 /\ p + len - 3 = p /\ p + len - 4 = p - 1 /\ p + len - 1 = p + 2
    BY <1>1 DEF StartCodeLen
  <2>2. /\ p + 3 <= Len(d) /\ At(d, p) = 0 /\ At(d, p + 1) = 0 /\ At(d, p + 2) = 1
    BY <1>1 DEF Mark
  <2>3. ~ (p > 0 /\ At(d, p - 1) = 0)
    <3> SUFFICES ASSUME p > 0, At(d, p - 1) = 0 PROVE FALSE
      OBVIOUS
    <3>1. (p - 1) + 1 = p /\ (p - 1) + 2 = p + 1 /\ (p - 1) + 3 = p + 2
      OBVIOUS
    <3>2. /\ (p - 1) + 4 <= Len(d) /\ At(d, (p - 1) + 1) = 0
          /\ At(d, (p - 1) + 2) = 0 /\ At(d, (p - 1) + 3) = 1
      <4>1. (p - 1) + 4 <= Len(d)
        BY <1>0, <2>2
      <4> QED
        BY <2>2, <3>1, <4>1
    <3>3. LongMark(d, p - 1)
      BY <3>2 DEF LongMark
    <3> QED
      BY <3>3
  <2>4. p + len > 3 <=> p > 0
    BY <2>1
  <2> QED
    BY <1>1, <2>1, <2>2, <2>3, <2>4
<1>2. CASE ~Mark(d, p)
  <2>1. len = 4 /\ LongMark(d, p)
    BY <1>2 DEF StartCodeLen
  <2>2. /\ p + 4 <= Len(d) /\ At(d, p) = 0 /\ At(d, p + 1) = 0 /\ At(d, p + 2) = 0
        /\ At(d, p + 3) = 1
    BY <2>1 DEF LongMark
  <2>3. /\ p + len - 3 = p + 1 /\ p + len - 4 = p /\ p + len - 1 = p + 3 /\ p + len > 3
    BY <2>1
  <2>4. Mark(d, p + 1)
    <3>1. (p + 1) + 1 = p + 2 /\ (p + 1) + 2 = p + 3 /\ (p + 1) + 3 <= Len(d)
      BY <1>0, <2>2
    <3>2. At(d, (p + 1) + 1) = 0 /\ At(d, (p + 1) + 2) = 1
      BY <2>2, <3>1
    <3> QED
      BY <2>2, <3>1, <3>2 DEF Mark
  <2> QED
    BY <2>1, <2>2, <2>3, <2>4
<1> QED
  BY <1>1, <1>2

\* A cut has its two fields.
LEMMA CutFields ==
  ASSUME cuts \in Seq(Cut)
  PROVE  \A n \in 1 .. Len(cuts) : cuts[n].at \in Nat /\ cuts[n].len \in {3, 4}
<1>1. \A n \in 1 .. Len(cuts) : cuts[n] \in Cut
  BY ElementOfSeq
<1> QED
  BY <1>1 DEF Cut

\* Before the first pack nothing is scanned.
LEMMA InitInv == Init => IInv
<1> SUFFICES ASSUME Init PROVE IInv
  OBVIOUS
<1>1. ScanTypeOK
  BY FramesAssumption DEF Init, ScanTypeOK
<1>2. data = <<>> /\ cuts = <<>> /\ i = 0 /\ Len(data) = 0 /\ Len(cuts) = 0
  BY DEF Init
<1>3. CutsOrdered /\ MarksCut /\ CutsMark /\ NotWithin
  BY <1>2 DEF CutsOrdered, MarksCut, CutsMark, NotWithin
<1> QED
  BY <1>1, <1>3 DEF IInv

\* A turn of the loop that finds a start code.
LEMMA HitKeepsInv ==
  ASSUME IInv, ScanHit
  PROVE  IInv'
<1> DEFINE len == StartCodeLen(data, i)
           c == [at |-> i + len, len |-> len]
           k == Len(cuts)
<1>0. /\ data \in Seq(0 .. 255) /\ i \in Nat /\ cuts \in Seq(Cut)
      /\ Len(data) \in Nat /\ k \in Nat /\ i < Len(data)
  BY LenProperties DEF ScanHit, IInv, ScanTypeOK
<1>1. /\ len \in {3, 4} /\ i + len <= Len(data)
      /\ \A q \in Nat : i <= q /\ q < i + len /\ Mark(data, q) => q + 3 = i + len
  <2>1. len > 0
    BY DEF ScanHit
  <2> HIDE DEF len
  <2>2. /\ len \in {0, 3, 4} /\ i + len <= Len(data)
        /\ len > 0 => \A q \in Nat : i <= q /\ q < i + len /\ Mark(data, q)
                                     => q + 3 = i + len
    BY <1>0, StartCodeLenIs DEF len
  <2> QED
    BY <2>1, <2>2
<1>2. /\ cuts' = Append(cuts, c) /\ i' = i + len /\ data' = data
      /\ frame' = frame /\ next' = next
  BY DEF ScanHit
<1>10. /\ Mark(data, i + len - 3)
       /\ len = 4 <=> i + len > 3 /\ At(data, i + len - 4) = 0
       /\ At(data, i + len - 1) = 1
  <2>1. len > 0
    BY DEF ScanHit
  <2>2. i > 0 => ~LongMark(data, i - 1)
    BY DEF IInv, NotWithin
  <2>3. len = StartCodeLen(data, i)
    OBVIOUS
  <2> HIDE DEF len
  <2> QED
    BY <1>0, <2>1, <2>2, <2>3, CutIs
<1> HIDE DEF len
<1>3. c \in Cut /\ c.at = i + len /\ c.len = len
  BY <1>0, <1>1 DEF Cut
<1> HIDE DEF c
<1>4. /\ cuts' \in Seq(Cut) /\ Len(cuts') = k + 1
      /\ \A n \in 1 .. k : cuts'[n] = cuts[n]
      /\ cuts'[k + 1] = c
  BY <1>0, <1>2, <1>3, AppendProperties
<1>5. \A n \in 1 .. k : cuts[n].at \in Nat /\ cuts[n].len \in {3, 4}
  BY <1>0, CutFields
<1> HIDE DEF k
<1>6. ScanTypeOK'
  BY <1>0, <1>1, <1>2, <1>4 DEF IInv, ScanTypeOK
<1>7. \A n \in 1 .. k + 1 : n \in 1 .. k \/ n = k + 1
  BY <1>0
<1>8. CutsOrdered'
  <2>1. \A n \in 1 .. k :
           cuts[n].len \in {3, 4} /\ cuts[n].len <= cuts[n].at /\ cuts[n].at <= i
    BY DEF IInv, CutsOrdered, k
  <2>2. \A n \in 1 .. k + 1 : /\ cuts'[n].len \in {3, 4} /\ cuts'[n].len <= cuts'[n].at
                              /\ cuts'[n].at <= i'
    <3> SUFFICES ASSUME NEW n \in 1 .. k + 1
                 PROVE  /\ cuts'[n].len \in {3, 4} /\ cuts'[n].len <= cuts'[n].at
                        /\ cuts'[n].at <= i'
      OBVIOUS
    <3>1. CASE n \in 1 .. k
      <4>1. /\ cuts'[n] = cuts[n] /\ cuts[n].at \in Nat /\ cuts[n].len \in {3, 4}
            /\ cuts[n].len <= cuts[n].at /\ cuts[n].at <= i
        BY <1>4, <1>5, <2>1, <3>1
      <4>2. i' \in Nat /\ i <= i'
        BY <1>0, <1>1, <1>2
      <4> QED
        BY <1>0, <4>1, <4>2
    <3>2. CASE n = k + 1
      BY <1>0, <1>1, <1>2, <1>3, <1>4, <3>2
    <3> QED
      BY <1>7, <3>1, <3>2
  <2>3. ASSUME NEW m \in 1 .. k + 1, NEW n \in 1 .. k + 1, m < n
        PROVE  cuts'[m].at <= cuts'[n].at - cuts'[n].len
    <3>1. m \in 1 .. k
      BY <1>0, <2>3
    <3>2. CASE n \in 1 .. k
      <4>1. cuts[m].at <= cuts[n].at - cuts[n].len
        BY <2>3, <3>1, <3>2 DEF IInv, CutsOrdered, k
      <4> QED
        BY <1>4, <3>1, <3>2, <4>1
    <3>3. CASE n = k + 1
      <4>1. cuts[m].at <= i /\ cuts[m].at \in Nat
        BY <1>5, <2>1, <3>1
      <4> QED
        BY <1>0, <1>1, <1>3, <1>4, <3>1, <3>3, <4>1
    <3> QED
      BY <1>7, <3>2, <3>3
  <2>4. i' <= Len(data')
    BY <1>1, <1>2
  <2> QED
    BY <1>4, <2>2, <2>3, <2>4 DEF CutsOrdered
<1>9. MarksCut'
  <2> SUFFICES ASSUME NEW p \in 0 .. Len(data), Mark(data, p), p < i + len
               PROVE  \E n \in 1 .. k + 1 : cuts'[n].at = p + 3
    BY <1>2, <1>4 DEF MarksCut
  <2>1. CASE p < i
    <3>1. PICK n \in 1 .. k : cuts[n].at = p + 3
      BY <2>1 DEF IInv, MarksCut, k
    <3> QED
      BY <1>0, <1>4, <3>1
  <2>2. CASE ~ (p < i)
    <3>1. p \in Nat /\ i <= p
      BY <1>0, <2>2
    <3>2. p + 3 = i + len
      BY <1>1, <3>1
    <3>3. k + 1 \in 1 .. k + 1 /\ cuts'[k + 1].at = p + 3
      BY <1>0, <1>3, <1>4, <3>2
    <3> QED
      BY <3>3
  <2> QED
    BY <2>1, <2>2
<1>11. CutsMark'
  <2> SUFFICES ASSUME NEW n \in 1 .. k + 1
               PROVE  /\ Mark(data, cuts'[n].at - 3)
                      /\ cuts'[n].len = 4 <=> /\ cuts'[n].at > 3
                                              /\ At(data, cuts'[n].at - 4) = 0
    BY <1>2, <1>4 DEF CutsMark
  <2>1. CASE n \in 1 .. k
    <3>1. /\ Mark(data, cuts[n].at - 3)
          /\ cuts[n].len = 4 <=> cuts[n].at > 3 /\ At(data, cuts[n].at - 4) = 0
      BY <2>1 DEF IInv, CutsMark, k
    <3> QED
      BY <1>4, <2>1, <3>1
  <2>2. CASE n = k + 1
    <3>1. cuts'[n].at = i + len /\ cuts'[n].len = len
      BY <1>3, <1>4, <2>2
    <3> QED
      BY <1>0, <1>1, <1>10, <3>1
  <2> QED
    BY <1>7, <2>1, <2>2
<1>12. NotWithin'
  <2>1. ~LongMark(data, i + len - 1)
    BY <1>10 DEF LongMark
  <2>2. i' - 1 = i + len - 1 /\ data' = data
    BY <1>0, <1>1, <1>2
  <2>3. ~LongMark(data', i' - 1)
    BY <2>1, <2>2
  <2> QED
    BY <2>3 DEF NotWithin
<1> QED
  BY <1>6, <1>8, <1>9, <1>11, <1>12 DEF IInv

\* A turn of the loop that finds none.
LEMMA MissKeepsInv ==
  ASSUME IInv, ScanMiss
  PROVE  IInv'
<1>0. /\ data \in Seq(0 .. 255) /\ i \in Nat /\ cuts \in Seq(Cut)
      /\ Len(data) \in Nat /\ i < Len(data)
  BY LenProperties DEF ScanMiss, IInv, ScanTypeOK
<1>1. /\ i' = i + 1 /\ data' = data /\ cuts' = cuts /\ frame' = frame /\ next' = next
      /\ StartCodeLen(data, i) = 0
  BY DEF ScanMiss
<1>2. ~Mark(data, i)
  BY <1>0, <1>1, StartCodeLenIs
<1>3. ScanTypeOK'
  BY <1>0, <1>1 DEF IInv, ScanTypeOK
<1>4. CutsOrdered'
  <2>1. \A n \in 1 .. Len(cuts) : cuts[n].at \in Nat
    BY <1>0, CutFields
  <2> QED
    BY <1>0, <1>1, <2>1 DEF IInv, CutsOrdered
<1>5. MarksCut'
  <2> SUFFICES ASSUME NEW p \in 0 .. Len(data), Mark(data, p), p < i + 1
               PROVE  \E n \in 1 .. Len(cuts) : cuts[n].at = p + 3
    BY <1>1 DEF MarksCut
  <2>1. p # i
    BY <1>2
  <2>2. p < i
    BY <1>0, <2>1
  <2> QED
    BY <2>2 DEF IInv, MarksCut
<1>6. CutsMark'
  BY <1>1 DEF IInv, CutsMark
<1>7. NotWithin'
  <2>1. ~LongMark(data, i)
    BY <1>1 DEF StartCodeLen
  <2>2. (i + 1) - 1 = i
    BY <1>0
  <2> QED
    BY <1>1, <2>1, <2>2 DEF NotWithin
<1> QED
  BY <1>3, <1>4, <1>5, <1>6, <1>7 DEF IInv

\* Every step keeps the invariant.
LEMMA StepInv == IInv /\ [Next]_vars => IInv'
<1> SUFFICES ASSUME IInv, [Next]_vars PROVE IInv'
  OBVIOUS
<1>1. CASE BeginPack
  <2>1. data' \in Seq(0 .. 255)
    <3>1. frame \in Seq(Seq(0 .. 255)) /\ next \in 1 .. Len(frame) /\ data' = frame[next]
      BY <1>1, LenProperties DEF BeginPack, IInv, ScanTypeOK
    <3> QED
      BY <3>1, ElementOfSeq
  <2>2. /\ cuts' = <<>> /\ i' = 0 /\ Len(cuts') = 0 /\ frame' = frame /\ next' = next
    BY <1>1 DEF BeginPack
  <2>3. ScanTypeOK'
    BY <2>1, <2>2 DEF IInv, ScanTypeOK
  <2>4. Len(data') \in Nat
    BY <2>1, LenProperties
  <2>5. CutsOrdered' /\ MarksCut' /\ CutsMark' /\ NotWithin'
    BY <2>2, <2>4 DEF CutsOrdered, MarksCut, CutsMark, NotWithin
  <2> QED
    BY <2>3, <2>5 DEF IInv
<1>2. CASE SkipPack \/ EndPack \/ EndFrame \/ UNCHANGED vars
  <2>1. /\ data' = data /\ i' = i /\ cuts' = cuts /\ frame' = frame
        /\ next' \in {next, next + 1}
    BY <1>2 DEF SkipPack, EndPack, EndFrame, vars, scanVars
  <2> QED
    BY <2>1 DEF IInv, ScanTypeOK, CutsOrdered, MarksCut, CutsMark, NotWithin
<1> QED
  BY <1>1, <1>2, HitKeepsInv, MissKeepsInv DEF Next

\* The invariant holds throughout.
THEOREM ScanInvariant == Spec => []IInv
  BY InitInv, StepInv, PTL DEF Spec

\* Start codes are found in order and without overlap, in packs of any bytes: the
\* size end - start of a NAL unit never wraps around.
THEOREM ScanCutsInOrder == Spec => []CutsOrdered
<1>1. IInv => CutsOrdered
  BY DEF IInv
<1> QED
  BY <1>1, ScanInvariant, PTL

\* No NAL unit contains a start code, whatever bytes a pack has and however long it
\* is: the cuts are in order, and there is one for each 00 00 01.
THEOREM NalsFreeOfStartCodes == Spec => []NoStartCodeInNal
<1>1. IInv => NoStartCodeInNal
  <2> SUFFICES ASSUME IInv, phase = "scan", i >= Len(data)
               PROVE  /\ cuts = <<>> => \A p \in 0 .. Len(data) : ~Mark(data, p)
                      /\ \A n \in 1 .. Len(cuts) : \A p \in 0 .. Len(data) :
                            ~(Mark(data, p) /\ cuts[n].at <= p /\ p + 3 <= End(n))
    BY DEF NoStartCodeInNal
  <2>0. /\ Len(data) \in Nat /\ Len(cuts) \in Nat /\ i \in Nat
        /\ \A n \in 1 .. Len(cuts) : cuts[n].at \in Nat /\ cuts[n].len \in {3, 4}
    BY LenProperties, CutFields DEF IInv, ScanTypeOK
  <2>1. \A p \in 0 .. Len(data) :
           Mark(data, p) => \E n \in 1 .. Len(cuts) : cuts[n].at = p + 3
    BY <2>0 DEF IInv, MarksCut, Mark
  <2>2. ASSUME cuts = <<>>
        PROVE  \A p \in 0 .. Len(data) : ~Mark(data, p)
    BY <2>1, <2>2
  <2>3. ASSUME NEW n \in 1 .. Len(cuts), NEW p \in 0 .. Len(data), Mark(data, p),
               cuts[n].at <= p, p + 3 <= End(n)
        PROVE  FALSE
    <3>1. PICK m \in 1 .. Len(cuts) : cuts[m].at = p + 3
      BY <2>1, <2>3
    <3>2. \A a, b \in 1 .. Len(cuts) : a < b => cuts[a].at <= cuts[b].at - cuts[b].len
      BY DEF IInv, CutsOrdered
    <3>3. n < m
      <4>1. n # m
        BY <2>0, <2>3, <3>1
      <4>2. ~ (m < n)
        <5> SUFFICES ASSUME m < n PROVE FALSE
          OBVIOUS
        <5>1. cuts[m].at <= cuts[n].at - cuts[n].len
          BY <3>2
        <5>2. cuts[n].len >= 3 /\ cuts[n].len \in Nat /\ cuts[n].at \in Nat /\ cuts[m].at \in Nat
          BY <2>0
        <5> QED
          BY <2>0, <2>3, <3>1, <5>1, <5>2
      <4> QED
        BY <4>1, <4>2
    <3> DEFINE j == n + 1
    <3>4. j \in 1 .. Len(cuts) /\ End(n) = cuts[j].at - cuts[j].len
      BY <2>0, <3>3 DEF End
    <3>5. j = m \/ j < m
      BY <3>3
    <3> HIDE DEF j
    <3>6. cuts[j].at <= cuts[m].at
      <4>1. CASE j = m
        BY <2>0, <4>1
      <4>2. CASE j < m
        <5>1. cuts[j].at <= cuts[m].at - cuts[m].len
          BY <3>2, <3>4, <4>2
        <5>2. cuts[m].len >= 3 /\ cuts[m].len \in Nat /\ cuts[m].at \in Nat /\ cuts[j].at \in Nat
          BY <2>0, <3>4
        <5> QED
          BY <5>1, <5>2
      <4> QED
        BY <3>5, <4>1, <4>2
    <3>7. cuts[j].len >= 3 /\ cuts[j].len \in Nat /\ cuts[j].at \in Nat
      BY <2>0, <3>4
    <3> QED
      BY <2>3, <3>1, <3>4, <3>6, <3>7
  <2> QED
    BY <2>2, <2>3
<1> QED
  BY <1>1, ScanInvariant, PTL

-----------------------------------------------------------------------------
(* The frame *)

Nal == Seq(0 .. 255) \ {<<>>}

\* After the packs before the next one, access unit and cache are as defined.
Ingested ==
    /\ next <= Len(frame) + 1
    /\ phase = "scan" => next <= Len(frame) /\ data = frame[next] /\ data # <<>>
    /\ phase = "done" => next = Len(frame) + 1
    /\ \A k \in 1 .. next - 1 : Definition(frame[k]) \in Seq(Nal)
    /\ unit \in Seq(Nal)
    /\ unit = FlattenSeq([k \in 1 .. next - 1 |-> Definition(frame[k])])
    /\ cache = [k \in ParameterSets |-> Latest(codec, unit, k, <<>>)]

\* When the scan of a pack is over, its cuts give the NAL units of the definition.
LEMMA PackCut ==
  ASSUME data \in Seq(0 .. 255), data # <<>>, cuts \in Seq(Cut), i \in Nat,
         CutsOrdered, MarksCut, CutsMark, i >= Len(data)
  PROVE  Nals = Definition(data)
<1> DEFINE k == Len(cuts)
           q == [n \in 1 .. k |-> cuts[n].at - 3]
           M == {p \in 0 .. Len(data) : Mark(data, p)}
<1>0. /\ k \in Nat /\ Len(data) \in Nat /\ i = Len(data)
      /\ \A n \in 1 .. k : cuts[n].at \in Nat /\ cuts[n].len \in {3, 4}
  BY LenProperties, CutFields DEF CutsOrdered
<1>1. \A n \in 1 .. k : cuts[n].at >= 3 /\ cuts[n].at <= Len(data)
  BY <1>0 DEF CutsOrdered
<1>2. \A m, n \in 1 .. k : m < n => cuts[m].at < cuts[n].at
  <2> SUFFICES ASSUME NEW m \in 1 .. k, NEW n \in 1 .. k, m < n
               PROVE  cuts[m].at < cuts[n].at
    OBVIOUS
  <2>1. cuts[m].at <= cuts[n].at - cuts[n].len
    BY DEF CutsOrdered
  <2> QED
    BY <1>0, <2>1
<1> HIDE DEF k
<1>3. q \in Seq(Nat) /\ Len(q) = k /\ \A n \in 1 .. k : q[n] = cuts[n].at - 3
  BY <1>0, <1>1
<1>4. M = {q[n] : n \in 1 .. Len(q)}
  <2>1. ASSUME NEW p \in M
        PROVE  \E n \in 1 .. k : q[n] = p
    <3>1. p \in 0 .. Len(data) /\ Mark(data, p) /\ p + 3 <= Len(data)
      BY DEF Mark
    <3>2. p < i
      BY <1>0, <3>1
    <3>3. PICK n \in 1 .. k : cuts[n].at = p + 3
      BY <3>1, <3>2 DEF MarksCut, k
    <3>4. q[n] = p
      BY <1>0, <1>3, <3>1, <3>3
    <3> QED
      BY <3>4
  <2>2. ASSUME NEW n \in 1 .. k
        PROVE  q[n] \in M
    <3>1. Mark(data, cuts[n].at - 3)
      BY DEF CutsMark, k
    <3>2. cuts[n].at - 3 \in 0 .. Len(data)
      BY <1>0, <1>1
    <3> QED
      BY <1>3, <3>1, <3>2
  <2> HIDE DEF q, M
  <2>3. M = {q[n] : n \in 1 .. k}
    BY <2>1, <2>2
  <2> QED
    BY <1>3, <2>3
<1>5. \A m, n \in 1 .. Len(q) : m < n => q[m] < q[n]
  <2> SUFFICES ASSUME NEW m \in 1 .. k, NEW n \in 1 .. k, m < n
               PROVE  q[m] < q[n]
    BY <1>3
  <2>1. /\ q[m] = cuts[m].at - 3 /\ q[n] = cuts[n].at - 3
        /\ cuts[m].at \in Nat /\ cuts[n].at \in Nat /\ cuts[m].at < cuts[n].at
    BY <1>0, <1>2, <1>3
  <2> HIDE DEF q
  <2> QED
    BY <2>1
<1>6. Ascending(M) = q
  <2> HIDE DEF q, M
  <2> QED
    BY <1>3, <1>4, <1>5, AscendingIs
<1> DEFINE end(n) == IF n = Len(q) THEN Len(data)
                     ELSE IF q[n + 1] > 0 /\ At(data, q[n + 1] - 1) = 0
                     THEN q[n + 1] - 1 ELSE q[n + 1]
<1>7. ASSUME NEW n \in 1 .. k
      PROVE  SubSeq(data, q[n] + 4, end(n)) = SubSeq(data, cuts[n].at + 1, End(n))
  <2>1. q[n] + 4 = cuts[n].at + 1
    BY <1>0, <1>3
  <2>2. end(n) = End(n)
    <3>1. CASE n = k
      BY <1>0, <1>3, <3>1 DEF End, k
    <3>2. CASE n # k
      <4> DEFINE m == n + 1
      <4>1. m \in 1 .. k /\ n < k
        BY <1>0, <3>2
      <4> HIDE DEF m
      <4>2. End(n) = cuts[m].at - cuts[m].len
        BY <4>1 DEF End, k, m
      <4>3. q[m] = cuts[m].at - 3 /\ q[m] - 1 = cuts[m].at - 4
        BY <1>0, <1>3, <4>1
      <4>4. cuts[m].len = 4 <=> cuts[m].at > 3 /\ At(data, cuts[m].at - 4) = 0
        BY <4>1 DEF CutsMark, k
      <4>5. cuts[m].len \in {3, 4} /\ cuts[m].at \in Nat
        BY <1>0, <4>1
      <4> HIDE DEF q
      <4>6. (q[m] > 0 /\ At(data, q[m] - 1) = 0) <=> cuts[m].len = 4
        BY <4>3, <4>4, <4>5
      <4>7. (IF q[m] > 0 /\ At(data, q[m] - 1) = 0 THEN q[m] - 1 ELSE q[m]) = End(n)
        BY <4>2, <4>3, <4>5, <4>6
      <4>8. n # Len(q)
        BY <1>3, <3>2
      <4> QED
        BY <4>7, <4>8 DEF m
    <3> QED
      BY <3>1, <3>2
  <2> HIDE DEF end, q
  <2> QED
    BY <2>1, <2>2
<1>8. Definition(data) = IF q = <<>> THEN <<data>>
                         ELSE NonEmpty([n \in 1 .. Len(q) |-> SubSeq(data, q[n] + 4, end(n))])
  <2> HIDE DEF q
  <2> QED
    BY <1>6 DEF Definition
<1>9. [n \in 1 .. Len(q) |-> SubSeq(data, q[n] + 4, end(n))]
         = [n \in 1 .. Len(cuts) |-> SubSeq(data, cuts[n].at + 1, End(n))]
  <2> HIDE DEF q, end
  <2> QED
    BY <1>3, <1>7 DEF k
<1>10. q = <<>> <=> cuts = <<>>
  <2>1. q = <<>> <=> k = 0
    BY <1>0, <1>3, EmptySeq
  <2>2. cuts = <<>> <=> k = 0
    BY <1>0, EmptySeq DEF k
  <2> QED
    BY <2>1, <2>2
<1> HIDE DEF q, end
<1> QED
  BY <1>8, <1>9, <1>10 DEF Nals

\* They are sequences of bytes, and none is empty.
LEMMA NalsType ==
  ASSUME data \in Seq(0 .. 255), data # <<>>, cuts \in Seq(Cut), CutsOrdered, i \in Nat
  PROVE  Nals \in Seq(Nal)
<1> DEFINE s == [n \in 1 .. Len(cuts) |-> SubSeq(data, cuts[n].at + 1, End(n))]
<1>0. /\ Len(cuts) \in Nat /\ Len(data) \in Nat
      /\ \A n \in 1 .. Len(cuts) : cuts[n].at \in Nat /\ cuts[n].len \in {3, 4}
      /\ \A n \in 1 .. Len(data) : data[n] \in 0 .. 255
  BY LenProperties, CutFields, ElementOfSeq
<1>1. ASSUME NEW n \in 1 .. Len(cuts)
      PROVE  SubSeq(data, cuts[n].at + 1, End(n)) \in Seq(0 .. 255)
  <2>1. End(n) \in Int /\ End(n) <= Len(data)
    <3>1. CASE n = Len(cuts)
      BY <1>0, <3>1 DEF End
    <3>2. CASE n # Len(cuts)
      <4> DEFINE m == n + 1
      <4>1. m \in 1 .. Len(cuts) /\ n < Len(cuts)
        BY <1>0, <3>2
      <4>2. End(n) = cuts[m].at - cuts[m].len
        BY <4>1 DEF End
      <4> HIDE DEF m
      <4>3. /\ cuts[m].at \in Nat /\ cuts[m].len \in {3, 4}
            /\ cuts[m].at <= i /\ i <= Len(data)
        BY <1>0, <4>1 DEF CutsOrdered
      <4> QED
        BY <1>0, <4>2, <4>3
    <3> QED
      BY <3>1, <3>2
  <2> DEFINE a == cuts[n].at + 1
             b == End(n)
  <2>2. a \in Int /\ a >= 1 /\ b \in Int /\ b <= Len(data)
    BY <1>0, <2>1
  <2> HIDE DEF a, b
  <2>3. ASSUME NEW j \in a .. b
        PROVE  data[j] \in 0 .. 255
    <3>1. j \in 1 .. Len(data)
      BY <1>0, <2>2
    <3> QED
      BY <1>0, <3>1
  <2>4. SubSeq(data, a, b) \in Seq(0 .. 255)
    BY <2>2, <2>3, SubSeqProperties
  <2> QED
    BY <2>4 DEF a, b
<1>2. s \in Seq(Seq(0 .. 255))
  BY <1>0, <1>1
<1>3. NonEmpty(s) \in Seq(Nal)
  <2> HIDE DEF s
  <2> QED
    BY <1>2, NonEmptyType DEF Nal
<1>4. <<data>> \in Seq(Nal)
  BY DEF Nal
<1> QED
  BY <1>3, <1>4 DEF Nals

\* The NAL units of one more pack, appended to those before it.
LEMMA OnePackMore ==
  ASSUME IInv, Ingested, next <= Len(frame), Definition(frame[next]) \in Seq(Nal)
  PROVE  /\ FlattenSeq([k \in 1 .. next |-> Definition(frame[k])])
               = unit \o Definition(frame[next])
         /\ \A k \in 1 .. next : Definition(frame[k]) \in Seq(Nal)
<1> DEFINE ps == [k \in 1 .. next - 1 |-> Definition(frame[k])]
           p == Definition(frame[next])
           rs == [k \in 1 .. next |-> Definition(frame[k])]
<1>1. next \in Nat \ {0}
  BY DEF IInv, ScanTypeOK
<1>2. ASSUME NEW k \in 1 .. next
      PROVE  Definition(frame[k]) \in Seq(Nal)
  <2>1. k = next \/ k \in 1 .. next - 1
    BY <1>1
  <2> QED
    BY <2>1 DEF Ingested
<1>3. ps \in Seq(Seq(Nal)) /\ Len(ps) = next - 1 /\ rs \in Seq(Seq(Nal)) /\ Len(rs) = next
  <2>1. \A k \in 1 .. next - 1 : Definition(frame[k]) \in Seq(Nal)
    BY DEF Ingested
  <2> QED
    BY <1>1, <1>2, <2>1
<1>4. rs = Append(ps, p)
  <2>1. p \in Seq(Nal)
    OBVIOUS
  <2>2. \A k \in 1 .. next - 1 : rs[k] = ps[k]
    BY <1>1
  <2>3. rs[next] = p
    BY <1>1
  <2> HIDE DEF ps, p, rs
  <2>4. /\ Append(ps, p) \in Seq(Seq(Nal)) /\ Len(Append(ps, p)) = next
        /\ Append(ps, p)[next] = p
        /\ \A k \in 1 .. next - 1 : Append(ps, p)[k] = ps[k]
    BY <1>1, <1>3, <2>1, AppendProperties
  <2>5. \A k \in 1 .. next : rs[k] = Append(ps, p)[k]
    BY <1>1, <2>2, <2>3, <2>4
  <2> QED
    BY <1>3, <2>4, <2>5, SeqEqual
<1>5. FlattenSeq(rs) = FlattenSeq(ps) \o p
  <2>1. p \in Seq(Nal)
    OBVIOUS
  <2> HIDE DEF ps, p, rs
  <2> QED
    BY <1>3, <1>4, <2>1, FlattenMore
<1>6. unit = FlattenSeq(ps)
  BY DEF Ingested
<1> QED
  BY <1>2, <1>5, <1>6

\* Before the first pack nothing is collected.
LEMMA InitIngested == Init => Ingested
<1> SUFFICES ASSUME Init PROVE Ingested
  OBVIOUS
<1>1. /\ next = 1 /\ unit = <<>> /\ phase = "packs"
      /\ cache = [k \in ParameterSets |-> <<>>] /\ frame \in Seq(Seq(0 .. 255))
  BY FramesAssumption DEF Init
<1>2. Len(frame) \in Nat /\ 1 .. next - 1 = {}
  BY <1>1, LenProperties
<1>3. [k \in 1 .. next - 1 |-> Definition(frame[k])] = <<>>
  BY <1>1
<1>4. FlattenSeq(<<>>) = <<>>
  BY DEF FlattenSeq
<1>5. \A k \in ParameterSets : Latest(codec, unit, k, <<>>) = <<>>
  BY <1>1 DEF Latest, Places
<1>6. <<>> \in Seq(Nal)
  BY EmptySeq
<1> QED
  BY <1>1, <1>2, <1>3, <1>4, <1>5, <1>6 DEF Ingested

\* A pack without data adds nothing.
LEMMA SkipKeepsIngested ==
  ASSUME IInv, Ingested, SkipPack
  PROVE  Ingested'
<1>0. next \in Nat \ {0} /\ Len(frame) \in Nat /\ next <= Len(frame)
  BY LenProperties DEF SkipPack, IInv, ScanTypeOK
<1>1. /\ next' = next + 1 /\ frame' = frame /\ unit' = unit /\ cache' = cache
      /\ codec' = codec /\ phase' = "packs" /\ frame[next] = <<>>
  BY DEF SkipPack
<1>2. Definition(frame[next]) = <<>> /\ <<>> \in Seq(Nal)
  BY <1>1, EmptySeq DEF Definition
<1>3. /\ FlattenSeq([k \in 1 .. next |-> Definition(frame[k])]) = unit \o <<>>
      /\ \A k \in 1 .. next : Definition(frame[k]) \in Seq(Nal)
  BY <1>0, <1>2, OnePackMore
<1>4. unit \in Seq(Nal) /\ unit \o <<>> = unit
  BY ConcatEmptySeq DEF Ingested
<1>5. next' - 1 = next /\ next' <= Len(frame) + 1
  BY <1>0, <1>1
<1>6. cache = [k \in ParameterSets |-> Latest(codec, unit, k, <<>>)]
  BY DEF Ingested
<1> QED
  BY <1>1, <1>3, <1>4, <1>5, <1>6 DEF Ingested

\* The end of a pack: its NAL units are those of the definition, and the cache of all
\* is that of the pack over what there was.
LEMMA EndPackKeepsIngested ==
  ASSUME IInv, Ingested, EndPack
  PROVE  Ingested'
<1>0. next \in Nat \ {0} /\ Len(frame) \in Nat /\ next <= Len(frame)
  BY LenProperties DEF EndPack, IInv, ScanTypeOK, Ingested
<1>1. /\ next' = next + 1 /\ frame' = frame /\ unit' = unit \o Nals
      /\ cache' = [k \in ParameterSets |-> Latest(codec, Nals, k, cache[k])]
      /\ codec' = codec /\ phase' = "packs"
  BY DEF EndPack, Cached
<1>2. data = frame[next] /\ data # <<>>
  BY DEF EndPack, Ingested
<1>3. Nals = Definition(frame[next]) /\ Nals \in Seq(Nal)
  <2>1. /\ data \in Seq(0 .. 255) /\ cuts \in Seq(Cut) /\ i \in Nat
        /\ CutsOrdered /\ MarksCut /\ CutsMark /\ i >= Len(data)
    BY DEF EndPack, IInv, ScanTypeOK
  <2>2. Nals = Definition(data)
    BY <1>2, <2>1, PackCut
  <2>3. Nals \in Seq(Nal)
    BY <1>2, <2>1, NalsType
  <2> QED
    BY <1>2, <2>2, <2>3
<1>4. /\ FlattenSeq([k \in 1 .. next |-> Definition(frame[k])]) = unit \o Nals
      /\ \A k \in 1 .. next : Definition(frame[k]) \in Seq(Nal)
  BY <1>0, <1>3, OnePackMore
<1>5. unit \in Seq(Nal) /\ unit \o Nals \in Seq(Nal)
  BY <1>3, ConcatProperties DEF Ingested
<1>6. cache' = [k \in ParameterSets |-> Latest(codec, unit \o Nals, k, <<>>)]
  <2>1. ASSUME NEW k \in ParameterSets
        PROVE  Latest(codec, Nals, k, cache[k]) = Latest(codec, unit \o Nals, k, <<>>)
    <3>1. cache[k] = Latest(codec, unit, k, <<>>)
      BY DEF Ingested
    <3> QED
      BY <1>3, <1>5, <3>1, LatestOfBoth
  <2> QED
    BY <1>1, <2>1
<1>7. next' - 1 = next /\ next' <= Len(frame) + 1
  BY <1>0, <1>1
<1> QED
  BY <1>1, <1>4, <1>5, <1>6, <1>7 DEF Ingested

\* Every step keeps it.
LEMMA StepIngested == IInv /\ Ingested /\ [Next]_vars => Ingested'
<1> SUFFICES ASSUME IInv, Ingested, [Next]_vars PROVE Ingested'
  OBVIOUS
<1>1. CASE BeginPack
  <2>1. /\ phase' = "scan" /\ next' = next /\ frame' = frame /\ unit' = unit
        /\ cache' = cache /\ codec' = codec /\ data' = frame[next]
        /\ next <= Len(frame) /\ frame[next] # <<>>
    BY <1>1 DEF BeginPack
  <2> QED
    BY <2>1 DEF Ingested
<1>2. CASE ScanHit \/ ScanMiss \/ UNCHANGED vars
  <2>1. /\ phase' = phase /\ next' = next /\ frame' = frame /\ unit' = unit
        /\ cache' = cache /\ codec' = codec /\ data' = data
    BY <1>2 DEF ScanHit, ScanMiss, vars, scanVars
  <2> QED
    BY <2>1 DEF Ingested
<1>3. CASE EndFrame
  <2>1. /\ phase' = "done" /\ next' = next /\ frame' = frame /\ unit' = unit
        /\ cache' = cache /\ codec' = codec /\ next > Len(frame)
    BY <1>3 DEF EndFrame
  <2>2. next = Len(frame) + 1
    <3>1. next \in Nat /\ Len(frame) \in Nat /\ next <= Len(frame) + 1
      BY LenProperties DEF IInv, ScanTypeOK, Ingested
    <3> QED
      BY <2>1, <3>1
  <2> QED
    BY <2>1, <2>2 DEF Ingested
<1> QED
  BY <1>1, <1>2, <1>3, SkipKeepsIngested, EndPackKeepsIngested DEF Next

\* Whatever the packs of a frame are, its access unit is the sequence of their NAL units
\* as defined without a scan, and the parameter set cache has the last of each kind.
THEOREM FramesAreIngested == Spec => []FrameIngested
<1>1. Spec => [](IInv /\ Ingested)
  BY InitInv, InitIngested, StepInv, StepIngested, PTL DEF Spec
<1>2. IInv /\ Ingested => FrameIngested
  <2> SUFFICES ASSUME IInv, Ingested, phase = "done"
               PROVE  /\ unit = FlattenSeq([k \in DOMAIN frame |-> Definition(frame[k])])
                      /\ cache = [k \in ParameterSets |-> Latest(codec, unit, k, <<>>)]
    BY DEF FrameIngested
  <2>1. Len(frame) \in Nat /\ DOMAIN frame = 1 .. Len(frame)
    BY LenProperties DEF IInv, ScanTypeOK
  <2>2. 1 .. next - 1 = DOMAIN frame
    BY <2>1 DEF Ingested
  <2> QED
    BY <2>2 DEF Ingested
<1> QED
  BY <1>1, <1>2, PTL

\* What process_frame_nals() hands over to the queue contains no empty NAL unit: the
\* byte that classify_nal() reads is there, and live555 never gets a packet of size 0.
THEOREM NoEmptyNals == Spec => [](unit \in Seq(Seq(0 .. 255) \ {<<>>}))
<1>1. Spec => [](IInv /\ Ingested)
  BY InitInv, InitIngested, StepInv, StepIngested, PTL DEF Spec
<1>2. Ingested => unit \in Seq(Seq(0 .. 255) \ {<<>>})
  BY DEF Ingested, Nal
<1> QED
  BY <1>1, <1>2, PTL
=============================================================================
