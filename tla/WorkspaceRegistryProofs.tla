---------------------- MODULE WorkspaceRegistryProofs ----------------------
(***************************************************************************)
(* Proofs about the sender's copy of dsh's workspaces, for any number of   *)
(* workspaces, places, changes and streams: what the frames on their way   *)
(* still make of the places is dsh's registry, or the part of it that fits. *)
(***************************************************************************)
EXTENDS WorkspaceRegistry, SequenceTheorems, FiniteSetTheorems, TLAPS

-----------------------------------------------------------------------------
\* Counting up, and functions defined by counting up.

NatLess == {pair \in Nat \X Nat : pair[1] < pair[2]}

LEMMA NatLessWellFounded == IsWellFoundedOn(NatLess, Nat)
BY NatLessThanWellFounded, Zenon DEF OpToRel, NatLess

LEMMA CountingUp ==
  ASSUME NEW N \in Nat, NEW G, 0 \in G, \A n \in 1 .. N : n - 1 \in G => n \in G
  PROVE  \A n \in 0 .. N : n \in G
<1> DEFINE bad == {n \in 0 .. N : n \notin G}
<1>1. SUFFICES ASSUME bad # {} PROVE FALSE
  OBVIOUS
<1>2. bad \subseteq Nat /\ \A n \in 0 .. N : n \notin bad => n \in G
  OBVIOUS
<1>3. \A n \in bad : n \in 0 .. N /\ n \notin G
  OBVIOUS
<1> HIDE DEF bad
<1>4. PICK m \in bad : \A n \in bad : ~(<<n, m>> \in NatLess)
  BY <1>1, <1>2, NatLessWellFounded, WFMin, Zenon
<1>5. m \in 0 .. N /\ m \notin G /\ m # 0
  BY <1>3, <1>4
<1>6. m \in 1 .. N /\ m - 1 \in 0 .. N /\ <<m - 1, m>> \in NatLess
  BY <1>5 DEF NatLess
<1>7. m - 1 \in G
  BY <1>2, <1>4, <1>6
<1> QED BY <1>5, <1>6, <1>7

\* f begins with x and goes on as step says.
Runs(f, N, x, step) == f[0] = x /\ \A n \in 1 .. N : f[n] = step[<<n, f[n - 1]>>]

LEMMA RunExists ==
  ASSUME NEW X, NEW x \in X, NEW N \in Nat, NEW step \in [(1 .. N) \X X -> X]
  PROVE  \E f \in [0 .. N -> X] : Runs(f, N, x, step)
<1> DEFINE G == {n \in 0 .. N : \E f \in [0 .. n -> X] : Runs(f, n, x, step)}
<1>1. 0 \in G
  <2> DEFINE f == [n \in 0 .. 0 |-> x]
  <2>1. f \in [0 .. 0 -> X] /\ Runs(f, 0, x, step)
    BY DEF Runs
  <2> QED BY <2>1
<1>2. ASSUME NEW n \in 1 .. N, n - 1 \in G PROVE n \in G
  <2>1. PICK f \in [0 .. n - 1 -> X] : Runs(f, n - 1, x, step)
    BY <1>2
  <2> DEFINE y == step[<<n, f[n - 1]>>]
             g == [k \in 0 .. n |-> IF k = n THEN y ELSE f[k]]
  <2>2. f[n - 1] \in X /\ <<n, f[n - 1]>> \in (1 .. N) \X X
    BY <2>1
  <2>3. y \in X
    BY <2>2
  <2> HIDE DEF y
  <2>4. g \in [0 .. n -> X] /\ g[n] = y /\ \A k \in 0 .. n - 1 : g[k] = f[k]
    BY <2>1, <2>3
  <2> HIDE DEF g
  <2>5. g[0] = x
    BY <2>1, <2>4 DEF Runs
  <2>6. ASSUME NEW k \in 1 .. n PROVE g[k] = step[<<k, g[k - 1]>>]
    <3>1. CASE k = n
      <4>1. n - 1 \in 0 .. n - 1
        OBVIOUS
      <4>2. g[n - 1] = f[n - 1] /\ g[n] = y
        BY <2>4, <4>1
      <4> QED BY <3>1, <4>2 DEF y
    <3>2. CASE k # n
      <4>1. k \in 1 .. n - 1 /\ k \in 0 .. n - 1 /\ k - 1 \in 0 .. n - 1
        BY <3>2
      <4>2. f[k] = step[<<k, f[k - 1]>>]
        BY <2>1, <4>1 DEF Runs
      <4> QED BY <2>4, <4>1, <4>2
    <3> QED BY <3>1, <3>2
  <2>7. Runs(g, n, x, step)
    BY <2>5, <2>6 DEF Runs
  <2> QED BY <2>4, <2>7
<1> HIDE DEF G
<1>3. N \in G
  BY <1>1, <1>2, CountingUp
<1> QED BY <1>3 DEF G

-----------------------------------------------------------------------------
\* What is kept of a sequence.

KeptBy(f, s, S) ==
  /\ f[0] = <<>>
  /\ \A n \in 1 .. Len(s) : f[n] = IF s[n] \in S THEN Append(f[n - 1], s[n]) ELSE f[n - 1]

LEMMA KeptIs ==
  ASSUME NEW T, NEW s \in Seq(T), NEW S
  PROVE  \E f \in [0 .. Len(s) -> Seq(T)] : KeptBy(f, s, S) /\ Kept(s, S) = f[Len(s)]
<1> DEFINE N == Len(s)
           X == Seq(T)
           Eq(f) == f = [n \in 0 .. N |-> IF n = 0 THEN <<>>
                          ELSE IF s[n] \in S THEN Append(f[n - 1], s[n]) ELSE f[n - 1]]
           c == CHOOSE f : Eq(f)
           step == [p \in (1 .. N) \X X |-> IF s[p[1]] \in S THEN Append(p[2], s[p[1]]) ELSE p[2]]
<1>1. N \in Nat /\ <<>> \in X
  BY LenProperties, EmptySeq
<1>2. \A n \in 1 .. N : s[n] \in T
  BY ElementOfSeq
<1>3. \A n \in 1 .. N, q \in X : Append(q, s[n]) \in X
  BY <1>2, AppendProperties
<1>4. Kept(s, S) = c[N]
  BY DEF Kept
<1> HIDE DEF N, X
<1>5. step \in [(1 .. N) \X X -> X]
  BY <1>3
<1>6. \A n \in 1 .. N, q \in X : step[<<n, q>>] = IF s[n] \in S THEN Append(q, s[n]) ELSE q
  OBVIOUS
<1> HIDE DEF step
<1>7. PICK f \in [0 .. N -> X] : Runs(f, N, <<>>, step)
  BY <1>1, <1>5, RunExists
<1>8. ASSUME NEW n \in 1 .. N
      PROVE  f[n] = IF s[n] \in S THEN Append(f[n - 1], s[n]) ELSE f[n - 1]
  <2>1. n - 1 \in 0 .. N
    BY <1>1
  <2>2. f[n - 1] \in X
    BY <1>7, <2>1
  <2> QED BY <1>6, <1>7, <2>2 DEF Runs
<1>9. Eq(f)
  <2>1. \A n \in 0 .. N : n = 0 \/ n \in 1 .. N
    BY <1>1
  <2>2. f[0] = <<>>
    BY <1>7 DEF Runs
  <2>3. f = [n \in 0 .. N |-> f[n]]
    BY <1>7
  <2>4. ASSUME NEW n \in 0 .. N
        PROVE  f[n] = IF n = 0 THEN <<>>
                      ELSE IF s[n] \in S THEN Append(f[n - 1], s[n]) ELSE f[n - 1]
    BY <1>8, <2>1, <2>2
  <2> QED BY <2>3, <2>4
<1>10. Eq(c)
  BY <1>9
<1> HIDE DEF c
<1>11. c[0] = <<>>
  BY <1>1, <1>10
<1>12. ASSUME NEW n \in 1 .. N
       PROVE  c[n] = IF s[n] \in S THEN Append(c[n - 1], s[n]) ELSE c[n - 1]
  <2>1. n \in 0 .. N /\ n # 0
    BY <1>1
  <2> QED BY <1>10, <2>1
<1> DEFINE G == {n \in 0 .. N : c[n] = f[n]}
<1>13. 0 \in G
  BY <1>1, <1>11, <1>7 DEF Runs
<1>14. ASSUME NEW n \in 1 .. N, n - 1 \in G PROVE n \in G
  BY <1>8, <1>12, <1>14
<1> HIDE DEF G
<1>15. N \in G
  <2>1. \A n \in 0 .. N : n \in G
    BY <1>1, <1>13, <1>14, CountingUp
  <2> QED BY <1>1, <2>1
<1>16. c[N] = f[N]
  BY <1>15 DEF G
<1>17. KeptBy(f, s, S)
  BY <1>7, <1>8 DEF KeptBy, Runs, N
<1> QED BY <1>4, <1>7, <1>16, <1>17 DEF N, X

LEMMA AppendRange ==
  ASSUME NEW T, NEW q \in Seq(T), NEW x \in T
  PROVE  /\ Range(Append(q, x)) = Range(q) \cup {x}
         /\ IsInjective(q) /\ x \notin Range(q) => IsInjective(Append(q, x))
<1> DEFINE a == Append(q, x)
           n == Len(q)
<1>1. /\ n \in Nat /\ DOMAIN q = 1 .. n /\ a \in Seq(T) /\ Len(a) = n + 1
      /\ a[n + 1] = x /\ \A i \in 1 .. n : a[i] = q[i]
  <2>1. n \in Nat /\ DOMAIN q = 1 .. n
    BY LenProperties
  <2>2. a \in Seq(T) /\ Len(a) = n + 1 /\ a[n + 1] = x
    BY AppendProperties, Zenon
  <2>3. \A i \in 1 .. n : a[i] = q[i]
    BY AppendProperties
  <2> QED BY <2>1, <2>2, <2>3
<1>2. DOMAIN a = 1 .. n + 1
  BY <1>1, LenProperties
<1> HIDE DEF a, n
<1>3. \A i \in 1 .. n + 1 : i \in 1 .. n \/ i = n + 1
  BY <1>1
<1>4. n + 1 \in 1 .. n + 1 /\ \A i \in 1 .. n : i \in 1 .. n + 1
  BY <1>1
<1>5. Range(a) = Range(q) \cup {x}
  BY <1>1, <1>2, <1>3, <1>4 DEF Range
<1>6. ASSUME IsInjective(q), x \notin Range(q) PROVE IsInjective(a)
  <2>1. \A i \in 1 .. n : q[i] # x
    BY <1>1, <1>6 DEF Range
  <2>2. \A i, j \in 1 .. n : q[i] = q[j] => i = j
    BY <1>1, <1>6 DEF IsInjective
  <2>3. \A i, j \in 1 .. n + 1 : a[i] = a[j] => i = j
    BY <1>1, <1>3, <2>1, <2>2
  <2> QED BY <1>2, <2>3 DEF IsInjective
<1> QED BY <1>5, <1>6 DEF a

LEMMA RangeIs ==
  ASSUME NEW T, NEW s \in Seq(T)
  PROVE  Range(s) = {s[i] : i \in 1 .. Len(s)}
BY LenProperties DEF Range

LEMMA KeptRange ==
  ASSUME NEW T, NEW s \in Seq(T), NEW S
  PROVE  /\ Kept(s, S) \in Seq(T)
         /\ Range(Kept(s, S)) = Range(s) \cap S
         /\ IsInjective(s) => IsInjective(Kept(s, S))
<1> DEFINE N == Len(s)
           First(n) == {s[i] : i \in 1 .. n}
<1>1. N \in Nat /\ \A n \in 1 .. N : s[n] \in T
  BY LenProperties, ElementOfSeq
<1>2. PICK f \in [0 .. N -> Seq(T)] : KeptBy(f, s, S) /\ Kept(s, S) = f[N]
  BY KeptIs
<1>3. f[0] = <<>> /\ \A n \in 1 .. N : f[n] = IF s[n] \in S THEN Append(f[n - 1], s[n]) ELSE f[n - 1]
  BY <1>2 DEF KeptBy
<1>4. Range(s) = First(N) /\ DOMAIN s = 1 .. N
  BY RangeIs, LenProperties
<1> DEFINE Good(n) == Range(f[n]) = First(n) \cap S /\ (IsInjective(s) => IsInjective(f[n]))
           G == {n \in 0 .. N : Good(n)}
<1> HIDE DEF N
<1>5. 0 \in G
  <2>1. Range(<<>>) = {} /\ IsInjective(<<>>)
    BY DEF Range, IsInjective
  <2>2. First(0) = {}
    OBVIOUS
  <2> QED BY <1>1, <1>3, <2>1, <2>2
<1>6. ASSUME NEW n \in 1 .. N, n - 1 \in G PROVE n \in G
  <2>1. f[n - 1] \in Seq(T) /\ Good(n - 1) /\ s[n] \in T /\ n \in 0 .. N
    BY <1>1, <1>2, <1>6
  <2>2. First(n) = First(n - 1) \cup {s[n]}
    <3>1. \A i \in 1 .. n : i \in 1 .. n - 1 \/ i = n
      OBVIOUS
    <3>2. n \in 1 .. n /\ \A i \in 1 .. n - 1 : i \in 1 .. n
      OBVIOUS
    <3> QED BY <3>1, <3>2
  <2>3. IsInjective(s) => s[n] \notin First(n - 1)
    <3>1. \A i \in 1 .. n - 1 : i \in 1 .. N /\ i # n
      BY <1>1
    <3> QED BY <1>4, <3>1 DEF IsInjective
  <2> HIDE DEF First
  <2>4. CASE s[n] \in S
    <3>1. f[n] = Append(f[n - 1], s[n])
      BY <1>3, <2>4
    <3>2. Range(f[n]) = Range(f[n - 1]) \cup {s[n]}
      BY <2>1, <3>1, AppendRange
    <3>3. IsInjective(f[n - 1]) /\ s[n] \notin Range(f[n - 1]) => IsInjective(f[n])
      BY <2>1, <3>1, AppendRange
    <3> QED BY <2>1, <2>2, <2>3, <2>4, <3>2, <3>3
  <2>5. CASE s[n] \notin S
    <3>1. f[n] = f[n - 1]
      BY <1>3, <2>5
    <3> QED BY <2>1, <2>2, <2>5, <3>1
  <2> QED BY <2>4, <2>5
<1> HIDE DEF G
<1>7. \A n \in 0 .. N : n \in G
  BY <1>1, <1>5, <1>6, CountingUp
<1>8. N \in 0 .. N
  BY <1>1
<1>9. Good(N)
  BY <1>7, <1>8 DEF G
<1>10. f[N] \in Seq(T)
  BY <1>2, <1>8
<1> QED BY <1>2, <1>4, <1>9, <1>10

LEMMA KeptAll ==
  ASSUME NEW T, NEW s \in Seq(T), NEW S, Range(s) \subseteq S
  PROVE  Kept(s, S) = s
<1> DEFINE N == Len(s)
<1>1. N \in Nat /\ \A n \in 1 .. N : s[n] \in T
  BY LenProperties, ElementOfSeq
<1>2. PICK f \in [0 .. N -> Seq(T)] : KeptBy(f, s, S) /\ Kept(s, S) = f[N]
  BY KeptIs
<1>3. \A n \in 1 .. N : s[n] \in S
  BY RangeIs
<1>4. f[0] = <<>> /\ \A n \in 1 .. N : f[n] = Append(f[n - 1], s[n])
  BY <1>2, <1>3 DEF KeptBy
<1> DEFINE Good(n) == Len(f[n]) = n /\ \A i \in 1 .. n : f[n][i] = s[i]
           G == {n \in 0 .. N : Good(n)}
<1>5. 0 \in G
  BY <1>1, <1>4
<1>6. ASSUME NEW n \in 1 .. N, n - 1 \in G PROVE n \in G
  <2>1. f[n - 1] \in Seq(T) /\ Good(n - 1) /\ s[n] \in T /\ n \in 0 .. N
    BY <1>1, <1>2, <1>6
  <2> DEFINE q == f[n - 1]
             x == s[n]
             a == Append(q, x)
  <2>2. q \in Seq(T) /\ x \in T /\ Len(q) = n - 1 /\ \A i \in 1 .. n - 1 : q[i] = s[i]
    BY <2>1
  <2>5. f[n] = a
    BY <1>4
  <2> HIDE DEF q
  <2> HIDE DEF x
  <2>3. Len(a) = Len(q) + 1 /\ a[Len(q) + 1] = x
    BY <2>2, AppendProperties, Zenon
  <2>4. \A i \in 1 .. Len(q) : a[i] = q[i]
    BY <2>2, AppendProperties
  <2> DEFINE k == Len(q)
  <2>6. k = n - 1 /\ Len(a) = k + 1 /\ a[k + 1] = s[n] /\ \A i \in 1 .. k : a[i] = q[i] /\ q[i] = s[i]
    BY <2>2, <2>3, <2>4 DEF x
  <2> HIDE DEF a, k
  <2>7. Len(a) = n /\ \A i \in 1 .. n : a[i] = s[i]
    BY <2>6
  <2> QED BY <2>1, <2>5, <2>7
<1> HIDE DEF G
<1>7. \A n \in 0 .. N : n \in G
  BY <1>1, <1>5, <1>6, CountingUp
<1>8. Good(N) /\ f[N] \in Seq(T)
  <2>1. N \in 0 .. N
    BY <1>1
  <2> QED BY <1>2, <1>7, <2>1 DEF G
<1>9. f[N] = s
  BY <1>8, SeqEqual
<1> QED BY <1>2, <1>9

LEMMA KeptNone ==
  ASSUME NEW T, NEW s \in Seq(T), NEW S, Range(s) \cap S = {}
  PROVE  Kept(s, S) = <<>>
<1>1. Kept(s, S) \in Seq(T) /\ Range(Kept(s, S)) = {}
  BY KeptRange
<1> DEFINE k == Kept(s, S)
<1>2. Range(k) = {k[i] : i \in 1 .. Len(k)} /\ Len(k) \in Nat
  BY <1>1, RangeIs, LenProperties
<1>3. ~(Len(k) \in Nat \ {0})
  <2>1. SUFFICES ASSUME Len(k) \in Nat \ {0} PROVE FALSE
    OBVIOUS
  <2>2. 1 \in 1 .. Len(k)
    BY <2>1
  <2> QED BY <1>1, <1>2, <2>2
<1> QED BY <1>1, <1>3, EmptySeq

-----------------------------------------------------------------------------
\* Sequences in which every workspace has one place.

Distinct(s) == \A i, j \in DOMAIN s : s[i].id = s[j].id => i = j
Placings == {s \in Seq(Views) : Distinct(s)}

LEMMA DistinctIs ==
  ASSUME NEW s \in Seq(Views)
  PROVE  Distinct(s) <=> IsInjective(s) /\ \A v, w \in Range(s) : v.id = w.id => v = w
<1>1. Range(s) = {s[i] : i \in DOMAIN s}
  BY DEF Range
<1> QED BY <1>1 DEF Distinct, IsInjective

\* What is put together from the parts of a placing, each once, is one.
LEMMA PartsAreDistinct ==
  ASSUME NEW s \in Placings, NEW t \in Seq(Views), IsInjective(t), Range(t) \subseteq Range(s)
  PROVE  t \in Placings
<1>1. s \in Seq(Views) /\ Distinct(s)
  BY DEF Placings
<1>2. \A v, w \in Range(t) : v.id = w.id => v = w
  BY <1>1, DistinctIs
<1> QED BY <1>2, DistinctIs DEF Placings

\* It is no longer than the placing.
LEMMA PartsAreShort ==
  ASSUME NEW T, NEW s \in Seq(T), NEW t \in Seq(T), IsInjective(t), Range(t) \subseteq Range(s)
  PROVE  Len(t) <= Len(s)
<1> DEFINE n == Len(s)
           m == Len(t)
<1>1. n \in Nat /\ m \in Nat /\ DOMAIN s = 1 .. n /\ DOMAIN t = 1 .. m
  BY LenProperties
<1>2. Range(s) = {s[i] : i \in 1 .. n} /\ Range(t) = {t[i] : i \in 1 .. m}
  BY RangeIs
<1>3. s \in Surjection(1 .. n, Range(s))
  <2>1. s \in [1 .. n -> Range(s)]
    BY LenProperties, <1>2
  <2> QED BY <1>2, <2>1 DEF Surjection
<1>4. t \in Injection(1 .. m, Range(s))
  <2>1. t \in [1 .. m -> T]
    BY LenProperties
  <2>2. \A i \in 1 .. m : t[i] \in Range(s)
    BY <1>2
  <2>3. t \in [1 .. m -> Range(s)]
    BY <2>1, <2>2
  <2> QED BY <1>1, <2>3 DEF Injection
<1> HIDE DEF n, m
<1>5. IsFiniteSet(1 .. n) /\ Cardinality(1 .. n) = n
  BY <1>1, FS_Interval
<1>6. IsFiniteSet(1 .. m) /\ Cardinality(1 .. m) = m
  BY <1>1, FS_Interval
<1>7. IsFiniteSet(Range(s)) /\ Cardinality(Range(s)) <= n
  BY <1>3, <1>5, FS_Surjection
<1>8. m <= Cardinality(Range(s))
  BY <1>4, <1>6, <1>7, FS_Injection
<1>9. Cardinality(Range(s)) \in Nat
  BY <1>7, FS_CardinalityType
<1> QED BY <1>1, <1>7, <1>8, <1>9 DEF n, m

\* A sequence as long as one with nothing twice, of the same things, has nothing twice.
LEMMA ReorderedIsInjective ==
  ASSUME NEW T, NEW s \in Seq(T), NEW t \in Seq(T),
         IsInjective(s), Len(t) = Len(s), Range(t) = Range(s)
  PROVE  IsInjective(t)
<1> DEFINE n == Len(s)
<1>1. n \in Nat /\ DOMAIN s = 1 .. n /\ DOMAIN t = 1 .. n
  BY LenProperties
<1>2. Range(s) = {s[i] : i \in 1 .. n} /\ Range(t) = {t[i] : i \in 1 .. n}
  BY RangeIs
<1>3. s \in [1 .. n -> Range(s)] /\ t \in [1 .. n -> Range(s)]
  <2>1. s \in [1 .. n -> T] /\ t \in [1 .. n -> T]
    BY LenProperties
  <2> QED BY <1>2, <2>1
<1>4. s \in Bijection(1 .. n, Range(s)) /\ t \in Surjection(1 .. n, Range(s))
  BY <1>1, <1>2, <1>3 DEF Bijection, Injection, Surjection
<1> HIDE DEF n
<1>5. IsFiniteSet(1 .. n)
  BY <1>1, FS_Interval
<1>6. Cardinality(Range(s)) = Cardinality(1 .. n)
  BY <1>4, <1>5, FS_Bijection DEF ExistsBijection
<1>7. t \in Injection(1 .. n, Range(s))
  BY <1>4, <1>5, <1>6, FS_SurjSameCardinalityImpliesInj
<1> QED BY <1>7 DEF Injection

LEMMA BackToBack ==
  ASSUME NEW T, NEW s \in Seq(T), NEW t \in Seq(T), IsInjective(s), IsInjective(t),
         Range(s) \cap Range(t) = {}
  PROVE  IsInjective(s \o t)
<1> DEFINE m == Len(s)
           n == Len(t)
           c == s \o t
<1>1. /\ m \in Nat /\ n \in Nat /\ DOMAIN s = 1 .. m /\ DOMAIN t = 1 .. n
      /\ c \in Seq(T) /\ Len(c) = m + n
  BY LenProperties, ConcatProperties
<1>2. \A i \in 1 .. m + n : c[i] = IF i <= m THEN s[i] ELSE t[i - m]
  BY ConcatProperties
<1>3. DOMAIN c = 1 .. m + n
  BY <1>1, LenProperties
<1>4. \A i \in 1 .. m, j \in 1 .. n : s[i] # t[j]
  <2>1. Range(s) = {s[i] : i \in 1 .. m} /\ Range(t) = {t[i] : i \in 1 .. n}
    BY RangeIs
  <2> QED BY <2>1
<1>5. /\ \A i, j \in 1 .. m : s[i] = s[j] => i = j
      /\ \A i, j \in 1 .. n : t[i] = t[j] => i = j
  BY <1>1 DEF IsInjective
<1> HIDE DEF m, n, c
<1>6. ASSUME NEW i \in 1 .. m + n, NEW j \in 1 .. m + n, c[i] = c[j] PROVE i = j
  <2>1. /\ i <= m => i \in 1 .. m /\ c[i] = s[i]
        /\ j <= m => j \in 1 .. m /\ c[j] = s[j]
        /\ ~(i <= m) => i - m \in 1 .. n /\ c[i] = t[i - m]
        /\ ~(j <= m) => j - m \in 1 .. n /\ c[j] = t[j - m]
    BY <1>1, <1>2
  <2>2. CASE i <= m /\ j <= m
    BY <1>5, <1>6, <2>1, <2>2
  <2>3. CASE ~(i <= m) /\ ~(j <= m)
    <3>1. i - m = j - m
      BY <1>5, <1>6, <2>1, <2>3
    <3> QED BY <1>1, <3>1
  <2>4. CASE i <= m /\ ~(j <= m)
    BY <1>4, <1>6, <2>1, <2>4
  <2>5. CASE ~(i <= m) /\ j <= m
    BY <1>4, <1>6, <2>1, <2>5
  <2> QED BY <2>2, <2>3, <2>4, <2>5
<1> QED BY <1>3, <1>6 DEF IsInjective, c

-----------------------------------------------------------------------------
\* Storing a workspace.

LEMMA ViewHasId == \A w \in Views : w.id \in Workspaces
BY DEF Views

LEMMA PlacedIs ==
  ASSUME NEW s \in Placings, NEW w \in Views
  PROVE  /\ Placed(s, w) \in Placings
         /\ Range(Placed(s, w)) = {v \in Range(s) : v.id # w.id} \cup {w}
         /\ Len(Placed(s, w)) = IF Has(s, w.id) THEN Len(s) ELSE Len(s) + 1
<1> DEFINE n == Len(s)
           p == Placed(s, w)
<1>1. /\ s \in Seq(Views) /\ n \in Nat /\ DOMAIN s = 1 .. n /\ \A i \in 1 .. n : s[i] \in Views
      /\ \A i, j \in 1 .. n : s[i].id = s[j].id => i = j
  BY LenProperties, ElementOfSeq DEF Placings, Distinct
<1>2. Range(s) = {s[i] : i \in 1 .. n}
  BY <1>1, RangeIs
<1>3. CASE Has(s, w.id)
  <2>1. p = [i \in 1 .. n |-> IF s[i].id = w.id THEN w ELSE s[i]]
    BY <1>1, <1>3 DEF Placed
  <2>2. PICK k \in 1 .. n : s[k].id = w.id
    BY <1>1, <1>3 DEF Has, Named
  <2> HIDE DEF p, n
  <2>3. p \in Seq(Views) /\ Len(p) = n /\ DOMAIN p = 1 .. n
    BY <1>1, <2>1
  <2>4. \A i \in 1 .. n : p[i] = IF s[i].id = w.id THEN w ELSE s[i]
    BY <2>1
  <2>5. \A i \in 1 .. n : p[i].id = s[i].id
    BY <2>4
  <2>6. Range(p) = {p[i] : i \in 1 .. n}
    BY <2>3 DEF Range
  <2>7. Range(p) = {v \in Range(s) : v.id # w.id} \cup {w}
    BY <1>2, <2>2, <2>4, <2>6
  <2>8. Distinct(p)
    BY <1>1, <2>3, <2>5 DEF Distinct
  <2> QED BY <1>3, <2>3, <2>7, <2>8 DEF Placings, p, n
<1>4. CASE ~Has(s, w.id)
  <2>1. p = Append(s, w)
    BY <1>4 DEF Placed
  <2>2. \A i \in 1 .. n : s[i].id # w.id
    BY <1>1, <1>4 DEF Has, Named
  <2>3. \A v \in Range(s) : v.id # w.id
    BY <1>2, <2>2
  <2>4. p \in Seq(Views) /\ Len(p) = n + 1
    BY <1>1, <2>1, AppendProperties
  <2>5. Range(p) = Range(s) \cup {w} /\ (IsInjective(s) => IsInjective(p))
    BY <1>1, <2>1, <2>3, AppendRange
  <2>6. IsInjective(s) /\ \A u, v \in Range(s) : u.id = v.id => u = v
    BY <1>1, DistinctIs DEF Placings
  <2>7. \A u, v \in Range(p) : u.id = v.id => u = v
    BY <2>3, <2>5, <2>6
  <2>8. Distinct(p)
    BY <2>4, <2>5, <2>6, <2>7, DistinctIs
  <2>9. Range(p) = {v \in Range(s) : v.id # w.id} \cup {w}
    BY <2>3, <2>5
  <2> QED BY <1>4, <2>4, <2>8, <2>9 DEF Placings
<1> QED BY <1>3, <1>4

\* The places: as many workspaces as there is room for.
PlaceLists == {s \in Placings : Len(s) <= MaxWorkspaces}

LEMMA HeldIs ==
  \A s \in PlaceLists : s \in Placings /\ s \in Seq(Views) /\ Distinct(s) /\ Len(s) \in Nat /\ Len(s) <= MaxWorkspaces
BY LenProperties DEF PlaceLists, Placings

LEMMA PlaceIs ==
  ASSUME NEW s \in PlaceLists, NEW w \in Views
  PROVE  /\ Place(s, w) \in PlaceLists
         /\ Range(Place(s, w)) \subseteq {v \in Range(s) : v.id # w.id} \cup {w}
         /\ Len(Placed(s, w)) <= MaxWorkspaces => Place(s, w) = Placed(s, w)
<1> DEFINE n == Len(s)
           m == Len(Placed(s, w))
<1>1. /\ s \in Placings /\ Placed(s, w) \in Placings /\ n \in Nat /\ n <= MaxWorkspaces
      /\ Range(Placed(s, w)) = {v \in Range(s) : v.id # w.id} \cup {w}
      /\ m = IF Has(s, w.id) THEN n ELSE n + 1
  BY HeldIs, PlacedIs
<1>2. Place(s, w) = IF Has(s, w.id) \/ n < MaxWorkspaces THEN Placed(s, w) ELSE s
  BY DEF Place
<1>3. MaxWorkspaces \in Nat
  BY WorkspaceAssumption
<1>4. CASE Has(s, w.id) \/ n < MaxWorkspaces
  <2>1. m <= MaxWorkspaces
    BY <1>1, <1>3, <1>4
  <2> QED BY <1>1, <1>2, <1>4, <2>1 DEF PlaceLists
<1>5. CASE ~(Has(s, w.id) \/ n < MaxWorkspaces)
  <2>1. Place(s, w) = s
    BY <1>2, <1>5
  <2>2. ~(m <= MaxWorkspaces)
    BY <1>1, <1>3, <1>5
  <2>3. \A v \in Range(s) : v.id # w.id
    BY <1>5 DEF Has, Named, Range
  <2> QED BY <2>1, <2>2, <2>3
<1> QED BY <1>4, <1>5

-----------------------------------------------------------------------------
\* A baseline: the items that fit.

Fitting(n) == IF n < MaxWorkspaces THEN n ELSE MaxWorkspaces
Beginning(items, n) == [i \in 1 .. Fitting(n) |-> items[i]]

LEMMA BeginningIs ==
  ASSUME NEW items \in Placings, NEW n \in 0 .. Len(items)
  PROVE  /\ Beginning(items, n) \in PlaceLists /\ Fitting(n) \in 0 .. n
         /\ Len(Beginning(items, n)) = Fitting(n)
         /\ \A i \in 1 .. Fitting(n) : Beginning(items, n)[i] = items[i]
<1> DEFINE N == Len(items)
           k == Fitting(n)
           b == Beginning(items, n)
<1>1. /\ items \in Seq(Views) /\ N \in Nat /\ DOMAIN items = 1 .. N
      /\ \A i \in 1 .. N : items[i] \in Views
      /\ \A i, j \in 1 .. N : items[i].id = items[j].id => i = j
  BY LenProperties, ElementOfSeq DEF Placings, Distinct
<1> HIDE DEF N
<1>2. n \in 0 .. N
  BY DEF N
<1>3. k \in 0 .. n /\ k <= MaxWorkspaces
  BY <1>1, <1>2, WorkspaceAssumption DEF Fitting
<1>4. b = [i \in 1 .. k |-> items[i]]
  BY DEF Beginning
<1> HIDE DEF k, b
<1>5. \A i \in 1 .. k : i \in 1 .. N
  BY <1>1, <1>2, <1>3
<1>6. b \in Seq(Views) /\ Len(b) = k /\ DOMAIN b = 1 .. k
  BY <1>1, <1>3, <1>4, <1>5
<1>7. \A i \in 1 .. k : b[i] = items[i]
  BY <1>4
<1>8. Distinct(b)
  BY <1>1, <1>5, <1>6, <1>7 DEF Distinct
<1> QED BY <1>3, <1>6, <1>7, <1>8 DEF PlaceLists, Placings, k, b

LEMMA BeginningOn ==
  ASSUME NEW items \in Placings, NEW n \in 1 .. Len(items)
  PROVE  Place(Beginning(items, n - 1), items[n]) = Beginning(items, n)
<1> DEFINE N == Len(items)
           b == Beginning(items, n - 1)
           c == Beginning(items, n)
           k == Fitting(n - 1)
           w == items[n]
<1>1. /\ items \in Seq(Views) /\ N \in Nat /\ n \in 1 .. N /\ DOMAIN items = 1 .. N
      /\ w \in Views /\ \A i, j \in 1 .. N : items[i].id = items[j].id => i = j
  BY LenProperties, ElementOfSeq DEF Placings, Distinct
<1>2. n - 1 \in 0 .. N /\ n \in 0 .. N
  BY <1>1
<1>3. /\ b \in PlaceLists /\ k \in 0 .. n - 1 /\ Len(b) = k /\ \A i \in 1 .. k : b[i] = items[i]
      /\ c \in PlaceLists /\ Len(c) = Fitting(n) /\ \A i \in 1 .. Fitting(n) : c[i] = items[i]
  BY <1>2, BeginningIs
<1>4. b \in Seq(Views) /\ c \in Seq(Views) /\ DOMAIN b = 1 .. k
  BY <1>3, HeldIs, LenProperties
<1>5. Fitting(n) = IF k < MaxWorkspaces THEN k + 1 ELSE k
  BY <1>1, WorkspaceAssumption DEF Fitting
<1>6. k < MaxWorkspaces => k + 1 = n
  BY <1>1, WorkspaceAssumption DEF Fitting
<1>7. Place(b, w) = IF Has(b, w.id) \/ Len(b) < MaxWorkspaces THEN Placed(b, w) ELSE b
  BY DEF Place
<1>8. k \in Nat /\ Len(b) = k
  BY <1>3
<1> HIDE DEF N, b, c, k, w
<1>9. ~Has(b, w.id)
  <2>1. ASSUME NEW i \in 1 .. k PROVE b[i].id # w.id
    <3>1. i \in 1 .. N /\ i # n
      BY <1>1, <1>3
    <3> QED BY <1>1, <1>3, <3>1 DEF w
  <2> QED BY <1>4, <2>1 DEF Has, Named
<1>10. Placed(b, w) = Append(b, w)
  BY <1>9 DEF Placed
<1>11. CASE k < MaxWorkspaces
  <2> DEFINE a == Append(b, w)
  <2>0. b \in Seq(Views) /\ w \in Views
    BY <1>1, <1>4
  <2>1. a \in Seq(Views) /\ Len(a) = Len(b) + 1 /\ a[Len(b) + 1] = w
    <3>1. a \in Seq(Views)
      BY <2>0, AppendProperties, Zenon
    <3>2. Len(a) = Len(b) + 1
      BY <2>0, AppendProperties, Zenon
    <3>3. a[Len(b) + 1] = w
      BY <2>0, AppendProperties, Zenon
    <3> QED BY <3>1, <3>2, <3>3
  <2>2. \A i \in 1 .. Len(b) : a[i] = b[i]
    BY <2>0, AppendProperties
  <2>3. Place(b, w) = a
    BY <1>7, <1>8, <1>10, <1>11
  <2> HIDE DEF a
  <2>4. Len(a) = k + 1 /\ a[k + 1] = w /\ \A i \in 1 .. k : a[i] = b[i]
    BY <1>8, <2>1, <2>2
  <2>5. Len(c) = k + 1 /\ \A i \in 1 .. k + 1 : c[i] = items[i]
    BY <1>3, <1>5, <1>11
  <2>6. ASSUME NEW i \in 1 .. k + 1 PROVE a[i] = c[i]
    <3>1. CASE i = k + 1
      BY <1>6, <1>11, <2>4, <2>5, <3>1 DEF w
    <3>2. CASE i # k + 1
      <4>1. i \in 1 .. k
        BY <1>8, <3>2
      <4> QED BY <1>3, <2>4, <2>5, <4>1
    <3> QED BY <3>1, <3>2
  <2>7. a = c
    BY <1>4, <2>1, <2>4, <2>5, <2>6, SeqEqual
  <2> QED BY <2>3, <2>7 DEF a, b, c, w
<1>12. CASE ~(k < MaxWorkspaces)
  <2>1. Place(b, w) = b
    BY <1>7, <1>8, <1>9, <1>12
  <2>2. Len(c) = k /\ \A i \in 1 .. k : c[i] = items[i]
    BY <1>3, <1>5, <1>12
  <2>3. b = c
    BY <1>3, <1>4, <1>8, <2>2, SeqEqual
  <2> QED BY <2>1, <2>3 DEF b, c, w
<1> QED BY <1>11, <1>12

LEMMA FilledIs ==
  ASSUME NEW items \in Placings
  PROVE  Filled(items) = Beginning(items, Len(items))
<1> DEFINE N == Len(items)
           Eq(f) == f = [n \in 0 .. N |-> IF n = 0 THEN <<>> ELSE Place(f[n - 1], items[n])]
           c == CHOOSE f : Eq(f)
           b == [n \in 0 .. N |-> Beginning(items, n)]
<1>1. N \in Nat
  BY LenProperties DEF Placings
<1>2. Filled(items) = c[N]
  BY DEF Filled
<1>3. Beginning(items, 0) = <<>>
  BY <1>1, WorkspaceAssumption DEF Beginning, Fitting
<1>4. \A n \in 1 .. N : Place(Beginning(items, n - 1), items[n]) = Beginning(items, n)
  BY BeginningOn
<1> HIDE DEF N
<1>5. /\ b = [n \in 0 .. N |-> b[n]] /\ b[0] = <<>>
      /\ \A n \in 1 .. N : n - 1 \in 0 .. N /\ n \in 0 .. N
      /\ \A n \in 1 .. N : b[n] = Beginning(items, n) /\ b[n - 1] = Beginning(items, n - 1)
  BY <1>1, <1>3
<1> HIDE DEF b
<1>6. Eq(b)
  <2>1. ASSUME NEW n \in 0 .. N PROVE b[n] = IF n = 0 THEN <<>> ELSE Place(b[n - 1], items[n])
    <3>1. n = 0 \/ n \in 1 .. N
      BY <1>1
    <3> QED BY <1>4, <1>5, <3>1
  <2> QED BY <1>5, <2>1
<1>7. Eq(c)
  BY <1>6
<1> HIDE DEF c
<1> DEFINE G == {n \in 0 .. N : c[n] = Beginning(items, n)}
<1>8. 0 \in G
  BY <1>1, <1>3, <1>7
<1>9. ASSUME NEW n \in 1 .. N, n - 1 \in G PROVE n \in G
  <2>1. n \in 0 .. N /\ n # 0
    BY <1>1
  <2>2. c[n] = Place(c[n - 1], items[n])
    BY <1>7, <2>1
  <2> QED BY <1>4, <1>9, <2>1, <2>2
<1> HIDE DEF G
<1>10. \A n \in 0 .. N : n \in G
  BY <1>1, <1>8, <1>9, CountingUp
<1>11. c[N] = Beginning(items, N)
  <2>1. N \in G
    BY <1>1, <1>10
  <2> QED BY <2>1 DEF G
<1> QED BY <1>2, <1>11 DEF N

LEMMA BaselineIs ==
  ASSUME NEW items \in Placings
  PROVE  /\ Filled(items) \in PlaceLists /\ Range(Filled(items)) \subseteq Range(items)
         /\ Len(items) <= MaxWorkspaces => Filled(items) = items
<1> DEFINE N == Len(items)
           b == Beginning(items, N)
           k == Fitting(N)
<1>1. N \in Nat /\ items \in Seq(Views)
  BY LenProperties DEF Placings
<1>2. b \in PlaceLists /\ k \in 0 .. N /\ Len(b) = k /\ \A i \in 1 .. k : b[i] = items[i]
  BY <1>1, BeginningIs
<1>3. b \in Seq(Views)
  BY <1>2, HeldIs
<1>4. Range(b) = {b[i] : i \in 1 .. Len(b)} /\ Range(items) = {items[i] : i \in 1 .. N}
  BY <1>1, <1>3, RangeIs
<1>5. Len(items) <= MaxWorkspaces => k = N
  BY <1>1, WorkspaceAssumption DEF Fitting
<1>6. Filled(items) = b
  BY FilledIs
<1> HIDE DEF b, k
<1>7. Range(b) \subseteq Range(items)
  BY <1>1, <1>2, <1>4
<1>8. k = N => b = items
  BY <1>1, <1>2, <1>3, SeqEqual
<1> QED BY <1>2, <1>5, <1>6, <1>7, <1>8

-----------------------------------------------------------------------------
\* An order.

OrderIds == {ids \in Seq(Workspaces) : IsInjective(ids)}

LEMMA SlotIs ==
  ASSUME NEW s \in Placings, NEW id, Has(s, id)
  PROVE  SlotOf(s, id) \in Range(s) /\ SlotOf(s, id).id = id
<1> DEFINE k == CHOOSE i \in Named(s, id) : TRUE
<1>1. k \in Named(s, id)
  BY DEF Has
<1>2. SlotOf(s, id) = s[k]
  BY DEF SlotOf
<1> HIDE DEF k
<1> QED BY <1>1, <1>2 DEF Named, Range

LEMMA ReorderedIs ==
  ASSUME NEW s \in PlaceLists, NEW ids \in OrderIds
  PROVE  Reordered(s, ids) \in PlaceLists /\ Range(Reordered(s, ids)) \subseteq Range(s)
<1> DEFINE named == NamedIds(s, ids)
           n == Len(named)
           front == [i \in DOMAIN named |-> SlotOf(s, named[i])]
           back == Unnamed(s, ids)
           r == front \o back
<1>1. s \in Placings /\ s \in Seq(Views) /\ Distinct(s) /\ Len(s) \in Nat /\ Len(s) <= MaxWorkspaces
  BY HeldIs
<1>2. ids \in Seq(Workspaces) /\ IsInjective(ids)
  BY DEF OrderIds
<1>3. /\ named \in Seq(Workspaces) /\ IsInjective(named)
      /\ Range(named) = Range(ids) \cap {id \in Workspaces : Has(s, id)}
  BY <1>2, KeptRange DEF NamedIds
<1>4. /\ back \in Seq(Views) /\ (IsInjective(s) => IsInjective(back))
      /\ Range(back) = Range(s) \cap {w \in Views : w.id \notin Range(named)}
  BY <1>1, KeptRange DEF Unnamed
<1>5. Reordered(s, ids) = r
  BY DEF Reordered
<1>6. n \in Nat /\ DOMAIN named = 1 .. n /\ Range(named) = {named[i] : i \in 1 .. n}
  BY <1>3, LenProperties, RangeIs
<1>7. \A i, j \in 1 .. n : named[i] = named[j] => i = j
  BY <1>3, <1>6 DEF IsInjective
<1> HIDE DEF named, n, back
<1>8. \A i \in 1 .. n : SlotOf(s, named[i]) \in Range(s) /\ SlotOf(s, named[i]).id = named[i]
  BY <1>1, <1>3, <1>6, SlotIs
<1>9. Range(s) \subseteq Views
  BY <1>1, RangeOfSeq
<1>10. /\ front \in Seq(Views) /\ Len(front) = n /\ DOMAIN front = 1 .. n
       /\ \A i \in 1 .. n : front[i] = SlotOf(s, named[i])
  BY <1>6, <1>8, <1>9
<1> HIDE DEF front
<1>11. Range(front) = {front[i] : i \in 1 .. n}
  BY <1>10 DEF Range
<1>12. IsInjective(front)
  BY <1>7, <1>8, <1>10 DEF IsInjective
<1>13. \A v \in Range(front) : v \in Range(s) /\ v.id \in Range(named)
  BY <1>6, <1>8, <1>10, <1>11
<1>14. Range(front) \cap Range(back) = {}
  BY <1>4, <1>13
<1>15. IsInjective(back)
  BY <1>1, <1>4, DistinctIs
<1>16. r \in Seq(Views) /\ Range(r) = Range(front) \cup Range(back)
  BY <1>4, <1>10, ConcatProperties, RangeConcatenation
<1>17. IsInjective(r)
  BY <1>4, <1>10, <1>12, <1>14, <1>15, BackToBack
<1>18. Range(r) \subseteq Range(s)
  BY <1>4, <1>13, <1>16
<1> HIDE DEF r
<1>19. r \in Placings
  BY <1>1, <1>16, <1>17, <1>18, PartsAreDistinct
<1>20. Len(r) <= Len(s)
  BY <1>1, <1>16, <1>17, <1>18, PartsAreShort
<1>21. Len(r) <= MaxWorkspaces
  <2>1. Len(r) \in Nat /\ MaxWorkspaces \in Nat
    BY <1>16, LenProperties, WorkspaceAssumption
  <2> QED BY <1>1, <1>20, <2>1
<1> QED BY <1>5, <1>18, <1>19, <1>21 DEF PlaceLists

LEMMA IdsAre ==
  ASSUME NEW s \in Placings
  PROVE  /\ IdsOf(s) \in OrderIds /\ Len(IdsOf(s)) = Len(s)
         /\ \A i \in 1 .. Len(s) : IdsOf(s)[i] = s[i].id
<1> DEFINE n == Len(s)
           ids == IdsOf(s)
<1>1. /\ s \in Seq(Views) /\ n \in Nat /\ DOMAIN s = 1 .. n /\ \A i \in 1 .. n : s[i] \in Views
      /\ \A i, j \in 1 .. n : s[i].id = s[j].id => i = j
  BY LenProperties, ElementOfSeq DEF Placings, Distinct
<1>2. ids = [i \in 1 .. n |-> s[i].id]
  BY <1>1 DEF IdsOf
<1>3. \A i \in 1 .. n : s[i].id \in Workspaces
  BY <1>1, ViewHasId
<1> HIDE DEF n, ids
<1>4. ids \in Seq(Workspaces) /\ Len(ids) = n /\ DOMAIN ids = 1 .. n
  BY <1>1, <1>2, <1>3
<1>5. \A i \in 1 .. n : ids[i] = s[i].id
  BY <1>2
<1>6. IsInjective(ids)
  BY <1>1, <1>4, <1>5 DEF IsInjective
<1> QED BY <1>4, <1>5, <1>6 DEF OrderIds, n, ids

LEMMA ReorderedAll ==
  ASSUME NEW s \in PlaceLists, NEW t \in Placings, Range(t) = Range(s)
  PROVE  Reordered(s, IdsOf(t)) = t
<1> DEFINE ids == IdsOf(t)
           named == NamedIds(s, ids)
           n == Len(t)
           front == [i \in DOMAIN named |-> SlotOf(s, named[i])]
           back == Unnamed(s, ids)
<1>1. s \in Placings /\ s \in Seq(Views) /\ t \in Seq(Views)
  BY HeldIs DEF Placings
<1>2. ids \in OrderIds /\ Len(ids) = n /\ \A i \in 1 .. n : ids[i] = t[i].id
  BY IdsAre
<1>3. n \in Nat /\ DOMAIN t = 1 .. n /\ Range(t) = {t[i] : i \in 1 .. n}
  BY <1>1, LenProperties, RangeIs
<1>4. ids \in Seq(Workspaces)
  BY <1>2 DEF OrderIds
<1>5. Range(ids) = {ids[i] : i \in 1 .. n} /\ DOMAIN ids = 1 .. n
  BY <1>2, <1>4, RangeIs, LenProperties
<1>6. Reordered(s, ids) = front \o back
  BY DEF Reordered
<1> HIDE DEF n, ids
<1>7. ASSUME NEW i \in 1 .. n PROVE Has(s, t[i].id)
  <2>1. t[i] \in Range(s)
    BY <1>3
  <2>2. PICK j \in DOMAIN s : s[j] = t[i]
    BY <2>1 DEF Range
  <2> QED BY <2>2 DEF Has, Named
<1>8. named = ids
  <2>1. \A i \in 1 .. n : ids[i] \in Workspaces
    BY <1>2, <1>4, ElementOfSeq
  <2>2. Range(ids) \subseteq {id \in Workspaces : Has(s, id)}
    BY <1>2, <1>5, <1>7, <2>1
  <2> QED BY <1>4, <2>2, KeptAll DEF NamedIds
<1>9. ASSUME NEW i \in 1 .. n PROVE SlotOf(s, ids[i]) = t[i]
  <2>1. SlotOf(s, ids[i]) \in Range(s) /\ SlotOf(s, ids[i]).id = t[i].id
    BY <1>1, <1>2, <1>7, SlotIs
  <2>2. t[i] \in Range(s)
    BY <1>3
  <2>3. \A v, w \in Range(s) : v.id = w.id => v = w
    BY <1>1, DistinctIs DEF Placings
  <2> QED BY <2>1, <2>2, <2>3
<1>10. back = <<>>
  <2>1. \A v \in Range(s) : v.id \in Range(named)
    BY <1>2, <1>3, <1>5, <1>8
  <2>2. Range(s) \cap {w \in Views : w.id \notin Range(named)} = {}
    BY <2>1
  <2> QED BY <1>1, <2>2, KeptNone DEF Unnamed
<1> HIDE DEF named, back
<1>11. front = [i \in 1 .. n |-> SlotOf(s, ids[i])]
  BY <1>5, <1>8
<1>12. t = [i \in 1 .. n |-> t[i]]
  BY <1>1, <1>3, LenProperties
<1>13. front = t
  BY <1>9, <1>11, <1>12
<1>14. t \o <<>> = t
  BY <1>1, ConcatEmptySeq
<1> QED BY <1>6, <1>10, <1>13, <1>14 DEF ids

-----------------------------------------------------------------------------
\* Frames, and what one does to the places.

Frames ==
  {Baseline(items) : items \in Placings} \cup {Upsert(w) : w \in Views}
    \cup {Removal(id) : id \in Workspaces} \cup {Order(ids) : ids \in OrderIds} \cup {Archived}

LEMMA ApplyIs ==
  ASSUME NEW s
  PROVE  /\ \A items : Apply(s, Baseline(items)) = Filled(items)
         /\ \A w : Apply(s, Upsert(w)) = Place(s, w)
         /\ \A id : Apply(s, Removal(id)) = Kept(s, But(id))
         /\ \A ids : Apply(s, Order(ids)) = Reordered(s, ids)
         /\ Apply(s, Archived) = s
<1>1. \A items : Apply(s, Baseline(items)) = Filled(items)
  BY DEF Apply, Baseline
<1>2. \A w : Apply(s, Upsert(w)) = Place(s, w)
  BY DEF Apply, Upsert
<1>3. \A id : Apply(s, Removal(id)) = Kept(s, But(id))
  BY DEF Apply, Removal
<1>4. \A ids : Apply(s, Order(ids)) = Reordered(s, ids)
  BY DEF Apply, Order
<1>5. Apply(s, Archived) = s
  BY DEF Apply, Archived
<1> QED BY <1>1, <1>2, <1>3, <1>4, <1>5

LEMMA RemovedIs ==
  ASSUME NEW s \in Placings, NEW id
  PROVE  /\ Kept(s, But(id)) \in Placings /\ Len(Kept(s, But(id))) <= Len(s)
         /\ Range(Kept(s, But(id))) = {w \in Range(s) : w.id # id}
<1> DEFINE k == Kept(s, But(id))
<1>1. s \in Seq(Views) /\ IsInjective(s) /\ Range(s) \subseteq Views
  BY DistinctIs, RangeOfSeq DEF Placings
<1>2. k \in Seq(Views) /\ IsInjective(k) /\ Range(k) = Range(s) \cap But(id)
  BY <1>1, KeptRange
<1> HIDE DEF k
<1>3. Range(k) = {w \in Range(s) : w.id # id}
  BY <1>1, <1>2 DEF But
<1>4. k \in Placings
  BY <1>2, PartsAreDistinct
<1>5. Len(k) <= Len(s)
  BY <1>1, <1>2, PartsAreShort
<1> QED BY <1>3, <1>4, <1>5 DEF k

LEMMA ApplyHeld ==
  ASSUME NEW s \in PlaceLists, NEW x \in Frames
  PROVE  Apply(s, x) \in PlaceLists
<1>1. s \in Placings /\ Len(s) \in Nat /\ Len(s) <= MaxWorkspaces
  BY HeldIs
<1>2. CASE \E items \in Placings : x = Baseline(items)
  <2>1. PICK items \in Placings : x = Baseline(items)
    BY <1>2
  <2>2. Apply(s, x) = Filled(items)
    BY <2>1, ApplyIs
  <2> QED BY <2>2, BaselineIs
<1>3. CASE \E w \in Views : x = Upsert(w)
  <2>1. PICK w \in Views : x = Upsert(w)
    BY <1>3
  <2>2. Apply(s, x) = Place(s, w)
    BY <2>1, ApplyIs
  <2> QED BY <2>2, PlaceIs
<1>4. CASE \E id \in Workspaces : x = Removal(id)
  <2>1. PICK id \in Workspaces : x = Removal(id)
    BY <1>4
  <2> DEFINE k == Kept(s, But(id))
  <2>2. k \in Placings /\ Len(k) <= Len(s)
    BY <1>1, RemovedIs
  <2>3. Apply(s, x) = k
    BY <2>1, ApplyIs
  <2> HIDE DEF k
  <2>4. Len(k) \in Nat /\ MaxWorkspaces \in Nat
    BY <2>2, LenProperties, WorkspaceAssumption DEF Placings
  <2>5. Len(k) <= MaxWorkspaces
    BY <1>1, <2>2, <2>4
  <2> QED BY <2>2, <2>3, <2>5 DEF PlaceLists
<1>5. CASE \E ids \in OrderIds : x = Order(ids)
  <2>1. PICK ids \in OrderIds : x = Order(ids)
    BY <1>5
  <2>2. Apply(s, x) = Reordered(s, ids)
    BY <2>1, ApplyIs
  <2> QED BY <2>2, ReorderedIs
<1>6. CASE x = Archived
  BY <1>6, ApplyIs
<1> QED BY <1>2, <1>3, <1>4, <1>5, <1>6, Zenon DEF Frames

-----------------------------------------------------------------------------
\* What the frames on their way make of the places.

Messages(n) == [feed : 1 .. n, frame : Frames]
Past(f, m, s) == IF m.feed = f THEN Apply(s, m.frame) ELSE s

\* Once q is read the places, s now, are t: the sender takes the frames of stream f.
Leads(f, q, s, t) ==
  \E at \in [1 .. Len(q) + 1 -> PlaceLists] :
    /\ at[1] = s /\ at[Len(q) + 1] = t
    /\ \A i \in 1 .. Len(q) : at[i + 1] = Past(f, q[i], at[i])

LEMMA MessageParts ==
  ASSUME NEW n, NEW m \in Messages(n)
  PROVE  m.feed \in 1 .. n /\ m.frame \in Frames
BY DEF Messages

LEMMA MessageIs ==
  ASSUME NEW n, NEW f \in 1 .. n, NEW x \in Frames
  PROVE  /\ [feed |-> f, frame |-> x] \in Messages(n)
         /\ [feed |-> f, frame |-> x].feed = f /\ [feed |-> f, frame |-> x].frame = x
BY DEF Messages

LEMMA PastIsHeld ==
  ASSUME NEW f, NEW n, NEW m \in Messages(n), NEW s \in PlaceLists
  PROVE  Past(f, m, s) \in PlaceLists
BY MessageParts, ApplyHeld DEF Past

LEMMA LeadsNowhere ==
  ASSUME NEW f, NEW n, NEW q \in Seq(Messages(n)), NEW s \in PlaceLists,
         \A i \in 1 .. Len(q) : q[i].feed # f
  PROVE  Leads(f, q, s, s)
<1> DEFINE k == Len(q)
           at == [i \in 1 .. k + 1 |-> s]
<1>1. k \in Nat
  BY LenProperties
<1>2. \A i \in 1 .. k : q[i].feed # f
  OBVIOUS
<1> HIDE DEF k
<1>3. at \in [1 .. k + 1 -> PlaceLists] /\ at[1] = s /\ at[k + 1] = s
  BY <1>1
<1>4. ASSUME NEW i \in 1 .. k PROVE at[i + 1] = Past(f, q[i], at[i])
  <2>1. i \in 1 .. k + 1 /\ i + 1 \in 1 .. k + 1
    BY <1>1
  <2> QED BY <1>2, <2>1 DEF Past
<1> HIDE DEF at
<1> QED BY <1>3, <1>4 DEF Leads, k

LEMMA LeadsThrough ==
  ASSUME NEW f, NEW n, NEW q \in Seq(Messages(n)), NEW r \in Seq(Messages(n)),
         NEW s, NEW t, NEW u, Leads(f, q, s, t), Leads(f, r, t, u)
  PROVE  Leads(f, q \o r, s, u)
<1> DEFINE k == Len(q)
           l == Len(r)
           c == q \o r
<1>1. k \in Nat /\ l \in Nat /\ Len(c) = k + l
  BY LenProperties, ConcatProperties
<1>2. \A i \in 1 .. k + l : c[i] = IF i <= k THEN q[i] ELSE r[i - k]
  BY ConcatProperties
<1>3. PICK at \in [1 .. k + 1 -> PlaceLists] :
        at[1] = s /\ at[k + 1] = t /\ \A i \in 1 .. k : at[i + 1] = Past(f, q[i], at[i])
  BY DEF Leads
<1>4. PICK to \in [1 .. l + 1 -> PlaceLists] :
        to[1] = t /\ to[l + 1] = u /\ \A i \in 1 .. l : to[i + 1] = Past(f, r[i], to[i])
  BY DEF Leads
<1> HIDE DEF k, l, c
<1> DEFINE go == [i \in 1 .. k + l + 1 |-> IF i <= k + 1 THEN at[i] ELSE to[i - k]]
<1>5. ASSUME NEW i \in 1 .. k + l + 1
      PROVE  /\ i <= k + 1 => i \in 1 .. k + 1 /\ go[i] = at[i]
             /\ i >= k + 1 => i - k \in 1 .. l + 1 /\ go[i] = to[i - k]
  <2>1. i <= k + 1 => i \in 1 .. k + 1 /\ go[i] = at[i]
    BY <1>1
  <2>2. i >= k + 1 => i - k \in 1 .. l + 1
    BY <1>1
  <2>3. CASE i = k + 1
    <3>1. i - k = 1
      BY <1>1, <2>3
    <3> QED BY <1>3, <1>4, <2>1, <2>2, <2>3, <3>1
  <2>4. CASE i > k + 1
    BY <1>1, <2>1, <2>2, <2>4
  <2>5. CASE i < k + 1
    BY <1>1, <2>1, <2>2, <2>5
  <2> QED BY <1>1, <2>3, <2>4, <2>5
<1>6. go \in [1 .. k + l + 1 -> PlaceLists]
  <2>1. \A i \in 1 .. k + l + 1 : go[i] \in PlaceLists
    <3>1. \A i \in 1 .. k + l + 1 : i <= k + 1 \/ i >= k + 1
      BY <1>1
    <3> HIDE DEF go
    <3> QED BY <1>3, <1>4, <1>5, <3>1
  <2> QED BY <2>1
<1>7. go[1] = s /\ go[k + l + 1] = u
  <2>1. 1 \in 1 .. k + l + 1 /\ 1 <= k + 1 /\ k + l + 1 \in 1 .. k + l + 1 /\ k + l + 1 >= k + 1
        /\ k + l + 1 - k = l + 1
    BY <1>1
  <2> HIDE DEF go
  <2>2. go[1] = at[1]
    BY <1>5, <2>1
  <2> DEFINE j == k + l + 1
  <2>3. j \in 1 .. k + l + 1 /\ j >= k + 1 /\ j - k = l + 1
    BY <1>1
  <2> HIDE DEF j
  <2>4. go[j] = to[l + 1]
    BY <1>5, <2>3
  <2> QED BY <1>3, <1>4, <2>2, <2>4 DEF j
<1> HIDE DEF go
<1>8. ASSUME NEW i \in 1 .. k + l PROVE go[i + 1] = Past(f, c[i], go[i])
  <2>1. i \in 1 .. k + l + 1 /\ i + 1 \in 1 .. k + l + 1
    BY <1>1
  <2>2. CASE i <= k
    <3>1. i \in 1 .. k /\ i <= k + 1 /\ i + 1 <= k + 1
      BY <1>1, <2>2
    <3> QED BY <1>2, <1>3, <1>5, <2>1, <2>2, <3>1
  <2>3. CASE ~(i <= k)
    <3>1. i - k \in 1 .. l /\ i >= k + 1 /\ i + 1 >= k + 1 /\ i + 1 - k = (i - k) + 1
      BY <1>1, <2>3
    <3>2. c[i] = r[i - k]
      BY <1>2, <2>3
    <3>3. go[i] = to[i - k]
      BY <1>5, <2>1, <3>1
    <3> DEFINE j == i + 1
    <3>4. j \in 1 .. k + l + 1 /\ j >= k + 1 /\ j - k = (i - k) + 1
      BY <1>1, <2>3
    <3> HIDE DEF j
    <3>5. go[j] = to[(i - k) + 1]
      BY <1>5, <3>4
    <3>6. to[(i - k) + 1] = Past(f, r[i - k], to[i - k])
      BY <1>4, <3>1
    <3> QED BY <3>2, <3>3, <3>5, <3>6 DEF j
  <2> QED BY <2>2, <2>3
<1>9. go \in [1 .. Len(c) + 1 -> PlaceLists] /\ go[Len(c) + 1] = u /\ \A i \in 1 .. Len(c) : go[i + 1] = Past(f, c[i], go[i])
  BY <1>1, <1>6, <1>7, <1>8
<1>10. Leads(f, c, s, u)
  BY <1>7, <1>9 DEF Leads
<1> QED BY <1>10 DEF c

\* Exactly one message of r is of stream f.
LEMMA LeadsOnce ==
  ASSUME NEW f, NEW n, NEW r \in Seq(Messages(n)), NEW k \in 1 .. Len(r), NEW s \in PlaceLists,
         r[k].feed = f, \A i \in 1 .. Len(r) : i # k => r[i].feed # f
  PROVE  Leads(f, r, s, Apply(s, r[k].frame))
<1> DEFINE l == Len(r)
           t == Apply(s, r[k].frame)
           at == [i \in 1 .. l + 1 |-> IF i <= k THEN s ELSE t]
<1>1. l \in Nat /\ k \in 1 .. l /\ r[k] \in Messages(n)
  BY LenProperties, ElementOfSeq
<1>2. t \in PlaceLists
  BY <1>1, MessageParts, ApplyHeld
<1>3. Past(f, r[k], s) = t /\ \A v : \A i \in 1 .. l : i # k => Past(f, r[i], v) = v
  BY DEF Past
<1> HIDE DEF l, t
<1>4. at \in [1 .. l + 1 -> PlaceLists]
  BY <1>2
<1>5. \A i \in 1 .. l + 1 : at[i] = IF i <= k THEN s ELSE t
  OBVIOUS
<1> HIDE DEF at
<1>6. at[1] = s /\ at[l + 1] = t
  <2>1. 1 \in 1 .. l + 1 /\ 1 <= k /\ l + 1 \in 1 .. l + 1 /\ ~(l + 1 <= k)
    BY <1>1
  <2> QED BY <1>5, <2>1
<1>7. ASSUME NEW i \in 1 .. l PROVE at[i + 1] = Past(f, r[i], at[i])
  <2>1. i \in 1 .. l + 1 /\ i + 1 \in 1 .. l + 1
    BY <1>1
  <2>2. at[i] = (IF i <= k THEN s ELSE t) /\ at[i + 1] = IF i + 1 <= k THEN s ELSE t
    BY <1>5, <2>1
  <2>3. CASE i = k
    BY <1>1, <1>3, <2>2, <2>3
  <2>4. CASE i # k
    <3>1. i <= k <=> i + 1 <= k
      BY <1>1, <2>4
    <3> QED BY <1>3, <2>2, <2>4, <3>1
  <2> QED BY <2>3, <2>4
<1>8. Leads(f, r, s, t)
  BY <1>4, <1>6, <1>7 DEF Leads, l
<1> QED BY <1>8 DEF t

LEMMA LeadsFrom ==
  ASSUME NEW f, NEW n, NEW q \in Seq(Messages(n)), q # <<>>, NEW s, NEW t, Leads(f, q, s, t)
  PROVE  /\ Head(q) \in Messages(n) /\ Tail(q) \in Seq(Messages(n))
         /\ Leads(f, Tail(q), Past(f, Head(q), s), t)
<1> DEFINE r == Tail(q)
           k == Len(r)
<1>1. /\ Head(q) \in Messages(n) /\ r \in Seq(Messages(n)) /\ k = Len(q) - 1
      /\ \A i \in 1 .. k : r[i] = q[i + 1]
  BY HeadTailProperties
<1>2. Head(q) = q[1] /\ Len(q) \in Nat \ {0} /\ k \in Nat /\ Len(q) = k + 1
  BY <1>1, LenProperties, EmptySeq
<1>3. PICK at \in [1 .. k + 1 + 1 -> PlaceLists] :
        /\ at[1] = s /\ at[k + 1 + 1] = t
        /\ \A i \in 1 .. k + 1 : at[i + 1] = Past(f, q[i], at[i])
  BY <1>2 DEF Leads
<1> HIDE DEF r, k
<1>4. at[2] = Past(f, Head(q), s)
  <2>1. 1 \in 1 .. k + 1
    BY <1>2
  <2>2. at[1 + 1] = Past(f, q[1], at[1])
    BY <1>3, <2>1
  <2> QED BY <1>2, <1>3, <2>2
<1> DEFINE to == [i \in 1 .. k + 1 |-> at[i + 1]]
<1>5. /\ to \in [1 .. k + 1 -> PlaceLists] /\ to[1] = at[2] /\ to[k + 1] = t
      /\ \A i \in 1 .. k : to[i] = at[i + 1] /\ to[i + 1] = at[i + 1 + 1] /\ i + 1 \in 1 .. k + 1
  BY <1>2, <1>3
<1> HIDE DEF to
<1>6. ASSUME NEW i \in 1 .. k PROVE to[i + 1] = Past(f, r[i], to[i])
  BY <1>1, <1>3, <1>5
<1>7. Leads(f, r, Past(f, Head(q), s), t)
  BY <1>4, <1>5, <1>6 DEF Leads, k
<1> QED BY <1>1, <1>7 DEF r

LEMMA LeadsEmpty == ASSUME NEW f, NEW s, NEW t, Leads(f, <<>>, s, t) PROVE s = t
BY DEF Leads

LEMMA SetToSeqIs ==
  ASSUME NEW S, IsFiniteSet(S)
  PROVE  /\ SetToSeq(S) \in Seq(S) /\ IsInjective(SetToSeq(S))
         /\ \A x \in S : \E k \in 1 .. Len(SetToSeq(S)) : SetToSeq(S)[k] = x
<1> DEFINE c == Cardinality(S)
           t == SetToSeq(S)
<1>1. c \in Nat /\ ExistsBijection(1 .. c, S)
  BY FS_CardinalityType
<1>2. \E f \in [1 .. c -> S] : IsInjective(f)
  BY <1>1 DEF ExistsBijection, Bijection, Injection
<1>3. t \in [1 .. c -> S] /\ IsInjective(t)
  BY <1>2 DEF SetToSeq
<1> HIDE DEF t
<1>4. IsFiniteSet(1 .. c) /\ Cardinality(1 .. c) = c
  BY <1>1, FS_Interval
<1>5. t \in Injection(1 .. c, S)
  BY <1>3 DEF Injection
<1>6. t \in Surjection(1 .. c, S)
  BY <1>4, <1>5, FS_Injection
<1>7. \A x \in S : \E k \in 1 .. c : t[k] = x
  BY <1>6 DEF Surjection
<1> HIDE DEF c
<1>8. t \in Seq(S) /\ Len(t) = c
  BY <1>1, <1>3
<1> QED BY <1>3, <1>7, <1>8 DEF t

Told(F, x) == SetToSeq({[feed |-> f, frame |-> x] : f \in F})

LEMMA ToldIs ==
  ASSUME NEW n \in Nat, NEW F \in SUBSET (1 .. n), NEW x \in Frames
  PROVE  /\ Told(F, x) \in Seq(Messages(n))
         /\ \A f \in F, s \in PlaceLists : Leads(f, Told(F, x), s, Apply(s, x))
<1> DEFINE S == {[feed |-> f, frame |-> x] : f \in F}
           to == [f \in F |-> [feed |-> f, frame |-> x]]
           t == Told(F, x)
<1>1. IsFiniteSet(F)
  <2>1. IsFiniteSet(1 .. n)
    BY FS_Interval
  <2> QED BY <2>1, FS_Subset
<1>2. to \in Surjection(F, S)
  BY DEF Surjection
<1>3. IsFiniteSet(S)
  BY <1>1, <1>2, FS_Surjection
<1>4. \A f \in F : [feed |-> f, frame |-> x] \in Messages(n)
  BY MessageIs
<1>5. S \subseteq Messages(n)
  BY <1>4
<1>6. \A m \in S : m.feed \in F /\ m.frame = x
  OBVIOUS
<1>7. \A l, m \in S : l.feed = m.feed => l = m
  OBVIOUS
<1>8. ASSUME NEW f \in F PROVE \E m \in S : m.feed = f
  <2>1. [feed |-> f, frame |-> x] \in S
    OBVIOUS
  <2>2. [feed |-> f, frame |-> x].feed = f
    OBVIOUS
  <2> QED BY <2>1, <2>2, Zenon
<1>9. t = SetToSeq(S)
  BY DEF Told
<1> HIDE DEF S, to, t
<1>10. /\ t \in Seq(S) /\ IsInjective(t)
       /\ \A m \in S : \E k \in 1 .. Len(t) : t[k] = m
  BY <1>3, <1>9, SetToSeqIs
<1>11. t \in Seq(Messages(n))
  BY <1>5, <1>10, SeqMonotonic
<1>12. DOMAIN t = 1 .. Len(t) /\ \A i \in 1 .. Len(t) : t[i] \in S
  BY <1>10, LenProperties, ElementOfSeq
<1>13. ASSUME NEW f \in F, NEW s \in PlaceLists PROVE Leads(f, t, s, Apply(s, x))
  <2>1. PICK m \in S : m.feed = f
    BY <1>8
  <2>2. PICK k \in 1 .. Len(t) : t[k] = m
    BY <1>10
  <2>3. t[k].feed = f /\ t[k].frame = x
    BY <1>6, <2>1, <2>2
  <2>4. \A i \in 1 .. Len(t) : i # k => t[i].feed # f
    <3>1. \A i, j \in 1 .. Len(t) : t[i] = t[j] => i = j
      BY <1>10, <1>12 DEF IsInjective
    <3> QED BY <1>7, <1>12, <2>1, <2>2, <3>1
  <2>5. Leads(f, t, s, Apply(s, t[k].frame))
    BY <1>11, <2>3, <2>4, LeadsOnce
  <2> QED BY <2>3, <2>5
<1> QED BY <1>11, <1>13 DEF t

-----------------------------------------------------------------------------
\* What the places show of a registry, and each change of dsh's.

Shows(s, r, over) == Range(s) \subseteq Range(r) /\ (~over => s = r)

\* A frame after which the places show what the registry has become.
Tracks(x, old, new, over, now) ==
  \A s \in PlaceLists : Shows(s, old, over) => Shows(Apply(s, x), new, now)

LEMMA UpsertTracks ==
  ASSUME NEW r \in Placings, NEW w \in Views, NEW over \in BOOLEAN, NEW now \in BOOLEAN,
         now = (over \/ Len(Placed(r, w)) > MaxWorkspaces)
  PROVE  Placed(r, w) \in Placings /\ Tracks(Upsert(w), r, Placed(r, w), over, now)
<1>1. /\ Placed(r, w) \in Placings
      /\ Range(Placed(r, w)) = {v \in Range(r) : v.id # w.id} \cup {w}
  BY PlacedIs
<1>2. Len(Placed(r, w)) \in Nat /\ MaxWorkspaces \in Nat
  BY <1>1, LenProperties, WorkspaceAssumption DEF Placings
<1>3. ASSUME NEW s \in PlaceLists, Shows(s, r, over) PROVE Shows(Place(s, w), Placed(r, w), now)
  <2>1. /\ Range(Place(s, w)) \subseteq {v \in Range(s) : v.id # w.id} \cup {w}
        /\ Len(Placed(s, w)) <= MaxWorkspaces => Place(s, w) = Placed(s, w)
    BY PlaceIs
  <2>2. Range(Place(s, w)) \subseteq Range(Placed(r, w))
    BY <1>1, <1>3, <2>1 DEF Shows
  <2>3. ASSUME ~now PROVE Place(s, w) = Placed(r, w)
    <3>1. ~over /\ Len(Placed(r, w)) <= MaxWorkspaces
      <4>1. ~over /\ ~(Len(Placed(r, w)) > MaxWorkspaces)
        BY <2>3, Zenon
      <4> QED BY <1>2, <4>1
    <3>2. s = r
      BY <1>3, <3>1 DEF Shows
    <3> QED BY <2>1, <3>1, <3>2
  <2> QED BY <2>2, <2>3 DEF Shows
<1>4. \A s \in PlaceLists : Apply(s, Upsert(w)) = Place(s, w)
  BY ApplyIs
<1>5. \A s \in PlaceLists : Shows(s, r, over) => Shows(Apply(s, Upsert(w)), Placed(r, w), now)
  BY <1>3, <1>4
<1> QED BY <1>1, <1>5, Zenon DEF Tracks

LEMMA RemovalTracks ==
  ASSUME NEW r \in Placings, NEW id \in Workspaces, NEW over \in BOOLEAN, NEW now \in BOOLEAN, over => now
  PROVE  Kept(r, But(id)) \in Placings /\ Tracks(Removal(id), r, Kept(r, But(id)), over, now)
<1>1. Kept(r, But(id)) \in Placings /\ Range(Kept(r, But(id))) = {w \in Range(r) : w.id # id}
  BY RemovedIs
<1>2. ASSUME NEW s \in PlaceLists, Shows(s, r, over) PROVE Shows(Kept(s, But(id)), Kept(r, But(id)), now)
  <2>1. Range(Kept(s, But(id))) = {w \in Range(s) : w.id # id}
    BY HeldIs, RemovedIs
  <2> QED BY <1>1, <1>2, <2>1 DEF Shows
<1> QED BY <1>1, <1>2, ApplyIs DEF Tracks

LEMMA OrderTracks ==
  ASSUME NEW r \in Placings, NEW new \in Seq(Views), Len(new) = Len(r), Range(new) = Range(r),
         NEW over \in BOOLEAN, NEW now \in BOOLEAN, over => now
  PROVE  new \in Placings /\ IdsOf(new) \in OrderIds /\ Tracks(Order(IdsOf(new)), r, new, over, now)
<1>1. r \in Seq(Views) /\ IsInjective(r)
  BY DistinctIs DEF Placings
<1>2. IsInjective(new)
  BY <1>1, ReorderedIsInjective
<1>3. new \in Placings
  BY <1>2, PartsAreDistinct
<1>4. IdsOf(new) \in OrderIds
  BY <1>3, IdsAre
<1>5. ASSUME NEW s \in PlaceLists, Shows(s, r, over) PROVE Shows(Reordered(s, IdsOf(new)), new, now)
  <2>1. Range(Reordered(s, IdsOf(new))) \subseteq Range(s)
    BY <1>4, ReorderedIs
  <2>2. ~now => Reordered(s, IdsOf(new)) = new
    <3>1. ~now => s = r
      BY <1>5, Zenon DEF Shows
    <3> QED BY <1>3, <3>1, ReorderedAll
  <2> QED BY <1>5, <2>1, <2>2 DEF Shows
<1> QED BY <1>3, <1>4, <1>5, ApplyIs DEF Tracks

LEMMA ArchivedTracks ==
  ASSUME NEW r, NEW over \in BOOLEAN, NEW now \in BOOLEAN, over => now
  PROVE  Tracks(Archived, r, r, over, now)
BY ApplyIs DEF Tracks, Shows

-----------------------------------------------------------------------------
\* The invariant: what is on its way makes the places show the registry.

RegistryInv ==
  /\ registry \in Placings /\ places \in PlaceLists /\ workspaces = places
  /\ feed \in 0 .. MaxOpens /\ feeds \in SUBSET (1 .. feed)
  /\ overflowed \in BOOLEAN /\ (~overflowed => Len(registry) <= MaxWorkspaces)
  /\ feedFrames \in Seq(Messages(feed))
  /\ registrySteps \in 0 .. MaxRegistryChanges
  /\ feed \in feeds => \E s \in PlaceLists :
       Leads(feed, feedFrames, places, s) /\ Shows(s, registry, overflowed)

LEMMA RegistryStarts == WorkspaceInit => RegistryInv
<1> SUFFICES ASSUME WorkspaceInit PROVE RegistryInv
  OBVIOUS
<1>1. <<>> \in Seq(Views) /\ Len(<<>>) = 0 /\ Distinct(<<>>)
  BY DEF Distinct
<1>2. <<>> \in Placings /\ <<>> \in PlaceLists
  BY <1>1, WorkspaceAssumption DEF Placings, PlaceLists
<1>3. /\ registry = <<>> /\ feeds = {} /\ feedFrames = <<>> /\ feed = 0
      /\ places = <<>> /\ workspaces = <<>> /\ overflowed = FALSE /\ registrySteps = 0
  BY DEF WorkspaceInit
<1>4. feedFrames \in Seq(Messages(feed))
  BY <1>3
<1>5. 0 <= MaxWorkspaces /\ 0 \in 0 .. MaxOpens /\ 0 \in 0 .. MaxRegistryChanges
  BY WorkspaceAssumption
<1>6. /\ registry \in Placings /\ places \in PlaceLists /\ workspaces = places
      /\ Len(registry) <= MaxWorkspaces
  BY <1>1, <1>2, <1>3, <1>5
<1>7. feed \in 0 .. MaxOpens /\ feeds \in SUBSET (1 .. feed) /\ feed \notin feeds
  BY <1>3, <1>5
<1>8. overflowed \in BOOLEAN /\ registrySteps \in 0 .. MaxRegistryChanges
  BY <1>3, <1>5
<1> QED BY <1>4, <1>6, <1>7, <1>8 DEF RegistryInv

LEMMA ChangeKeeps ==
  ASSUME RegistryInv, NEW new \in Placings, NEW x \in Frames, RegistryChanges(new, x),
         Tracks(x, registry, new, overflowed, overflowed')
  PROVE  RegistryInv'
<1>1. /\ registrySteps < MaxRegistryChanges /\ registrySteps' = registrySteps + 1
      /\ registry' = new /\ feedFrames' = feedFrames \o Told(feeds, x)
      /\ overflowed' = (overflowed \/ Len(new) > MaxWorkspaces)
      /\ feeds' = feeds /\ feed' = feed /\ places' = places /\ workspaces' = workspaces
  BY DEF RegistryChanges, Tell, Told
<1>2. /\ places \in PlaceLists /\ workspaces = places /\ feed \in 0 .. MaxOpens /\ feeds \in SUBSET (1 .. feed)
      /\ overflowed \in BOOLEAN /\ feedFrames \in Seq(Messages(feed))
      /\ registrySteps \in 0 .. MaxRegistryChanges
  BY DEF RegistryInv
<1>3. feed \in Nat /\ MaxOpens \in Nat /\ MaxRegistryChanges \in Nat /\ MaxWorkspaces \in Nat
  BY <1>2, WorkspaceAssumption
<1>4. /\ Told(feeds, x) \in Seq(Messages(feed))
      /\ \A f \in feeds, s \in PlaceLists : Leads(f, Told(feeds, x), s, Apply(s, x))
  BY <1>2, <1>3, ToldIs
<1>5. feedFrames' \in Seq(Messages(feed'))
  BY <1>1, <1>2, <1>4, ConcatProperties
<1>6. Len(new) \in Nat
  BY LenProperties DEF Placings
<1>7. overflowed' \in BOOLEAN /\ (~overflowed' => Len(registry') <= MaxWorkspaces)
  <2>1. overflowed' \in BOOLEAN /\ (~overflowed' => ~(Len(new) > MaxWorkspaces))
    BY <1>1, <1>2, Zenon
  <2> QED BY <1>1, <1>3, <1>6, <2>1
<1>8. registrySteps' \in 0 .. MaxRegistryChanges
  BY <1>1, <1>2, <1>3
<1>9. ASSUME feed \in feeds
      PROVE  \E s \in PlaceLists : Leads(feed, feedFrames', places, s) /\ Shows(s, new, overflowed')
  <2>1. PICK s \in PlaceLists : Leads(feed, feedFrames, places, s) /\ Shows(s, registry, overflowed)
    BY <1>9 DEF RegistryInv
  <2>2. Leads(feed, Told(feeds, x), s, Apply(s, x))
    BY <1>4, <1>9
  <2>3. Leads(feed, feedFrames \o Told(feeds, x), places, Apply(s, x))
    BY <1>2, <1>4, <2>1, <2>2, LeadsThrough
  <2>4. Apply(s, x) \in PlaceLists
    BY ApplyHeld
  <2>5. Shows(Apply(s, x), new, overflowed')
    BY <2>1 DEF Tracks
  <2> QED BY <1>1, <2>3, <2>4, <2>5
<1> QED BY <1>1, <1>2, <1>5, <1>7, <1>8, <1>9 DEF RegistryInv

LEMMA DshKeeps ==
  ASSUME RegistryInv,
         \/ \E w \in Views : PutWorkspace(w)
         \/ \E id \in Workspaces : TakeWorkspace(id)
         \/ \E p \in Permutations(DOMAIN registry) :
              OrderWorkspaces([i \in DOMAIN registry |-> registry[p[i]]])
         \/ ArchiveSession
  PROVE  RegistryInv'
<1>1. registry \in Placings /\ overflowed \in BOOLEAN
  BY DEF RegistryInv
<1>2. ASSUME NEW new, NEW x, RegistryChanges(new, x)
      PROVE  overflowed' \in BOOLEAN /\ overflowed' = (overflowed \/ Len(new) > MaxWorkspaces)
             /\ (overflowed => overflowed')
  BY <1>1, <1>2 DEF RegistryChanges
<1>3. ASSUME NEW w \in Views, PutWorkspace(w) PROVE RegistryInv'
  <2>1. RegistryChanges(Placed(registry, w), Upsert(w))
    BY <1>3 DEF PutWorkspace
  <2>2. /\ Placed(registry, w) \in Placings
        /\ Tracks(Upsert(w), registry, Placed(registry, w), overflowed, overflowed')
    BY <1>1, <1>2, <2>1, UpsertTracks
  <2>3. Upsert(w) \in Frames
    BY DEF Frames
  <2> QED BY <2>1, <2>2, <2>3, ChangeKeeps
<1>4. ASSUME NEW id \in Workspaces, TakeWorkspace(id) PROVE RegistryInv'
  <2>1. RegistryChanges(Kept(registry, But(id)), Removal(id))
    BY <1>4 DEF TakeWorkspace
  <2>2. /\ Kept(registry, But(id)) \in Placings
        /\ Tracks(Removal(id), registry, Kept(registry, But(id)), overflowed, overflowed')
    BY <1>1, <1>2, <2>1, RemovalTracks
  <2>3. Removal(id) \in Frames
    BY DEF Frames
  <2> QED BY <2>1, <2>2, <2>3, ChangeKeeps
<1>5. ASSUME NEW p \in Permutations(DOMAIN registry),
             OrderWorkspaces([i \in DOMAIN registry |-> registry[p[i]]])
      PROVE  RegistryInv'
  <2> DEFINE new == [i \in DOMAIN registry |-> registry[p[i]]]
             n == Len(registry)
  <2>1. /\ Len(new) = Len(registry) /\ Range(new) = Range(registry)
        /\ RegistryChanges(new, Order(IdsOf(new)))
    BY <1>5 DEF OrderWorkspaces
  <2>2. registry \in Seq(Views) /\ n \in Nat /\ DOMAIN registry = 1 .. n /\ Range(registry) \subseteq Views
    BY <1>1, LenProperties, RangeOfSeq DEF Placings
  <2>3. new = [i \in 1 .. n |-> new[i]]
    BY <2>2
  <2> HIDE DEF new, n
  <2>4. \A i \in 1 .. n : new[i] \in Range(new)
    BY <2>3 DEF Range
  <2>5. \A i \in 1 .. n : new[i] \in Views
    BY <2>1, <2>2, <2>4
  <2>6. new \in Seq(Views)
    BY <2>2, <2>3, <2>5
  <2>7. /\ new \in Placings /\ IdsOf(new) \in OrderIds
        /\ Tracks(Order(IdsOf(new)), registry, new, overflowed, overflowed')
    BY <1>1, <1>2, <2>1, <2>6, OrderTracks
  <2>8. Order(IdsOf(new)) \in Frames
    BY <2>7 DEF Frames
  <2> QED BY <2>1, <2>7, <2>8, ChangeKeeps
<1>6. ASSUME ArchiveSession PROVE RegistryInv'
  <2>1. RegistryChanges(registry, Archived)
    BY <1>6 DEF ArchiveSession
  <2>2. Tracks(Archived, registry, registry, overflowed, overflowed')
    BY <1>1, <1>2, <2>1, ArchivedTracks
  <2>3. Archived \in Frames
    BY DEF Frames
  <2> QED BY <1>1, <2>1, <2>2, <2>3, ChangeKeeps
<1> QED BY <1>3, <1>4, <1>5, <1>6

LEMMA OpenKeeps ==
  ASSUME RegistryInv, NEW freshMux \in BOOLEAN, OpenFeed(freshMux)
  PROVE  RegistryInv'
<1> DEFINE old == IF freshMux THEN <<>> ELSE feedFrames
           f == feed + 1
           m == [feed |-> f, frame |-> Baseline(registry)]
           s == Filled(registry)
<1>1. /\ feed < MaxOpens /\ feed' = f /\ feedFrames' = Append(old, m)
      /\ feeds' = (IF freshMux THEN {} ELSE feeds) \cup {f}
      /\ overflowed' = (Len(registry) > MaxWorkspaces)
      /\ registry' = registry /\ places' = places /\ workspaces' = workspaces
      /\ registrySteps' = registrySteps
  BY DEF OpenFeed
<1>2. /\ registry \in Placings /\ places \in PlaceLists /\ workspaces = places
      /\ feed \in 0 .. MaxOpens /\ feeds \in SUBSET (1 .. feed) /\ feedFrames \in Seq(Messages(feed))
      /\ registrySteps \in 0 .. MaxRegistryChanges
  BY DEF RegistryInv
<1>3. feed \in Nat /\ MaxOpens \in Nat /\ f \in 0 .. MaxOpens /\ f \in 1 .. f /\ MaxWorkspaces \in Nat
  BY <1>1, <1>2, WorkspaceAssumption
<1>4. Len(registry) \in Nat
  BY <1>2, LenProperties DEF Placings
<1>5. Baseline(registry) \in Frames
  BY <1>2 DEF Frames
<1>6. m \in Messages(f) /\ m.feed = f /\ m.frame = Baseline(registry)
  BY <1>3, <1>5, MessageIs
<1>7. old \in Seq(Messages(feed))
  BY <1>2
<1>8. old \in Seq(Messages(f))
  <2>1. Messages(feed) \subseteq Messages(f)
    <3>1. 1 .. feed \subseteq 1 .. f
      BY <1>3
    <3> QED BY <3>1 DEF Messages
  <2> QED BY <1>7, <2>1, SeqMonotonic
<1>9. \A i \in 1 .. Len(old) : old[i].feed # f
  <2>1. \A i \in 1 .. Len(old) : old[i] \in Messages(feed)
    BY <1>7, ElementOfSeq
  <2>2. \A i \in 1 .. Len(old) : old[i].feed \in 1 .. feed
    BY <2>1, MessageParts
  <2>3. f \notin 1 .. feed
    BY <1>3
  <2> QED BY <2>2, <2>3
<1> HIDE DEF old, m, f
<1>10. Leads(f, old, places, places)
  BY <1>2, <1>8, <1>9, LeadsNowhere
<1> DEFINE one == <<m>>
<1>11. one \in Seq(Messages(f)) /\ Len(one) = 1 /\ one[1] = m
  BY <1>6
<1> HIDE DEF one
<1>12. Leads(f, one, places, s)
  <2>1. 1 \in 1 .. Len(one) /\ one[1].feed = f /\ \A i \in 1 .. Len(one) : i # 1 => one[i].feed # f
    BY <1>6, <1>11
  <2>2. Leads(f, one, places, Apply(places, one[1].frame))
    BY <1>2, <1>11, <2>1, LeadsOnce
  <2>3. Apply(places, one[1].frame) = s
    BY <1>6, <1>11, ApplyIs
  <2> QED BY <2>2, <2>3
<1>13. Append(old, m) = old \o one
  BY <1>6, <1>8, AppendIsConcat DEF one
<1>14. Leads(f, feedFrames', places, s)
  BY <1>1, <1>8, <1>10, <1>11, <1>12, <1>13, LeadsThrough
<1>15. feedFrames' \in Seq(Messages(f))
  BY <1>1, <1>8, <1>11, <1>13, ConcatProperties
<1>18. overflowed' \in BOOLEAN /\ (~overflowed' => Len(registry) <= MaxWorkspaces)
  <2>1. CASE Len(registry) > MaxWorkspaces
    BY <1>1, <2>1
  <2>2. CASE ~(Len(registry) > MaxWorkspaces)
    BY <1>1, <1>3, <1>4, <2>2
  <2> QED BY <2>1, <2>2
<1>16. s \in PlaceLists /\ Shows(s, registry, overflowed')
  <2>1. /\ Filled(registry) \in PlaceLists /\ Range(Filled(registry)) \subseteq Range(registry)
        /\ Len(registry) <= MaxWorkspaces => Filled(registry) = registry
    BY <1>2, BaselineIs
  <2>2. ~overflowed' => Len(registry) <= MaxWorkspaces
    BY <1>18
  <2> QED BY <2>1, <2>2 DEF Shows
<1>17. feeds' \in SUBSET (1 .. f)
  <2>1. 1 .. feed \subseteq 1 .. f
    BY <1>3 DEF f
  <2> QED BY <1>1, <1>2, <1>3, <2>1
<1> HIDE DEF s
<1> QED BY <1>1, <1>2, <1>3, <1>14, <1>15, <1>16, <1>17, <1>18 DEF RegistryInv

LEMMA FrameKeeps ==
  ASSUME RegistryInv, IgnoreFrame \/ TakeFrame
  PROVE  RegistryInv'
<1> DEFINE m == Head(feedFrames)
<1>1. /\ feedFrames # <<>> /\ feedFrames' = Tail(feedFrames) /\ registry' = registry /\ feeds' = feeds
      /\ feed' = feed /\ overflowed' = overflowed /\ registrySteps' = registrySteps
  BY DEF IgnoreFrame, TakeFrame, NextFeedFrame
<1>2. /\ registry \in Placings /\ places \in PlaceLists /\ workspaces = places
      /\ feed \in 0 .. MaxOpens /\ feeds \in SUBSET (1 .. feed) /\ feedFrames \in Seq(Messages(feed))
      /\ overflowed \in BOOLEAN /\ (~overflowed => Len(registry) <= MaxWorkspaces)
      /\ registrySteps \in 0 .. MaxRegistryChanges
  BY DEF RegistryInv
<1>3. m \in Messages(feed) /\ Tail(feedFrames) \in Seq(Messages(feed))
  BY <1>1, <1>2, HeadTailProperties
<1> HIDE DEF m
<1>4. places' = Past(feed, m, places) /\ workspaces' = places'
  <2>1. CASE IgnoreFrame
    BY <1>2, <2>1 DEF IgnoreFrame, Past, m
  <2>2. CASE TakeFrame
    BY <2>2 DEF TakeFrame, Past, m
  <2> QED BY <2>1, <2>2
<1>5. places' \in PlaceLists
  BY <1>2, <1>3, <1>4, PastIsHeld
<1>6. ASSUME feed \in feeds
      PROVE  \E s \in PlaceLists : Leads(feed, feedFrames', places', s) /\ Shows(s, registry, overflowed)
  <2>1. PICK s \in PlaceLists : Leads(feed, feedFrames, places, s) /\ Shows(s, registry, overflowed)
    BY <1>6 DEF RegistryInv
  <2>2. Leads(feed, Tail(feedFrames), Past(feed, m, places), s)
    BY <1>1, <1>2, <2>1, LeadsFrom DEF m
  <2> QED BY <1>1, <1>4, <2>1, <2>2
<1> QED BY <1>1, <1>2, <1>3, <1>4, <1>5, <1>6 DEF RegistryInv

LEMMA LossKeeps == ASSUME RegistryInv, LoseFeeds PROVE RegistryInv'
<1>1. <<>> \in Seq(Messages(feed)) /\ {} \in SUBSET (1 .. feed) /\ feed \notin {}
  BY EmptySeq
<1> QED BY <1>1 DEF LoseFeeds, RegistryInv

LEMMA RegistryStepKeeps == RegistryInv /\ [WorkspaceNext]_wsVars => RegistryInv'
<1> SUFFICES ASSUME RegistryInv, [WorkspaceNext]_wsVars PROVE RegistryInv'
  OBVIOUS
<1>1. CASE \/ \E w \in Views : PutWorkspace(w)
           \/ \E id \in Workspaces : TakeWorkspace(id)
           \/ \E p \in Permutations(DOMAIN registry) :
                OrderWorkspaces([i \in DOMAIN registry |-> registry[p[i]]])
           \/ ArchiveSession
  BY <1>1, DshKeeps
<1>2. CASE OpenFeed(FALSE) \/ OpenFeed(TRUE)
  BY <1>2, OpenKeeps
<1>3. CASE LoseFeeds
  BY <1>3, LossKeeps
<1>4. CASE IgnoreFrame \/ TakeFrame
  BY <1>4, FrameKeeps
<1>5. CASE UNCHANGED wsVars
  BY <1>5 DEF wsVars, RegistryInv
<1> QED BY <1>1, <1>2, <1>3, <1>4, <1>5 DEF WorkspaceNext

LEMMA RegistryInvariant == WorkspaceSpec => []RegistryInv
BY RegistryStarts, RegistryStepKeeps, PTL DEF WorkspaceSpec

LEMMA MirroredThen == RegistryInv => RegistryMirrored
<1> SUFFICES ASSUME RegistryInv PROVE RegistryMirrored
  OBVIOUS
<1>1. places \in PlaceLists /\ workspaces = places
  BY DEF RegistryInv
<1>2. SlotsSound
  BY <1>1, HeldIs DEF SlotsSound, NoTwoSlots, Distinct
<1>3. ASSUME feed \in feeds, feedFrames = <<>> PROVE Shows(workspaces, registry, overflowed)
  <2>1. PICK s \in PlaceLists : Leads(feed, feedFrames, places, s) /\ Shows(s, registry, overflowed)
    BY <1>3 DEF RegistryInv
  <2>2. s = places
    BY <1>3, <2>1, LeadsEmpty
  <2> QED BY <1>1, <2>1, <2>2
<1> QED BY <1>2, <1>3 DEF RegistryMirrored, Shows

\* The sender's list has one place for a workspace and never too many, and once every
\* frame is read it is dsh's registry in its order, or when that has outgrown the places
\* a part of it without an old view, for any workspaces, changes and streams: whichever
\* feeds were opened over which mux and broke before (workspace_store,
\* workspaces_reorder, workspaces_publish, workspaces_apply).
THEOREM RegistryStaysMirrored == WorkspaceSpec => []RegistryMirrored
BY RegistryInvariant, MirroredThen, PTL

\* The registry, the places and what is on its way keep their types.
THEOREM WorkspaceTypes == WorkspaceSpec => []WorkspaceTypeOK
<1>1. RegistryInv => WorkspaceTypeOK
  <2> SUFFICES ASSUME RegistryInv PROVE WorkspaceTypeOK
    OBVIOUS
  <2>1. /\ registry \in Placings /\ places \in PlaceLists /\ workspaces = places
        /\ feed \in 0 .. MaxOpens /\ feeds \in SUBSET (1 .. feed) /\ feedFrames \in Seq(Messages(feed))
        /\ overflowed \in BOOLEAN /\ registrySteps \in 0 .. MaxRegistryChanges
    BY DEF RegistryInv
  <2>2. 1 .. feed \subseteq 1 .. MaxOpens
    BY <2>1, WorkspaceAssumption
  <2>3. ASSUME NEW i \in DOMAIN feedFrames PROVE feedFrames[i].feed \in 1 .. MaxOpens
    <3>1. feedFrames[i] \in Messages(feed)
      BY <2>1, LenProperties, ElementOfSeq
    <3> QED BY <2>2, <3>1, MessageParts
  <2>4. registry \in Seq(Views) /\ places \in Seq(Views)
    BY <2>1, HeldIs DEF Placings
  <2> QED BY <2>1, <2>2, <2>3, <2>4 DEF WorkspaceTypeOK
<1> QED BY <1>1, RegistryInvariant, PTL
=============================================================================
