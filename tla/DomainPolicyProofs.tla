------------------------- MODULE DomainPolicyProofs -------------------------
(***************************************************************************)
(* Theorems about DomainPolicy, for all labels, hosts and lists of rules:  *)
(* what the trims take off a text, what normalize_domain_rule makes of     *)
(* every spelling of a domain, and that a text ends like another one       *)
(* exactly when the labels do.                                             *)
(***************************************************************************)
EXTENDS DomainPolicy, SequenceTheorems, WellFoundedInduction, TLAPS

-----------------------------------------------------------------------------
\* Numbers and sequences
LEMMA Least ==
  ASSUME NEW S, S \subseteq Nat, S # {}
  PROVE  \E x \in S : \A y \in S : x <= y
<1>1. PICK x \in S : \A y \in S : ~ (<<y, x>> \in OpToRel(<, Nat))
  BY NatLessThanWellFounded, WFMin
<1>2. \A y \in S : ~(y < x)
  BY <1>1 DEF OpToRel
<1> QED
  BY <1>2

LEMMA MaxIs ==
  ASSUME NEW S, S \subseteq Int, NEW x \in S, \A y \in S : y <= x
  PROVE  Max(S) = x
<1>1. Max(S) \in S /\ \A y \in S : y <= Max(S)
  BY DEF Max
<1>2. Max(S) \in Int /\ x \in Int /\ Max(S) <= x /\ x <= Max(S)
  BY <1>1
<1> QED
  BY <1>2

LEMMA Joined ==
  ASSUME NEW S, NEW a \in Seq(S), NEW v \in Seq(S)
  PROVE  /\ a \o v \in Seq(S) /\ Len(a \o v) = Len(a) + Len(v)
         /\ Len(a) \in Nat /\ Len(v) \in Nat
         /\ DOMAIN (a \o v) = 1 .. (Len(a) + Len(v))
         /\ \A i \in 1 .. Len(a) : (a \o v)[i] = a[i]
         /\ \A i \in 1 .. Len(v) : (a \o v)[Len(a) + i] = v[i]
<1>1. a \o v \in Seq(S) /\ Len(a \o v) = Len(a) + Len(v) /\ Len(a) \in Nat /\ Len(v) \in Nat
  OBVIOUS
<1>2. \A i \in 1 .. Len(a) : (a \o v)[i] = a[i]
  OBVIOUS
<1>3. ASSUME NEW i \in 1 .. Len(v)
      PROVE  (a \o v)[Len(a) + i] = v[i]
  OBVIOUS
<1> QED
  BY <1>1, <1>2, <1>3

LEMMA Mirror ==
  ASSUME NEW S, NEW s \in Seq(S)
  PROVE  /\ Reverse(s) \in Seq(S) /\ Len(Reverse(s)) = Len(s)
         /\ \A i \in 1 .. Len(s) : Reverse(s)[i] = s[Len(s) - i + 1] /\ Len(s) - i + 1 \in 1 .. Len(s)
         /\ Reverse(Reverse(s)) = s
<1> DEFINE r == Reverse(s)
<1>0. Len(s) \in Nat /\ \A i \in 1 .. Len(s) : Len(s) - i + 1 \in 1 .. Len(s)
  OBVIOUS
<1>1. r = [i \in 1 .. Len(s) |-> s[(Len(s) - i) + 1]]
  BY DEF Reverse
<1> HIDE DEF r
<1>2. r \in Seq(S) /\ Len(r) = Len(s) /\ \A i \in 1 .. Len(s) : r[i] = s[Len(s) - i + 1]
  BY <1>0, <1>1
<1>3. Reverse(r) = [i \in 1 .. Len(s) |-> r[Len(s) - i + 1]]
  BY <1>2 DEF Reverse
<1>4. ASSUME NEW i \in 1 .. Len(s)
      PROVE  Reverse(r)[i] = s[i]
  <2>1. Len(s) - i + 1 \in 1 .. Len(s) /\ Len(s) - (Len(s) - i + 1) + 1 = i
    OBVIOUS
  <2> QED
    BY <1>2, <1>3, <2>1
<1>5. Reverse(r) \in Seq(S) /\ Len(Reverse(r)) = Len(s)
  BY <1>0, <1>2, <1>3
<1>6. Reverse(r) = s
  BY <1>4, <1>5, SeqEqual
<1> QED
  BY <1>0, <1>2, <1>6 DEF r

LEMMA MirrorJoined ==
  ASSUME NEW S, NEW s \in Seq(S), NEW x \in S
  PROVE  Reverse(s \o <<x>>) = <<x>> \o Reverse(s)
<1> DEFINE t == s \o <<x>>  r == Reverse(s)  l == Reverse(t)  u == <<x>> \o r
<1>1. <<x>> \in Seq(S) /\ Len(<<x>>) = 1 /\ <<x>>[1] = x
  OBVIOUS
<1>2. /\ t \in Seq(S) /\ Len(t) = Len(s) + 1 /\ Len(s) \in Nat /\ t[Len(s) + 1] = x
      /\ \A i \in 1 .. Len(s) : t[i] = s[i]
  BY <1>1, Joined
<1>3. r \in Seq(S) /\ Len(r) = Len(s) /\ \A i \in 1 .. Len(s) : r[i] = s[Len(s) - i + 1]
  BY Mirror
<1> HIDE DEF t
<1>4. l \in Seq(S) /\ Len(l) = Len(t) /\ \A i \in 1 .. Len(t) : l[i] = t[Len(t) - i + 1]
  BY <1>2, Mirror
<1> HIDE DEF r
<1>5. u \in Seq(S) /\ Len(u) = 1 + Len(s) /\ u[1] = x /\ \A i \in 1 .. Len(s) : u[1 + i] = r[i]
  BY <1>1, <1>3, Joined
<1> HIDE DEF l, u
<1>6. ASSUME NEW i \in 1 .. Len(s) + 1
      PROVE  l[i] = u[i]
  <2>1. CASE i = 1
    BY <1>2, <1>4, <1>5, <2>1
  <2>2. CASE i # 1
    <3> DEFINE j == i - 1
    <3>1. /\ j \in 1 .. Len(s) /\ i = 1 + j /\ Len(t) - i + 1 = Len(s) - j + 1
          /\ Len(s) - j + 1 \in 1 .. Len(s)
      BY <1>2, <2>2
    <3>2. l[i] = t[Len(s) - j + 1] /\ u[i] = r[j]
      BY <1>2, <1>4, <1>5, <3>1
    <3> HIDE DEF j
    <3> QED
      BY <1>2, <1>3, <3>1, <3>2
  <2> QED
    BY <2>1, <2>2
<1>7. l = u
  BY <1>2, <1>4, <1>5, <1>6, SeqEqual
<1> QED
  BY <1>7 DEF l, t, u, r

LEMMA SuffixIs ==
  ASSUME NEW S, NEW s \in Seq(S), NEW t \in Seq(S)
  PROVE  IsSuffix(s, t) <=> /\ Len(s) <= Len(t)
                            /\ \A i \in 1 .. Len(s) : t[Len(t) - Len(s) + i] = s[i]
<1> DEFINE m == Len(s)  n == Len(t)  a == Reverse(s)  b == Reverse(t)
<1>1. /\ m \in Nat /\ n \in Nat /\ a \in Seq(S) /\ Len(a) = m /\ b \in Seq(S) /\ Len(b) = n
      /\ \A i \in 1 .. m : a[i] = s[m - i + 1]
      /\ \A i \in 1 .. n : b[i] = t[n - i + 1]
  BY Mirror
<1>2. IsSuffix(s, t) <=> m <= n /\ SubSeq(a, 1, m) = SubSeq(b, 1, m)
  BY <1>1 DEF IsSuffix, IsPrefix
<1> HIDE DEF a, b, m, n
<1>3. ASSUME m <= n
      PROVE  SubSeq(a, 1, m) = SubSeq(b, 1, m) <=> \A i \in 1 .. m : a[i] = b[i]
  <2>1. SubSeq(a, 1, m) \in Seq(S) /\ Len(SubSeq(a, 1, m)) = m /\ \A i \in 1 .. m : SubSeq(a, 1, m)[i] = a[i]
    BY <1>1
  <2>2. SubSeq(b, 1, m) \in Seq(S) /\ Len(SubSeq(b, 1, m)) = m /\ \A i \in 1 .. m : SubSeq(b, 1, m)[i] = b[i]
    BY <1>1, <1>3
  <2> DEFINE x == SubSeq(a, 1, m)  y == SubSeq(b, 1, m)
  <2> HIDE DEF x, y
  <2>3. (\A i \in 1 .. m : x[i] = y[i]) => x = y
    BY <2>1, <2>2, SeqEqual DEF x, y
  <2> QED
    BY <2>1, <2>2, <2>3 DEF x, y
<1>4. ASSUME m <= n
      PROVE  (\A i \in 1 .. m : a[i] = b[i]) <=> \A i \in 1 .. m : t[n - m + i] = s[i]
  <2>1. ASSUME NEW i \in 1 .. m
        PROVE  /\ m - i + 1 \in 1 .. m /\ n - m + (m - i + 1) = n - i + 1 /\ m - (m - i + 1) + 1 = i
               /\ i \in 1 .. n /\ n - (m - i + 1) + 1 = n - m + i /\ m - i + 1 \in 1 .. n
    BY <1>1, <1>4
  <2>2. ASSUME \A i \in 1 .. m : a[i] = b[i], NEW i \in 1 .. m
        PROVE  t[n - m + i] = s[i]
    <3> DEFINE j == m - i + 1
    <3>1. j \in 1 .. m /\ j \in 1 .. n /\ m - j + 1 = i /\ n - j + 1 = n - m + i
      BY <2>1
    <3> HIDE DEF j
    <3>2. a[j] = s[i] /\ b[j] = t[n - m + i] /\ a[j] = b[j]
      BY <1>1, <2>2, <3>1
    <3> QED
      BY <3>2
  <2>3. ASSUME \A i \in 1 .. m : t[n - m + i] = s[i], NEW i \in 1 .. m
        PROVE  a[i] = b[i]
    <3> DEFINE j == m - i + 1
    <3>1. j \in 1 .. m /\ i \in 1 .. n /\ n - m + j = n - i + 1
      BY <2>1
    <3>2. a[i] = s[j] /\ b[i] = t[n - i + 1]
      BY <1>1, <3>1
    <3> HIDE DEF j
    <3>3. t[n - m + j] = s[j]
      BY <2>3, <3>1
    <3> QED
      BY <3>1, <3>2, <3>3
  <2> QED
    BY <2>2, <2>3
<1> QED
  BY <1>2, <1>3, <1>4 DEF m, n

\* A text ends like another one if something stands before it
LEMMA SuffixJoined ==
  ASSUME NEW S, NEW s \in Seq(S), NEW t \in Seq(S)
  PROVE  IsSuffix(s, t) <=> \E a \in Seq(S) : t = a \o s
<1>1. ASSUME IsSuffix(s, t)
      PROVE  \E a \in Seq(S) : t = a \o s
  <2> DEFINE k == Len(t) - Len(s)  a == SubSeq(t, 1, k)
  <2>1. Len(s) <= Len(t) /\ \A i \in 1 .. Len(s) : t[k + i] = s[i]
    BY <1>1, SuffixIs
  <2>2. k \in Nat /\ k + Len(s) = Len(t) /\ k <= Len(t) /\ Len(s) \in Nat
    BY <2>1
  <2> HIDE DEF k
  <2>3. a \in Seq(S) /\ Len(a) = k /\ \A i \in 1 .. k : a[i] = t[i]
    BY <2>2
  <2> HIDE DEF a
  <2>4. /\ a \o s \in Seq(S) /\ Len(a \o s) = k + Len(s) /\ \A i \in 1 .. k : (a \o s)[i] = a[i]
        /\ \A i \in 1 .. Len(s) : (a \o s)[k + i] = s[i]
    <3>1. /\ a \o s \in Seq(S) /\ Len(a \o s) = Len(a) + Len(s) /\ \A i \in 1 .. Len(a) : (a \o s)[i] = a[i]
          /\ \A i \in 1 .. Len(s) : (a \o s)[Len(a) + i] = s[i]
      <4>1. a \in Seq(S)
        BY <2>3
      <4> QED
        BY <4>1, Joined
    <3> QED
      BY <2>3, <3>1
  <2>5. ASSUME NEW i \in 1 .. Len(t)
        PROVE  t[i] = (a \o s)[i]
    <3>1. CASE i \in 1 .. k
      BY <2>3, <2>4, <3>1
    <3>2. CASE i \notin 1 .. k
      <4>1. i - k \in 1 .. Len(s) /\ k + (i - k) = i
        BY <2>2, <3>2
      <4> QED
        BY <2>1, <2>4, <4>1
    <3> QED
      BY <3>1, <3>2
  <2>6. t = a \o s
    BY <2>2, <2>4, <2>5, SeqEqual
  <2> QED
    BY <2>3, <2>6
<1>2. ASSUME NEW a \in Seq(S), t = a \o s
      PROVE  IsSuffix(s, t)
  <2>1. Len(t) = Len(a) + Len(s) /\ \A i \in 1 .. Len(s) : t[Len(a) + i] = s[i]
    BY <1>2, Joined
  <2>2. Len(t) - Len(s) = Len(a) /\ Len(s) <= Len(t)
    BY <2>1
  <2> QED
    BY <2>1, <2>2, SuffixIs
<1> QED
  BY <1>1, <1>2

-----------------------------------------------------------------------------
\* Flattening, by the recursive function in its definition
Flat(f, G, n) == f = [i \in 1 .. n |-> IF i = 1 THEN G[i] ELSE f[i - 1] \o G[i]]

\* By taking the least length that has none
LEMMA FlatExists ==
  ASSUME NEW G, NEW n \in Nat
  PROVE  \E f : Flat(f, G, n)
<1> DEFINE T == {k \in 0 .. n : ~\E f : Flat(f, G, k)}
<1> SUFFICES ASSUME T # {}
             PROVE  FALSE
  OBVIOUS
<1>1. PICK k \in T : \A y \in T : k <= y
  <2>1. T \subseteq Nat
    OBVIOUS
  <2> HIDE DEF T
  <2> QED
    BY <2>1, Least
<1>2. k # 0
  <2> DEFINE e == [i \in 1 .. 0 |-> 0]
  <2>1. Flat(e, G, 0)
    BY DEF Flat
  <2> QED
    BY <1>1, <2>1
<1>3. k - 1 \in 0 .. n /\ k \in 1 .. n /\ k - 1 \notin T
  BY <1>1, <1>2
<1>4. PICK f : Flat(f, G, k - 1)
  BY <1>3
<1> DEFINE g == [i \in 1 .. k |-> IF i = k /\ k # 1 THEN f[k - 1] \o G[k] ELSE IF i = k THEN G[1] ELSE f[i]]
<1>5. ASSUME NEW i \in 1 .. k
      PROVE  g[i] = IF i = 1 THEN G[i] ELSE g[i - 1] \o G[i]
  <2>1. CASE i = k
    <3>1. CASE k = 1
      BY <2>1, <3>1
    <3>2. CASE k # 1
      <4>1. k - 1 \in 1 .. k /\ k - 1 # k
        BY <1>3, <3>2
      <4>2. g[k - 1] = f[k - 1]
        BY <4>1
      <4> QED
        BY <2>1, <3>2, <4>2
    <3> QED
      BY <3>1, <3>2
  <2>2. CASE i # k
    <3>1. i \in 1 .. k - 1 /\ g[i] = f[i]
      BY <1>3, <2>2
    <3>2. f[i] = IF i = 1 THEN G[i] ELSE f[i - 1] \o G[i]
      BY <1>4, <3>1 DEF Flat
    <3>3. i # 1 => g[i - 1] = f[i - 1]
      <4>1. i # 1 => i - 1 \in 1 .. k /\ i - 1 # k
        BY <1>3, <3>1
      <4> QED
        BY <4>1
    <3> QED
      BY <3>1, <3>2, <3>3
  <2> QED
    BY <2>1, <2>2
<1>6. g = [i \in 1 .. k |-> g[i]]
  OBVIOUS
<1> HIDE DEF g
<1>7. Flat(g, G, k)
  BY <1>5, <1>6 DEF Flat
<1> QED
  BY <1>1, <1>7

Agree(f, g, n) == \A i \in 1 .. n : f[i] = g[i]

\* It agrees with that of a longer one
LEMMA FlatAgrees ==
  ASSUME NEW G, NEW H, NEW n \in Nat, NEW m \in Nat, n <= m, Agree(G, H, n),
         NEW f, NEW g, Flat(f, G, n), Flat(g, H, m)
  PROVE  Agree(f, g, n)
<1> DEFINE T == {i \in 1 .. n : f[i] # g[i]}
<1> SUFFICES ASSUME T # {}
             PROVE  FALSE
  BY DEF Agree
<1>1. T \subseteq Nat
  OBVIOUS
<1>2. PICK x \in T : \A y \in T : x <= y
  <2> HIDE DEF T
  <2> QED
    BY <1>1, Least
<1>0. x \in 1 .. n /\ x \in 1 .. m /\ G[x] = H[x]
  BY <1>2 DEF Agree
<1>3. x # 1
  BY <1>0, <1>2 DEF Flat
<1>4. x - 1 \in 1 .. n /\ x - 1 \notin T
  BY <1>2, <1>3
<1>5. f[x - 1] = g[x - 1]
  BY <1>4
<1>6. f[x] = f[x - 1] \o G[x] /\ g[x] = g[x - 1] \o H[x]
  BY <1>0, <1>3 DEF Flat
<1> QED
  BY <1>0, <1>2, <1>5, <1>6

LEMMA FlatType ==
  ASSUME NEW S, NEW n \in Nat, NEW G, \A i \in 1 .. n : G[i] \in Seq(S), NEW f, Flat(f, G, n)
  PROVE  \A i \in 1 .. n : f[i] \in Seq(S)
<1> DEFINE T == {i \in 1 .. n : f[i] \notin Seq(S)}
<1> SUFFICES ASSUME T # {}
             PROVE  FALSE
  OBVIOUS
<1>1. T \subseteq Nat
  OBVIOUS
<1>2. PICK x \in T : \A y \in T : x <= y
  <2> HIDE DEF T
  <2> QED
    BY <1>1, Least
<1>3. x # 1
  BY <1>2 DEF Flat
<1>4. x - 1 \in 1 .. n /\ x - 1 \notin T
  BY <1>2, <1>3
<1>5. f[x - 1] \in Seq(S) /\ G[x] \in Seq(S)
  BY <1>2, <1>4
<1>6. f[x] = f[x - 1] \o G[x]
  BY <1>2, <1>3 DEF Flat
<1>7. f[x] \in Seq(S)
  <2> DEFINE y == f[x - 1]  z == G[x]
  <2>1. y \in Seq(S) /\ z \in Seq(S) /\ f[x] = y \o z
    BY <1>5, <1>6
  <2> HIDE DEF y, z
  <2> QED
    BY <2>1
<1> QED
  BY <1>2, <1>7

LEMMA FlattenIs ==
  ASSUME NEW G, Len(G) \in Nat, Len(G) # 0, NEW f, Flat(f, G, Len(G))
  PROVE  FlattenSeq(G) = f[Len(G)]
<1> DEFINE g == CHOOSE h : h = [i \in 1 .. Len(G) |-> IF i = 1 THEN G[i] ELSE h[i - 1] \o G[i]]
<1>1. FlattenSeq(G) = LET flatten[i \in 1 .. Len(G)] == IF i = 1 THEN G[i] ELSE flatten[i - 1] \o G[i]
                      IN  flatten[Len(G)]
  BY DEF FlattenSeq
<1>2. FlattenSeq(G) = g[Len(G)]
  BY <1>1
<1>3. Flat(g, G, Len(G))
  BY DEF Flat
<1> HIDE DEF g
<1>4. Len(G) \in 1 .. Len(G) /\ Len(G) <= Len(G)
  OBVIOUS
<1>5. \A i \in 1 .. Len(G) : f[i] = g[i]
  BY <1>3, <1>4, FlatAgrees DEF Agree
<1> QED
  BY <1>2, <1>4, <1>5

LEMMA FlattenType ==
  ASSUME NEW S, NEW G \in Seq(Seq(S))
  PROVE  FlattenSeq(G) \in Seq(S)
<1>1. CASE Len(G) = 0
  BY <1>1 DEF FlattenSeq
<1>2. CASE Len(G) # 0
  <2>1. Len(G) \in Nat /\ Len(G) \in 1 .. Len(G) /\ \A i \in 1 .. Len(G) : G[i] \in Seq(S)
    BY <1>2
  <2>2. PICK f : Flat(f, G, Len(G))
    BY <2>1, FlatExists
  <2>3. f[Len(G)] \in Seq(S)
    BY <2>1, <2>2, FlatType
  <2> QED
    BY <1>2, <2>1, <2>2, <2>3, FlattenIs
<1> QED
  BY <1>1, <1>2

\* The last text comes last
LEMMA FlattenLast ==
  ASSUME NEW S, NEW G \in Seq(Seq(S)), NEW x \in Seq(S), NEW H, H = G \o <<x>>
  PROVE  FlattenSeq(H) = FlattenSeq(G) \o x
<1> DEFINE n == Len(G)
<1>1. <<x>> \in Seq(Seq(S)) /\ Len(<<x>>) = 1 /\ <<x>>[1] = x
  OBVIOUS
<1>2. /\ n \in Nat /\ Len(H) = n + 1 /\ H[n + 1] = x /\ \A i \in 1 .. n : H[i] = G[i] /\ H \in Seq(Seq(S))
  BY <1>1, Joined
<1> HIDE DEF n
<1>3. PICK g : Flat(g, H, n + 1)
  <2>1. n + 1 \in Nat
    BY <1>2
  <2> QED
    BY <2>1, FlatExists
<1>4. FlattenSeq(H) = g[n + 1]
  <2>1. Len(H) \in Nat /\ Len(H) # 0 /\ Flat(g, H, Len(H))
    BY <1>2, <1>3
  <2> QED
    BY <1>2, <2>1, FlattenIs
<1>5. CASE n = 0
  <2>1. g[n + 1] = x
    BY <1>2, <1>3, <1>5 DEF Flat
  <2>2. FlattenSeq(G) = <<>>
    BY <1>5 DEF FlattenSeq, n
  <2> QED
    BY <1>4, <2>1, <2>2
<1>6. CASE n # 0
  <2>1. n \in 1 .. n /\ n + 1 \in 1 .. n + 1 /\ (n + 1) - 1 = n /\ n + 1 # 1 /\ n <= n + 1 /\ n + 1 \in Nat
    BY <1>2, <1>6
  <2>2. PICK f : Flat(f, G, n)
    BY <1>2, FlatExists
  <2>3. f[n] = g[n]
    <3>1. Agree(G, H, n)
      BY <1>2 DEF Agree
    <3>2. Agree(f, g, n)
      BY <1>2, <1>3, <2>1, <2>2, <3>1, FlatAgrees
    <3> QED
      BY <2>1, <3>2 DEF Agree
  <2>4. g[n + 1] = g[n] \o x
    BY <1>2, <1>3, <2>1 DEF Flat
  <2>5. FlattenSeq(G) = f[n]
    <3>1. Len(G) \in Nat /\ Len(G) # 0 /\ Flat(f, G, Len(G))
      BY <1>2, <1>6, <2>2 DEF n
    <3> QED
      BY <3>1, FlattenIs DEF n
  <2> QED
    BY <1>4, <2>3, <2>4, <2>5
<1> QED
  BY <1>5, <1>6

-----------------------------------------------------------------------------
\* Labels and the text they make
LEMMA LastOf ==
  ASSUME NEW S, NEW d \in Seq(S), d # <<>>
  PROVE  \E e \in Seq(S) : \E l \in S : d = e \o <<l>> /\ Len(e) = Len(d) - 1 /\ l = d[Len(d)]
<1>1. Len(d) \in Nat /\ 1 \in 1 .. Len(d) /\ Len(d) \in 1 .. Len(d) /\ d[Len(d)] \in S
  <2>1. Len(d) \in Nat /\ Len(d) # 0
    OBVIOUS
  <2>2. 1 \in 1 .. Len(d) /\ Len(d) \in 1 .. Len(d)
    BY <2>1
  <2> QED
    BY <2>1, <2>2
<1>2. SubSeq(d, 1, Len(d)) = d
  BY SubSeqFull
<1>3. d = SubSeq(d, 1, Len(d) - 1) \o <<d[Len(d)]>>
  BY <1>1, <1>2, SubSeqRecursiveSecond
<1>4. SubSeq(d, 1, Len(d) - 1) \in Seq(S) /\ Len(SubSeq(d, 1, Len(d) - 1)) = Len(d) - 1
  <2>1. Len(d) - 1 \in Int /\ \A i \in 1 .. Len(d) - 1 : d[i] \in S
    BY <1>1
  <2>2. Len(SubSeq(d, 1, Len(d) - 1)) = IF 1 <= Len(d) - 1 THEN Len(d) - 1 - 1 + 1 ELSE 0
    BY <2>1, SubSeqProperties
  <2>3. Len(SubSeq(d, 1, Len(d) - 1)) = Len(d) - 1
    <3> DEFINE n == Len(d)  m == Len(SubSeq(d, 1, Len(d) - 1))
    <3>1. n \in Nat /\ 1 \in 1 .. n /\ m = IF 1 <= n - 1 THEN n - 1 - 1 + 1 ELSE 0
      BY <1>1, <2>2
    <3> HIDE DEF n, m
    <3>2. m = n - 1
      BY <3>1
    <3> QED
      BY <3>2 DEF n, m
  <2> QED
    BY <2>1, <2>3, SubSeqProperties
<1> QED
  BY <1>1, <1>3, <1>4

LEMMA FirstOf ==
  ASSUME NEW S, NEW d \in Seq(S), d # <<>>
  PROVE  \E e \in Seq(S) : \E l \in S : d = <<l>> \o e /\ l = d[1]
<1>1. Len(d) \in Nat /\ 1 \in 1 .. Len(d) /\ Len(d) \in 1 .. Len(d) /\ d[1] \in S
  <2>1. Len(d) \in Nat /\ Len(d) # 0
    OBVIOUS
  <2>2. 1 \in 1 .. Len(d) /\ Len(d) \in 1 .. Len(d)
    BY <2>1
  <2> QED
    BY <2>1, <2>2
<1>2. SubSeq(d, 1, Len(d)) = d
  BY SubSeqFull
<1>3. d = <<d[1]>> \o SubSeq(d, 2, Len(d))
  <2>1. 1 + 1 = 2
    OBVIOUS
  <2> QED
    BY <1>1, <1>2, <2>1, SubSeqRecursiveFirst
<1>4. SubSeq(d, 2, Len(d)) \in Seq(S)
  <2>1. \A i \in 2 .. Len(d) : d[i] \in S
    OBVIOUS
  <2> QED
    BY <1>1, <2>1, SubSeqProperties
<1> QED
  BY <1>1, <1>3, <1>4

LEMMA Associates ==
  \A S : \A x, y, z \in Seq(S) : (x \o y) \o z = x \o (y \o z)
BY ConcatAssociative

Letters == Parts \cup {"."}

LEMMA LettersJoined ==
  /\ \A x, y \in Seq(Letters) : x \o y \in Seq(Letters)
  /\ \A x, y, z \in Seq(Letters) : (x \o y) \o z = x \o (y \o z)
<1>1. \A S : \A x, y \in Seq(S) : x \o y \in Seq(S)
  OBVIOUS
<1> QED
  BY <1>1, Associates

LEMMA LabelsJoined ==
  /\ \A x, y \in Seq(Label) : x \o y \in Seq(Label)
  /\ \A x, y, z \in Seq(Label) : (x \o y) \o z = x \o (y \o z)
<1>1. \A S : \A x, y \in Seq(S) : x \o y \in Seq(S)
  OBVIOUS
<1> QED
  BY <1>1, Associates

LEMMA LabelBehind ==
  ASSUME NEW p \in Seq(Label), NEW d \in Seq(Label), NEW l \in Label
  PROVE  (p \o d) \o <<l>> = p \o (d \o <<l>>)
<1>1. <<l>> \in Seq(Label)
  OBVIOUS
<1> QED
  BY <1>1, LabelsJoined

LEMMA LabelText ==
  ASSUME NEW l \in Label
  PROVE  /\ l \in Seq(Parts) /\ l \in Seq(Letters) /\ Len(l) \in Nat /\ Len(l) >= 1
         /\ <<".">> \o l \in Seq(Letters)
         /\ \A i \in 1 .. Len(l) : l[i] # "."
<1>1. l \in Seq(Parts) /\ Len(l) \in Nat /\ Len(l) # 0
  BY DEF Label
<1>2. l \in Seq(Letters)
  BY <1>1 DEF Letters
<1>3. <<".">> \in Seq(Letters)
  BY DEF Letters
<1>4. <<".">> \o l \in Seq(Letters)
  BY <1>2, <1>3
<1>5. \A i \in 1 .. Len(l) : l[i] # "."
  <2>1. "." \notin Parts
    BY PartAssumption DEF Marks
  <2>2. \A i \in 1 .. Len(l) : l[i] \in Parts
    BY <1>1
  <2> QED
    BY <2>1, <2>2
<1> QED
  BY <1>1, <1>2, <1>4, <1>5

LEMMA PointAssociates ==
  ASSUME NEW a \in Seq(Letters), NEW b \in Seq(Letters), NEW l \in Label
  PROVE  ((a \o b) \o <<".">>) \o l = a \o ((b \o <<".">>) \o l)
<1> DEFINE x == <<".">>
<1>1. x \in Seq(Letters) /\ l \in Seq(Letters)
  BY LabelText DEF Letters
<1> HIDE DEF x
<1>2. b \o x \in Seq(Letters)
  BY <1>1, LettersJoined
<1>3. (a \o b) \o x = a \o (b \o x)
  BY <1>1, LettersJoined
<1>4. (a \o (b \o x)) \o l = a \o ((b \o x) \o l)
  <2> DEFINE y == b \o x
  <2>1. y \in Seq(Letters) /\ l \in Seq(Letters)
    BY <1>1, <1>2
  <2> HIDE DEF y
  <2>2. (a \o y) \o l = a \o (y \o l)
    BY <2>1, LettersJoined
  <2> QED
    BY <2>2 DEF y
<1> QED
  BY <1>3, <1>4 DEF x

LEMMA PointsType ==
  ASSUME NEW h \in Seq(Label)
  PROVE  Points(h) \in Seq(Letters) /\ Points(<<>>) = <<>>
<1> DEFINE G == [i \in DOMAIN h |-> <<".">> \o h[i]]
<1>1. G \in Seq(Seq(Letters))
  <2>1. Len(h) \in Nat /\ DOMAIN h = 1 .. Len(h) /\ \A i \in 1 .. Len(h) : h[i] \in Label
    OBVIOUS
  <2>2. \A i \in 1 .. Len(h) : <<".">> \o h[i] \in Seq(Letters)
    BY <2>1, LabelText
  <2> QED
    BY <2>1, <2>2
<1>2. Points(h) \in Seq(Letters)
  <2> HIDE DEF G
  <2> QED
    BY <1>1, FlattenType DEF Points, G
<1>3. Points(<<>>) = <<>>
  <2>1. Len([i \in DOMAIN <<>> |-> <<".">> \o <<>>[i]]) = 0 /\ [i \in DOMAIN <<>> |-> <<".">> \o <<>>[i]] = <<>>
    OBVIOUS
  <2> QED
    BY <2>1 DEF Points, FlattenSeq
<1> QED
  BY <1>2, <1>3

LEMMA PointsLast ==
  ASSUME NEW h \in Seq(Label), NEW l \in Label
  PROVE  Points(h \o <<l>>) = (Points(h) \o <<".">>) \o l
<1> DEFINE w(s) == [i \in DOMAIN s |-> <<".">> \o s[i]]
           n == Len(h)  k == h \o <<l>>  x == <<".">> \o l
<1>1. /\ k \in Seq(Label) /\ Len(k) = n + 1 /\ DOMAIN k = 1 .. n + 1 /\ n \in Nat /\ DOMAIN h = 1 .. n
      /\ k[n + 1] = l /\ \A i \in 1 .. n : k[i] = h[i] /\ h[i] \in Label
  <2>1. <<l>> \in Seq(Label) /\ Len(<<l>>) = 1 /\ <<l>>[1] = l
    OBVIOUS
  <2> QED
    BY <2>1, Joined
<1>2. x \in Seq(Letters)
  BY LabelText
<1> HIDE DEF k, x
<1>3. w(h) \in Seq(Seq(Letters)) /\ Len(w(h)) = n
  <2>1. \A i \in 1 .. n : <<".">> \o h[i] \in Seq(Letters)
    BY <1>1, LabelText
  <2> QED
    BY <1>1, <2>1
<1>4. w(k) = w(h) \o <<x>>
  <2> DEFINE u == w(h)  v == u \o <<x>>
  <2>1. /\ u \in Seq(Seq(Letters)) /\ Len(u) = n /\ \A i \in 1 .. n : u[i] = <<".">> \o h[i]
    BY <1>1, <1>3
  <2> HIDE DEF u
  <2>2. <<x>> \in Seq(Seq(Letters)) /\ Len(<<x>>) = 1 /\ <<x>>[1] = x
    BY <1>2
  <2>3. v \in Seq(Seq(Letters)) /\ Len(v) = n + 1 /\ v[n + 1] = x /\ \A i \in 1 .. n : v[i] = u[i]
    BY <2>1, <2>2, Joined
  <2> HIDE DEF v
  <2>4. ASSUME NEW i \in 1 .. n + 1
        PROVE  v[i] = <<".">> \o k[i]
    <3>1. CASE i = n + 1
      BY <1>1, <2>3, <3>1 DEF x
    <3>2. CASE i # n + 1
      <4>1. i \in 1 .. n
        BY <1>1, <3>2
      <4> QED
        BY <1>1, <2>1, <2>3, <4>1
    <3> QED
      BY <3>1, <3>2
  <2>5. v = [i \in 1 .. n + 1 |-> v[i]]
    BY <1>1, <2>3
  <2>6. w(k) = v
    BY <1>1, <2>4, <2>5
  <2> QED
    BY <2>6 DEF v, u
<1> HIDE DEF w
<1>5. FlattenSeq(w(k)) = FlattenSeq(w(h)) \o x
  BY <1>2, <1>3, <1>4, FlattenLast
<1>6. Points(k) = Points(h) \o x
  BY <1>5 DEF Points, w
<1>7. (Points(h) \o <<".">>) \o l = Points(h) \o x
  <2>1. Points(h) \in Seq(Letters) /\ <<".">> \in Seq(Letters) /\ l \in Seq(Letters)
    BY PointsType, LabelText DEF Letters
  <2> QED
    BY <2>1, LettersJoined DEF x
<1> QED
  BY <1>6, <1>7 DEF k

\* By taking the shortest names behind that make a difference
LEMMA PointsJoined ==
  ASSUME NEW p \in Seq(Label), NEW d \in Seq(Label)
  PROVE  Points(p \o d) = Points(p) \o Points(d)
<1> DEFINE Wrong(e) == Points(p \o e) # Points(p) \o Points(e)
           T == {n \in Nat : \E e \in Seq(Label) : Len(e) = n /\ Wrong(e)}
<1> SUFFICES ASSUME Wrong(d)
             PROVE  FALSE
  OBVIOUS
<1>1. PICK k \in T : \A y \in T : k <= y
  <2>1. T \subseteq Nat /\ T # {}
    <3>1. Len(d) \in Nat
      OBVIOUS
    <3>2. Len(d) \in T
      <4> HIDE DEF Wrong
      <4> QED
        BY <3>1
    <3> QED
      BY <3>2
  <2> HIDE DEF T
  <2> QED
    BY <2>1, Least
<1>2. PICK e \in Seq(Label) : Wrong(e) /\ Len(e) = k
  <2> HIDE DEF Wrong
  <2> QED
    BY <1>1
<1>3. e # <<>>
  <2>1. p \o <<>> = p /\ Points(p) \o <<>> = Points(p) /\ Points(<<>>) = <<>>
    BY PointsType, ConcatEmptySeq
  <2> QED
    BY <1>2, <2>1
<1>4. PICK f \in Seq(Label), l \in Label : e = f \o <<l>> /\ Len(f) = Len(e) - 1
  BY <1>3, LastOf
<1>5. ~Wrong(f)
  <2>1. Len(f) < k /\ Len(f) \in Nat /\ k \in Nat
    BY <1>2, <1>4
  <2>2. Len(f) \notin T
    <3>1. Len(f) \in T => k <= Len(f)
      <4> HIDE DEF T
      <4> QED
        BY <1>1
    <3>2. ~(k <= Len(f))
      BY <2>1
    <3> QED
      BY <3>1, <3>2
  <2> HIDE DEF Wrong
  <2> QED
    BY <2>2
<1>6. p \o e = (p \o f) \o <<l>>
  BY <1>4, LabelBehind
<1>7. Points(p \o e) = (Points(p \o f) \o <<".">>) \o l
  <2>1. p \o f \in Seq(Label)
    OBVIOUS
  <2> QED
    BY <1>6, <2>1, PointsLast
<1>8. Points(e) = (Points(f) \o <<".">>) \o l
  BY <1>4, PointsLast
<1>9. ((Points(p) \o Points(f)) \o <<".">>) \o l = Points(p) \o ((Points(f) \o <<".">>) \o l)
  <2>1. Points(p) \in Seq(Letters) /\ Points(f) \in Seq(Letters)
    BY PointsType
  <2> QED
    BY <2>1, PointAssociates
<1> QED
  BY <1>2, <1>5, <1>7, <1>8, <1>9

\* Where the last dot is
Pointed(t, x, l) == t = (x \o <<".">>) \o l

LEMMA LastPoint ==
  ASSUME NEW t, NEW x \in Seq(Letters), NEW y \in Seq(Letters), NEW l \in Label, NEW m \in Label,
         Pointed(t, x, l), Pointed(t, y, m)
  PROVE  x = y /\ l = m
<1>1. ASSUME NEW z \in Seq(Letters), NEW k \in Label, t = (z \o <<".">>) \o k
      PROVE  /\ Len(z) \in Nat /\ Len(k) \in Nat /\ Len(t) = Len(z) + 1 + Len(k)
             /\ t[Len(z) + 1] = "." /\ \A i \in 1 .. Len(t) : i > Len(z) + 1 => t[i] # "."
  <2> DEFINE u == z \o <<".">>
  <2>1. u \in Seq(Letters) /\ Len(u) = Len(z) + 1 /\ u[Len(z) + 1] = "." /\ Len(z) \in Nat
    <3>1. <<".">> \in Seq(Letters) /\ Len(<<".">>) = 1 /\ <<".">>[1] = "."
      BY DEF Letters
    <3> QED
      BY <3>1, Joined
  <2> HIDE DEF u
  <2>2. k \in Seq(Letters) /\ Len(k) \in Nat /\ \A i \in 1 .. Len(k) : k[i] # "."
    BY LabelText
  <2>3. t = u \o k
    BY <1>1 DEF u
  <2>4. /\ Len(t) = Len(u) + Len(k) /\ \A i \in 1 .. Len(u) : t[i] = u[i]
        /\ \A i \in 1 .. Len(k) : t[Len(u) + i] = k[i]
    <3>1. u \in Seq(Letters) /\ k \in Seq(Letters)
      BY <2>1, <2>2
    <3> QED
      BY <2>3, <3>1, Joined
  <2>5. t[Len(z) + 1] = "." /\ Len(t) = Len(z) + 1 + Len(k)
    <3>1. Len(z) + 1 \in 1 .. Len(u)
      BY <2>1
    <3> QED
      BY <2>1, <2>4, <3>1
  <2>6. ASSUME NEW i \in 1 .. Len(t), i > Len(z) + 1
        PROVE  t[i] # "."
    <3> DEFINE j == i - Len(u)
    <3>1. j \in 1 .. Len(k) /\ i = Len(u) + j
      BY <2>1, <2>2, <2>4, <2>6
    <3> HIDE DEF j
    <3> QED
      BY <2>2, <2>4, <3>1
  <2> QED
    BY <2>1, <2>2, <2>5, <2>6
<1>2. t = (y \o <<".">>) \o m
  BY DEF Pointed
<1>3. t = (x \o <<".">>) \o l
  BY DEF Pointed
<1>4. Len(x) = Len(y) /\ Len(l) = Len(m) /\ Len(x) \in Nat /\ Len(l) \in Nat
  <2>1. /\ Len(x) \in Nat /\ Len(l) \in Nat /\ Len(t) = Len(x) + 1 + Len(l)
        /\ t[Len(x) + 1] = "." /\ \A i \in 1 .. Len(t) : i > Len(x) + 1 => t[i] # "."
    BY <1>1, <1>3
  <2>2. /\ Len(y) \in Nat /\ Len(m) \in Nat /\ Len(t) = Len(y) + 1 + Len(m)
        /\ t[Len(y) + 1] = "." /\ \A i \in 1 .. Len(t) : i > Len(y) + 1 => t[i] # "."
    BY <1>1, <1>2
  <2>3. Len(x) + 1 \in 1 .. Len(t) /\ Len(y) + 1 \in 1 .. Len(t)
    BY <2>1, <2>2
  <2> QED
    BY <2>1, <2>2, <2>3
<1>5. ASSUME NEW z \in Seq(Letters), NEW k \in Label, t = (z \o <<".">>) \o k
      PROVE  /\ \A i \in 1 .. Len(z) : z[i] = t[i]
             /\ \A i \in 1 .. Len(k) : k[i] = t[Len(z) + 1 + i]
  <2> DEFINE u == z \o <<".">>
  <2>1. u \in Seq(Letters) /\ Len(u) = Len(z) + 1 /\ Len(z) \in Nat /\ \A i \in 1 .. Len(z) : u[i] = z[i]
    <3>1. <<".">> \in Seq(Letters) /\ Len(<<".">>) = 1
      BY DEF Letters
    <3> QED
      BY <3>1, Joined
  <2> HIDE DEF u
  <2>2. k \in Seq(Letters)
    BY LabelText
  <2>3. t = u \o k
    BY <1>5 DEF u
  <2>4. /\ \A i \in 1 .. Len(u) : t[i] = u[i]
        /\ \A i \in 1 .. Len(k) : t[Len(u) + i] = k[i]
    BY <2>1, <2>2, <2>3, Joined
  <2>5. \A i \in 1 .. Len(z) : i \in 1 .. Len(u)
    BY <2>1
  <2> QED
    BY <2>1, <2>4, <2>5
<1>6. x = y
  <2>1. \A i \in 1 .. Len(x) : x[i] = y[i]
    BY <1>2, <1>3, <1>4, <1>5
  <2> QED
    BY <1>4, <2>1, SeqEqual
<1>7. l = m
  <2>1. \A i \in 1 .. Len(l) : l[i] = m[i]
    <3>1. \A i \in 1 .. Len(l) : l[i] = t[Len(x) + 1 + i]
      BY <1>3, <1>5
    <3>2. \A i \in 1 .. Len(m) : m[i] = t[Len(y) + 1 + i]
      BY <1>2, <1>5
    <3> QED
      BY <1>4, <3>1, <3>2
  <2>2. l \in Seq(Parts) /\ m \in Seq(Parts)
    BY LabelText
  <2> QED
    BY <1>4, <2>1, <2>2, SeqEqual
<1> QED
  BY <1>6, <1>7

LEMMA TailJoined ==
  ASSUME NEW S, NEW x \in S, NEW y \in Seq(S)
  PROVE  Tail(<<x>> \o y) = y
<1> DEFINE s == <<x>> \o y  t == Tail(s)
<1>1. s \in Seq(S) /\ Len(s) = 1 + Len(y) /\ Len(y) \in Nat /\ \A i \in 1 .. Len(y) : s[1 + i] = y[i]
  <2>1. <<x>> \in Seq(S) /\ Len(<<x>>) = 1
    OBVIOUS
  <2> QED
    BY <2>1, Joined
<1> HIDE DEF s
<1>2. s # <<>>
  BY <1>1
<1>3. t \in Seq(S) /\ Len(t) = Len(s) - 1 /\ \A i \in 1 .. Len(t) : t[i] = s[i + 1]
  BY <1>1, <1>2, HeadTailProperties
<1> HIDE DEF t
<1>4. Len(t) = Len(y) /\ \A i \in 1 .. Len(t) : t[i] = y[i]
  <2>1. Len(t) = Len(y)
    BY <1>1, <1>3
  <2>2. \A i \in 1 .. Len(t) : i + 1 = 1 + i
    BY <1>1, <2>1
  <2> QED
    BY <1>1, <1>3, <2>1, <2>2
<1>5. t = y
  BY <1>3, <1>4, SeqEqual
<1> QED
  BY <1>5 DEF t, s

\* The text of a name begins and ends with a part
LEMMA NameText ==
  ASSUME NEW h \in Name
  PROVE  /\ Points(h) = <<".">> \o Dotted(h)
         /\ Dotted(h) \in Seq(Letters) /\ Len(Dotted(h)) \in Nat /\ Len(Dotted(h)) >= 1
         /\ Dotted(h)[1] = h[1][1] /\ Dotted(h)[1] \in Parts /\ Dotted(h)[Len(Dotted(h))] \in Parts
<1>1. h \in Seq(Label) /\ h # <<>>
  BY DEF Name
<1>2. PICK e \in Seq(Label), l \in Label : h = <<l>> \o e /\ l = h[1]
  BY <1>1, FirstOf
<1>3. Points(<<l>>) = <<".">> \o l
  <2>1. <<>> \o <<l>> = <<l>> /\ <<>> \o <<".">> = <<".">> /\ <<>> \in Seq(Label)
    OBVIOUS
  <2>2. Points(<<>> \o <<l>>) = (Points(<<>>) \o <<".">>) \o l
    BY <2>1, PointsLast
  <2> QED
    BY <2>1, <2>2, PointsType
<1>4. Points(h) = (<<".">> \o l) \o Points(e)
  <2>1. <<l>> \in Seq(Label)
    OBVIOUS
  <2> QED
    BY <1>2, <1>3, <2>1, PointsJoined
<1> DEFINE y == l \o Points(e)
<1>5. y \in Seq(Letters) /\ Len(y) \in Nat /\ Len(y) >= 1 /\ y[1] = l[1] /\ l[1] \in Parts
  <2>1. l \in Seq(Letters) /\ l \in Seq(Parts) /\ Len(l) \in Nat /\ Len(l) >= 1
    BY LabelText
  <2>2. Points(e) \in Seq(Letters)
    BY PointsType
  <2>3. y \in Seq(Letters) /\ Len(y) = Len(l) + Len(Points(e)) /\ Len(Points(e)) \in Nat /\ \A i \in 1 .. Len(l) : y[i] = l[i]
    BY <2>1, <2>2, Joined
  <2> HIDE DEF y
  <2>4. 1 \in 1 .. Len(l) /\ l[1] \in Parts
    BY <2>1
  <2> QED
    BY <2>1, <2>3, <2>4
<1>6. Points(h) = <<".">> \o y
  <2>1. <<".">> \in Seq(Letters) /\ l \in Seq(Letters) /\ Points(e) \in Seq(Letters)
    BY LabelText, PointsType DEF Letters
  <2> QED
    BY <1>4, <2>1, LettersJoined
<1> HIDE DEF y
<1>7. Dotted(h) = y
  <2>1. "." \in Letters
    BY DEF Letters
  <2> QED
    BY <1>5, <1>6, <2>1, TailJoined DEF Dotted
<1>8. y[Len(y)] \in Parts
  <2>1. PICK g \in Seq(Label), m \in Label : h = g \o <<m>>
    BY <1>1, LastOf
  <2> DEFINE u == Points(g) \o <<".">>
  <2>2. Points(h) = u \o m
    BY <2>1, PointsLast
  <2>3. u \in Seq(Letters) /\ m \in Seq(Letters) /\ m \in Seq(Parts) /\ Len(m) \in Nat /\ Len(m) >= 1
    <3>1. Points(g) \in Seq(Letters) /\ <<".">> \in Seq(Letters)
      BY PointsType DEF Letters
    <3> QED
      BY <3>1, LabelText
  <2> HIDE DEF u
  <2>4. /\ Len(Points(h)) = Len(u) + Len(m) /\ Len(u) \in Nat
        /\ \A i \in 1 .. Len(m) : Points(h)[Len(u) + i] = m[i]
    BY <2>2, <2>3, Joined
  <2>5. Len(Points(h)) = 1 + Len(y) /\ \A i \in 1 .. Len(y) : Points(h)[1 + i] = y[i]
    <3>1. <<".">> \in Seq(Letters) /\ Len(<<".">>) = 1
      BY DEF Letters
    <3> QED
      BY <1>5, <1>6, <3>1, Joined
  <2>6. Len(m) \in 1 .. Len(m) /\ Len(y) \in 1 .. Len(y) /\ Len(u) + Len(m) = 1 + Len(y) /\ m[Len(m)] \in Parts
    <3>1. Len(m) \in 1 .. Len(m) /\ Len(y) \in 1 .. Len(y) /\ Len(u) + Len(m) = 1 + Len(y)
      BY <1>5, <2>3, <2>4, <2>5
    <3> QED
      BY <2>3, <3>1
  <2>7. Points(h)[Len(u) + Len(m)] = m[Len(m)] /\ Points(h)[1 + Len(y)] = y[Len(y)]
    BY <2>4, <2>5, <2>6
  <2> QED
    BY <2>6, <2>7
<1> QED
  BY <1>2, <1>5, <1>6, <1>7, <1>8

\* A text that ends like that of a name is of a name that ends like it
Ends(g, c) == \E p \in Seq(Label) : g = p \o c
TextEnds(g, c) == \E a \in Seq(Letters) : Points(g) = a \o Points(c)

LEMMA NameEnds ==
  ASSUME NEW h \in Seq(Label), NEW d \in Seq(Label), TextEnds(h, d)
  PROVE  Ends(h, d)
<1> DEFINE Wrong(g) == \E c \in Seq(Label) : TextEnds(g, c) /\ ~Ends(g, c)
           T == {n \in Nat : \E g \in Seq(Label) : Len(g) = n /\ Wrong(g)}
<1> SUFFICES ASSUME ~Ends(h, d)
             PROVE  FALSE
  OBVIOUS
<1>1. PICK k \in T : \A z \in T : k <= z
  <2>1. T \subseteq Nat /\ T # {}
    <3>1. Len(h) \in Nat /\ Wrong(h)
      OBVIOUS
    <3>2. Len(h) \in T
      <4> HIDE DEF Wrong
      <4> QED
        BY <3>1
    <3> QED
      BY <3>2
  <2> HIDE DEF T
  <2> QED
    BY <2>1, Least
<1>2. PICK g \in Seq(Label) : Wrong(g) /\ Len(g) = k
  <2> HIDE DEF Wrong
  <2> QED
    BY <1>1
<1>3. PICK c \in Seq(Label) : TextEnds(g, c) /\ ~Ends(g, c)
  BY <1>2
<1>4. PICK a \in Seq(Letters) : Points(g) = a \o Points(c)
  BY <1>3 DEF TextEnds
<1>5. c # <<>>
  <2>1. g \o <<>> = g
    BY ConcatEmptySeq
  <2> QED
    BY <1>3, <2>1 DEF Ends
<1>6. PICK b \in Seq(Label), m \in Label : c = b \o <<m>>
  <2>1. c \in Seq(Label) /\ c # <<>>
    BY <1>3, <1>5
  <2> HIDE DEF T, Wrong
  <2> QED
    BY <2>1, LastOf
<1>7. Points(g) = ((a \o Points(b)) \o <<".">>) \o m
  <2>1. Points(c) = (Points(b) \o <<".">>) \o m /\ Points(b) \in Seq(Letters)
    BY <1>6, PointsLast, PointsType
  <2> QED
    BY <1>4, <2>1, PointAssociates
<1>8. g # <<>>
  <2> DEFINE u == (a \o Points(b)) \o <<".">>
  <2>1. u \in Seq(Letters) /\ m \in Seq(Letters) /\ Len(m) \in Nat /\ Len(m) >= 1
    <3>1. Points(b) \in Seq(Letters) /\ <<".">> \in Seq(Letters)
      BY PointsType DEF Letters
    <3>2. a \o Points(b) \in Seq(Letters)
      BY <3>1
    <3>3. u \in Seq(Letters)
      <4> DEFINE v == a \o Points(b)
      <4>1. v \in Seq(Letters)
        BY <3>2
      <4> HIDE DEF v
      <4>2. v \o <<".">> \in Seq(Letters)
        BY <3>1, <4>1
      <4> QED
        BY <4>2 DEF v
    <3> QED
      BY <3>3, LabelText
  <2> HIDE DEF u
  <2>2. Len(u \o m) = Len(u) + Len(m) /\ Len(u) \in Nat
    BY <2>1, Joined
  <2>3. Len(u \o m) >= 1
    BY <2>1, <2>2
  <2>4. Points(<<>>) = <<>> /\ Len(<<>>) = 0
    BY PointsType
  <2> QED
    BY <1>7, <2>3, <2>4 DEF u
<1>9. PICK f \in Seq(Label), l \in Label : g = f \o <<l>> /\ Len(f) = Len(g) - 1
  BY <1>8, LastOf
<1>10. Points(f) = a \o Points(b) /\ l = m
  <2> DEFINE x == Points(f)  y == a \o Points(b)
  <2>1. x \in Seq(Letters) /\ y \in Seq(Letters)
    <3>1. Points(b) \in Seq(Letters)
      BY PointsType
    <3> QED
      BY <3>1, PointsType
  <2>2. Pointed(Points(g), x, l) /\ Pointed(Points(g), y, m)
    BY <1>7, <1>9, PointsLast DEF Pointed
  <2> HIDE DEF x, y, T, Wrong
  <2>3. x = y /\ l = m
    <3>1. l \in Label /\ m \in Label
      BY <1>6, <1>9
    <3> QED
      BY <2>1, <2>2, <3>1, LastPoint
  <2> QED
    BY <2>3 DEF x, y
<1>11. Ends(f, b)
  <2>1. TextEnds(f, b)
    BY <1>10 DEF TextEnds
  <2>2. Len(f) < k /\ Len(f) \in Nat /\ k \in Nat
    BY <1>2, <1>9
  <2>3. Len(f) \notin T
    <3>1. Len(f) \in T => k <= Len(f)
      <4> HIDE DEF T
      <4> QED
        BY <1>1
    <3>2. ~(k <= Len(f))
      BY <2>2
    <3> QED
      BY <3>1, <3>2
  <2>4. ~Wrong(f)
    <3> HIDE DEF Wrong
    <3> QED
      BY <2>2, <2>3
  <2> QED
    BY <2>1, <2>4
<1>12. PICK p \in Seq(Label) : f = p \o b
  BY <1>11 DEF Ends
<1>13. g = p \o c
  <2>1. m \in Label /\ b \in Seq(Label) /\ p \in Seq(Label)
    BY <1>6, <1>12
  <2>2. (p \o b) \o <<m>> = p \o (b \o <<m>>)
    BY <2>1, LabelBehind
  <2> QED
    BY <1>6, <1>9, <1>10, <1>12, <2>2
<1> QED
  BY <1>3, <1>13 DEF Ends

\* The names a host is or lies under are the ones the texts tell
LEMMA Matching ==
  ASSUME NEW h \in Name, NEW d \in Name
  PROVE  \/ Dotted(h) = Dotted(d)
         \/ IsSuffix(<<".">> \o Dotted(d), Dotted(h))
         <=> \E n \in 1 .. Len(h) : d = SubSeq(h, n, Len(h))
<1> DEFINE x == Dotted(h)  y == Dotted(d)  v == <<".">> \o y
<1>0. /\ h \in Seq(Label) /\ d \in Seq(Label) /\ Len(h) \in Nat /\ Len(d) \in Nat /\ Len(d) >= 1
  <2>1. h \in Seq(Label) /\ d \in Seq(Label) /\ d # <<>>
    BY DEF Name
  <2> QED
    BY <2>1
<1>1. /\ Points(h) = <<".">> \o x /\ Points(d) = v /\ <<".">> \in Seq(Letters)
      /\ x \in Seq(Letters) /\ y \in Seq(Letters) /\ v \in Seq(Letters)
  <2>1. <<".">> \in Seq(Letters)
    BY DEF Letters
  <2>2. Points(d) \in Seq(Letters)
    BY <1>0, PointsType
  <2> QED
    BY <2>1, <2>2, NameText
<1>2. ASSUME x = y \/ IsSuffix(v, x)
      PROVE  \E n \in 1 .. Len(h) : d = SubSeq(h, n, Len(h))
  <2>1. TextEnds(h, d)
    <3>1. CASE x = y
      <4>1. Points(h) = <<>> \o Points(d) /\ <<>> \in Seq(Letters)
        BY <1>1, <3>1
      <4> QED
        BY <4>1 DEF TextEnds
    <3>2. CASE IsSuffix(v, x)
      <4> HIDE DEF v, x, y
      <4>1. PICK a \in Seq(Letters) : x = a \o v
        BY <1>1, <3>2, SuffixJoined
      <4> DEFINE q == <<".">>
      <4>2. q \in Seq(Letters) /\ Points(h) = q \o (a \o v)
        BY <1>1, <4>1
      <4> HIDE DEF q
      <4>3. q \o a \in Seq(Letters) /\ Points(h) = (q \o a) \o v
        <5>1. q \in Seq(Letters) /\ a \in Seq(Letters) /\ v \in Seq(Letters)
          BY <1>1, <4>1, <4>2
        <5>2. (q \o a) \o v = q \o (a \o v)
          BY <5>1, LettersJoined
        <5> QED
          BY <4>2, <5>1, <5>2
      <4> QED
        BY <1>1, <4>3 DEF TextEnds
    <3> QED
      BY <1>2, <3>1, <3>2
  <2>2. PICK p \in Seq(Label) : h = p \o d
    BY <1>0, <2>1, NameEnds DEF Ends
  <2> DEFINE n == Len(p) + 1
  <2>3. /\ Len(h) = Len(p) + Len(d) /\ Len(p) \in Nat /\ n \in 1 .. Len(h)
        /\ n \in Len(p) + 1 .. Len(p) + Len(d) /\ Len(h) \in Len(p) + 1 .. Len(p) + Len(d)
        /\ n - Len(p) = 1 /\ Len(h) - Len(p) = Len(d)
    BY <1>0, <2>2
  <2>4. SubSeq(p \o d, n, Len(h)) = SubSeq(d, n - Len(p), Len(h) - Len(p))
    <3> HIDE DEF n
    <3> QED
      BY <1>0, <2>3, SubSeqOfConcat2
  <2>5. d = SubSeq(h, n, Len(h))
    <3>1. SubSeq(d, 1, Len(d)) = d
      BY <1>0, SubSeqFull
    <3> QED
      BY <2>2, <2>3, <2>4, <3>1
  <2> HIDE DEF n
  <2> QED
    BY <2>3, <2>5
<1>3. ASSUME NEW n \in 1 .. Len(h), d = SubSeq(h, n, Len(h))
      PROVE  x = y \/ IsSuffix(v, x)
  <2> DEFINE p == SubSeq(h, 1, n - 1)
  <2>1. p \in Seq(Label) /\ h = p \o d
    <3> DEFINE k == n - 1
    <3>1. /\ 1 \in 1 .. Len(h) + 1 /\ k \in 1 - 1 .. Len(h) /\ Len(h) \in k .. Len(h) /\ k + 1 = n /\ k \in Int
          /\ \A i \in 1 .. k : h[i] \in Label
      BY <1>0
    <3>2. SubSeq(h, 1, k) \in Seq(Label)
      <4> HIDE DEF k
      <4> QED
        BY <3>1, SubSeqProperties
    <3>3. SubSeq(h, 1, k) \o SubSeq(h, k + 1, Len(h)) = SubSeq(h, 1, Len(h))
      <4> HIDE DEF k
      <4> QED
        BY <1>0, <3>1, ConcatAdjacentSubSeq
    <3>4. SubSeq(h, 1, Len(h)) = h
      BY <1>0, SubSeqFull
    <3> QED
      BY <1>3, <3>1, <3>2, <3>3, <3>4
  <2> HIDE DEF p
  <2>2. CASE p = <<>>
    <3>1. h = d
      BY <1>0, <2>1, <2>2, ConcatEmptySeq
    <3> QED
      BY <3>1
  <2>3. CASE p # <<>>
    <3>1. p \in Name
      BY <2>1, <2>3 DEF Name
    <3> DEFINE z == Dotted(p)  q == <<".">>  u == z \o v
    <3>2. Points(p) = q \o z /\ z \in Seq(Letters)
      BY <3>1, NameText
    <3>3. Points(h) = Points(p) \o v
      BY <1>0, <1>1, <2>1, PointsJoined
    <3>4. q \in Seq(Letters) /\ Points(h) = q \o x
      BY <1>1
    <3> HIDE DEF z, q, v, x, y
    <3>5. u \in Seq(Letters)
      BY <1>1, <3>2
    <3>6. q \o x = q \o u
      <4>1. q \in Seq(Letters) /\ z \in Seq(Letters) /\ v \in Seq(Letters)
        BY <1>1, <3>2, <3>4
      <4>2. (q \o z) \o v = q \o (z \o v)
        BY <4>1, LettersJoined
      <4> QED
        BY <3>2, <3>3, <3>4, <4>2 DEF u
    <3> HIDE DEF u
    <3>7. x = u
      <4>1. q \in Seq(Letters) /\ x \in Seq(Letters) /\ u \in Seq(Letters)
        BY <1>1, <3>4, <3>5
      <4>2. "." \in Letters
        BY DEF Letters
      <4>3. Tail(q \o x) = x /\ Tail(q \o u) = u
        BY <4>1, <4>2, TailJoined DEF q
      <4> QED
        BY <3>6, <4>3
    <3>8. \E a \in Seq(Letters) : x = a \o v
      BY <3>2, <3>7 DEF u
    <3> QED
      BY <1>1, <3>8, SuffixJoined
  <2> QED
    BY <2>2, <2>3
<1> QED
  BY <1>2, <1>3

-----------------------------------------------------------------------------
\* The trims
Other(t, c) == t = <<>> \/ t[1] # c
OtherEnd(t, c) == t = <<>> \/ t[Len(t)] # c

LEMMA StartStays ==
  ASSUME NEW S, NEW t \in Seq(S), NEW p \in Seq(S), Len(p) \in {1, 2}, Other(t, p[1])
  PROVE  TrimStart(t, p) = t
<1>1. Len(t) \in Nat
  OBVIOUS
<1>2. Runs(t, p) \subseteq Int /\ 0 \in Runs(t, p)
  <2>1. 0 % Len(p) = 0
    OBVIOUS
  <2> QED
    BY <1>1, <2>1 DEF Runs
<1>3. ASSUME NEW n \in Runs(t, p)
      PROVE  n <= 0
  <2> SUFFICES ASSUME n > 0
               PROVE  FALSE
    BY <1>2
  <2>1. n \in 1 .. Len(t) /\ 1 \in 1 .. n /\ \A i \in 1 .. n : t[i] = p[1 + ((i - 1) % Len(p))]
    BY <1>1, <1>3 DEF Runs
  <2>2. 1 + ((1 - 1) % Len(p)) = 1
    OBVIOUS
  <2>3. t[1] = p[1]
    BY <2>1, <2>2
  <2>4. t # <<>>
    BY <2>1
  <2> QED
    BY <2>3, <2>4 DEF Other
<1>4. Max(Runs(t, p)) = 0
  BY <1>2, <1>3, MaxIs
<1> QED
  BY <1>4, SubSeqFull DEF TrimStart

LEMMA StartGoes ==
  ASSUME NEW S, NEW u \in Seq(S), NEW p \in Seq(S), Len(p) \in {1, 2}, Other(u, p[1])
  PROVE  TrimStart(p \o u, p) = u
<1> DEFINE t == p \o u  m == Len(p)
<1>1. /\ t \in Seq(S) /\ Len(t) = m + Len(u) /\ m \in {1, 2} /\ Len(u) \in Nat
      /\ \A i \in 1 .. m : t[i] = p[i]
      /\ \A i \in 1 .. Len(u) : t[m + i] = u[i]
  BY Joined
<1> HIDE DEF t
<1>2. Runs(t, p) \subseteq Int /\ m \in Runs(t, p)
  <2>1. m % m = 0 /\ m \in 0 .. Len(t) /\ \A i \in 1 .. m : 1 + ((i - 1) % m) = i
    <3> HIDE DEF m
    <3>1. m \in 0 .. Len(t)
      BY <1>1
    <3>2. CASE m = 1
      BY <3>1, <3>2
    <3>3. CASE m = 2
      BY <3>1, <3>3
    <3> QED
      BY <1>1, <3>2, <3>3
  <2> QED
    BY <1>1, <2>1 DEF Runs
<1>3. ASSUME NEW n \in Runs(t, p)
      PROVE  n <= m
  <2> SUFFICES ASSUME n > m
               PROVE  FALSE
    BY <1>1, <1>2
  <2>1. n \in 0 .. Len(t) /\ m + 1 \in 1 .. n /\ \A i \in 1 .. n : t[i] = p[1 + ((i - 1) % m)]
    BY <1>1, <1>3 DEF Runs
  <2>2. 1 + ((m + 1 - 1) % m) = 1 /\ 1 \in 1 .. Len(u) /\ u # <<>>
    BY <1>1, <2>1
  <2>3. t[m + 1] = p[1] /\ t[m + 1] = u[1]
    BY <1>1, <2>1, <2>2
  <2> QED
    BY <2>2, <2>3 DEF Other
<1>4. Max(Runs(t, p)) = m
  BY <1>2, <1>3, MaxIs
<1>5. SubSeq(t, m + 1, Len(t)) = u
  <2> DEFINE s == SubSeq(t, m + 1, Len(t))
  <2>1. m + 1 \in Int /\ Len(t) \in Int /\ \A i \in m + 1 .. Len(t) : t[i] \in S
    BY <1>1
  <2>2. /\ s \in Seq(S) /\ Len(s) = IF m + 1 <= Len(t) THEN Len(t) - (m + 1) + 1 ELSE 0
        /\ \A i \in 1 .. Len(t) - (m + 1) + 1 : s[i] = t[m + 1 + i - 1]
    BY <2>1, SubSeqProperties
  <2> HIDE DEF s, m
  <2>3. Len(s) = Len(u) /\ \A i \in 1 .. Len(u) : m + 1 + i - 1 = m + i /\ i \in 1 .. Len(t) - (m + 1) + 1
    BY <1>1, <2>2
  <2>4. \A i \in 1 .. Len(s) : s[i] = u[i]
    BY <1>1, <2>2, <2>3
  <2>5. s = u
    BY <2>2, <2>3, <2>4, SeqEqual
  <2> QED
    BY <2>5 DEF s
<1> QED
  BY <1>4, <1>5 DEF TrimStart, t

LEMMA MirrorOne ==
  ASSUME NEW c
  PROVE  Reverse(<<c>>) = <<c>>
<1>1. <<>> \in Seq({c}) /\ <<>> \o <<c>> = <<c>> /\ Reverse(<<>>) = <<>> /\ <<c>> \o <<>> = <<c>>
  <2>1. <<>> \in Seq({c}) /\ <<>> \o <<c>> = <<c>> /\ <<c>> \o <<>> = <<c>>
    OBVIOUS
  <2>2. Reverse(<<>>) \in Seq({c}) /\ Len(Reverse(<<>>)) = Len(<<>>)
    BY <2>1, Mirror
  <2>3. Reverse(<<>>) = <<>>
    BY <2>2
  <2> QED
    BY <2>1, <2>3
<1>2. Reverse(<<>> \o <<c>>) = <<c>> \o Reverse(<<>>)
  BY <1>1, MirrorJoined
<1> QED
  BY <1>1, <1>2

LEMMA EndStays ==
  ASSUME NEW S, NEW t \in Seq(S), NEW c \in S, OtherEnd(t, c)
  PROVE  TrimEnd(t, <<c>>) = t
<1> DEFINE r == Reverse(t)  p == <<c>>
<1>1. r \in Seq(S) /\ Len(r) = Len(t) /\ Reverse(r) = t /\ \A i \in 1 .. Len(t) : r[i] = t[Len(t) - i + 1]
  BY Mirror
<1>2. p \in Seq(S) /\ Len(p) \in {1, 2} /\ p[1] = c /\ Reverse(p) = p
  BY MirrorOne
<1> HIDE DEF r, p
<1>3. Other(r, p[1])
  <2>1. CASE Len(t) = 0
    BY <1>1, <2>1 DEF Other
  <2>2. CASE Len(t) # 0
    <3>1. 1 \in 1 .. Len(t) /\ Len(t) - 1 + 1 = Len(t) /\ t # <<>>
      BY <2>2
    <3> QED
      BY <1>1, <1>2, <3>1 DEF Other, OtherEnd
  <2> QED
    BY <2>1, <2>2
<1>4. TrimStart(r, p) = r
  BY <1>1, <1>2, <1>3, StartStays
<1> QED
  BY <1>1, <1>2, <1>4 DEF TrimEnd, r, p

LEMMA EndGoes ==
  ASSUME NEW S, NEW u \in Seq(S), NEW c \in S, OtherEnd(u, c)
  PROVE  TrimEnd(u \o <<c>>, <<c>>) = u
<1> DEFINE r == Reverse(u)  p == <<c>>
<1>1. r \in Seq(S) /\ Len(r) = Len(u) /\ Reverse(r) = u /\ \A i \in 1 .. Len(u) : r[i] = u[Len(u) - i + 1]
  BY Mirror
<1>2. p \in Seq(S) /\ Len(p) \in {1, 2} /\ p[1] = c /\ Reverse(p) = p
  BY MirrorOne
<1>3. Reverse(u \o p) = p \o r
  BY MirrorJoined
<1> HIDE DEF r, p
<1>4. Other(r, p[1])
  <2>1. CASE Len(u) = 0
    BY <1>1, <2>1 DEF Other
  <2>2. CASE Len(u) # 0
    <3>1. 1 \in 1 .. Len(u) /\ Len(u) - 1 + 1 = Len(u) /\ u # <<>>
      BY <2>2
    <3> QED
      BY <1>1, <1>2, <3>1 DEF Other, OtherEnd
  <2> QED
    BY <2>1, <2>2
<1>5. TrimStart(p \o r, p) = r
  BY <1>1, <1>2, <1>4, StartGoes
<1> QED
  BY <1>1, <1>2, <1>3, <1>5 DEF TrimEnd, r, p

\* A text with something before and something behind it
Pieces == Parts \cup Marks
First(t) == t[1]
Final(t) == t[Len(t)]
Core(t) == t \in Seq(Pieces) /\ t # <<>> /\ t[1] \notin {" ", ".", "*"} /\ t[Len(t)] \notin {" ", "."}

LEMMA OnePiece ==
  ASSUME NEW x \in Pieces
  PROVE  <<x>> \in Seq(Pieces)
OBVIOUS

LEMMA PiecesJoined ==
  /\ \A x, y \in Seq(Pieces) : x \o y \in Seq(Pieces)
  /\ \A x, y, z \in Seq(Pieces) : (x \o y) \o z = x \o (y \o z)
<1>1. \A S : \A x, y \in Seq(S) : x \o y \in Seq(S)
  OBVIOUS
<1> QED
  BY <1>1, Associates

LEMMA Framed ==
  ASSUME NEW a \in Seq(Pieces), NEW b \in Seq(Pieces), NEW t, Core(t)
  PROVE  /\ Frame(a, t, b) \in Seq(Pieces) /\ Frame(a, t, b) # <<>> /\ a \o t \in Seq(Pieces) /\ a \o t # <<>>
         /\ First(Frame(a, t, b)) = First(IF a = <<>> THEN t ELSE a)
         /\ Final(Frame(a, t, b)) = Final(IF b = <<>> THEN t ELSE b)
<1> DEFINE u == a \o t  v == u \o b
<1>1. t \in Seq(Pieces) /\ Len(t) \in Nat /\ 1 \in 1 .. Len(t) /\ Len(t) \in 1 .. Len(t)
  <2>1. t \in Seq(Pieces) /\ t # <<>>
    BY DEF Core
  <2>2. Len(t) \in Nat /\ Len(t) # 0
    BY <2>1
  <2> QED
    BY <2>1, <2>2
<1>2. /\ u \in Seq(Pieces) /\ Len(u) = Len(a) + Len(t) /\ Len(a) \in Nat
      /\ \A i \in 1 .. Len(a) : u[i] = a[i]
      /\ \A i \in 1 .. Len(t) : u[Len(a) + i] = t[i]
  BY <1>1, Joined
<1> HIDE DEF u
<1>3. /\ v \in Seq(Pieces) /\ Len(v) = Len(u) + Len(b) /\ Len(b) \in Nat
      /\ \A i \in 1 .. Len(u) : v[i] = u[i]
      /\ \A i \in 1 .. Len(b) : v[Len(u) + i] = b[i]
  <2>1. u \in Seq(Pieces)
    BY <1>2
  <2> QED
    BY <2>1, Joined
<1> HIDE DEF v
<1>4. 1 \in 1 .. Len(u) /\ Len(u) \in 1 .. Len(u) /\ Len(u) = Len(a) + Len(t)
  BY <1>1, <1>2
<1>5. v[1] = u[1] /\ v # <<>> /\ u # <<>>
  BY <1>3, <1>4
<1>6. u[1] = IF a = <<>> THEN t[1] ELSE a[1]
  <2>1. CASE a = <<>>
    <3>1. Len(a) + 1 = 1
      BY <2>1
    <3> QED
      BY <1>1, <1>2, <2>1, <3>1
  <2>2. CASE a # <<>>
    <3>1. 1 \in 1 .. Len(a)
      BY <1>2, <2>2
    <3> QED
      BY <1>2, <2>2, <3>1
  <2> QED
    BY <2>1, <2>2
<1>7. u[Len(u)] = t[Len(t)]
  BY <1>1, <1>2, <1>4
<1>8. v[Len(v)] = IF b = <<>> THEN t[Len(t)] ELSE b[Len(b)]
  <2>1. CASE b = <<>>
    <3>1. Len(v) = Len(u)
      BY <1>3, <1>4, <2>1
    <3> QED
      BY <1>3, <1>4, <1>7, <2>1, <3>1
  <2>2. CASE b # <<>>
    <3>1. Len(b) \in 1 .. Len(b)
      BY <1>3, <2>2
    <3> QED
      BY <1>3, <2>2, <3>1
  <2> QED
    BY <2>1, <2>2
<1> QED
  BY <1>2, <1>3, <1>5, <1>6, <1>8 DEF Frame, v, u, First, Final

LEMMA FrontStays ==
  ASSUME NEW a \in Seq(Pieces), NEW b \in Seq(Pieces), NEW t, Core(t),
         NEW p \in Seq(Pieces), Len(p) \in {1, 2}, p[1] \in {" ", ".", "*"}, Other(a, p[1])
  PROVE  TrimStart(Frame(a, t, b), p) = Frame(a, t, b)
<1>1. Other(Frame(a, t, b), p[1])
  <2>1. First(Frame(a, t, b)) = First(IF a = <<>> THEN t ELSE a)
    BY Framed
  <2> QED
    BY <2>1 DEF Other, Core, First
<1> QED
  BY <1>1, Framed, StartStays

LEMMA FrontGoes ==
  ASSUME NEW a \in Seq(Pieces), NEW b \in Seq(Pieces), NEW t, Core(t),
         NEW p \in Seq(Pieces), Len(p) \in {1, 2}, p[1] \in {" ", ".", "*"}, Other(a, p[1])
  PROVE  TrimStart(Frame(p \o a, t, b), p) = Frame(a, t, b)
<1> DEFINE u == Frame(a, t, b)
<1>1. u \in Seq(Pieces) /\ Other(u, p[1])
  <2>1. u \in Seq(Pieces) /\ First(u) = First(IF a = <<>> THEN t ELSE a)
    BY Framed
  <2> QED
    BY <2>1 DEF Other, Core, First
<1>2. Frame(p \o a, t, b) = p \o u
  <2>1. t \in Seq(Pieces)
    BY DEF Core
  <2>2. (p \o a) \o t = p \o (a \o t)
    BY <2>1, PiecesJoined
  <2> DEFINE w == a \o t
  <2>3. w \in Seq(Pieces)
    BY <2>1, PiecesJoined
  <2> HIDE DEF w
  <2>4. (p \o w) \o b = p \o (w \o b)
    BY <2>3, PiecesJoined
  <2> QED
    BY <2>2, <2>4 DEF Frame, w
<1> HIDE DEF u
<1>3. TrimStart(p \o u, p) = u
  BY <1>1, StartGoes
<1> QED
  BY <1>2, <1>3 DEF u

LEMMA BackStays ==
  ASSUME NEW a \in Seq(Pieces), NEW b \in Seq(Pieces), NEW t, Core(t),
         NEW c \in {" ", "."}, OtherEnd(b, c)
  PROVE  TrimEnd(Frame(a, t, b), <<c>>) = Frame(a, t, b)
<1>1. OtherEnd(Frame(a, t, b), c)
  <2>1. Final(Frame(a, t, b)) = Final(IF b = <<>> THEN t ELSE b)
    BY Framed
  <2> QED
    BY <2>1 DEF OtherEnd, Core, Final
<1>2. c \in Pieces
  BY DEF Pieces, Marks
<1> QED
  BY <1>1, <1>2, Framed, EndStays

LEMMA BackGoes ==
  ASSUME NEW a \in Seq(Pieces), NEW b \in Seq(Pieces), NEW t, Core(t),
         NEW c \in {" ", "."}, OtherEnd(b, c)
  PROVE  TrimEnd(Frame(a, t, b \o <<c>>), <<c>>) = Frame(a, t, b)
<1> DEFINE u == Frame(a, t, b)  q == <<c>>
<1>1. u \in Seq(Pieces) /\ OtherEnd(u, c)
  <2>1. u \in Seq(Pieces) /\ Final(u) = Final(IF b = <<>> THEN t ELSE b)
    BY Framed
  <2> QED
    BY <2>1 DEF OtherEnd, Core, Final
<1>2. c \in Pieces
  BY DEF Pieces, Marks
<1>3. Frame(a, t, b \o q) = u \o q
  <2> DEFINE w == a \o t
  <2>0. q \in Seq(Pieces)
    <3> QED
      BY <1>2, OnePiece
  <2>1. w \in Seq(Pieces)
    BY Framed
  <2> HIDE DEF w, q
  <2>2. (w \o b) \o q = w \o (b \o q)
    BY <2>0, <2>1, PiecesJoined
  <2> QED
    BY <2>2 DEF Frame, w
<1> HIDE DEF u
<1>4. TrimEnd(u \o <<c>>, <<c>>) = u
  BY <1>1, <1>2, EndGoes
<1> QED
  BY <1>3, <1>4 DEF u

\* What stands before and behind a domain in a rule, and what is trimmed
Space == <<" ">>
Star == <<"*", ".">>
Dot == <<".">>
Scheme == <<"https://">>
Path == <<"/path">>
Port == <<":8080">>
DotPort == <<".", ":8080">>

LEMMA Patterns ==
  /\ \A p \in {Space, Star, Dot} : p \in Seq(Pieces) /\ Len(p) \in {1, 2} /\ p[1] \in {" ", ".", "*"}
  /\ Space[1] = " " /\ Star[1] = "*" /\ Dot[1] = "." /\ Space = <<" ">> /\ Dot = <<".">>
<1>1. Space \in Seq(Pieces) /\ Len(Space) = 1 /\ Space[1] = " "
  BY DEF Space, Pieces, Marks
<1>2. Star \in Seq(Pieces) /\ Len(Star) = 2 /\ Star[1] = "*"
  BY DEF Star, Pieces, Marks
<1>3. Dot \in Seq(Pieces) /\ Len(Dot) = 1 /\ Dot[1] = "."
  BY DEF Dot, Pieces, Marks
<1> QED
  BY <1>1, <1>2, <1>3 DEF Space, Dot

LEMMA FrontPieces ==
  /\ <<>> \in Seq(Pieces) /\ Scheme \in Seq(Pieces)
  /\ \A c \in {" ", ".", "*"} : Other(<<>>, c) /\ Other(Scheme, c)
  /\ Other(Dot, " ") /\ Other(Star, " ") /\ Other(Dot, "*")
<1>1. Scheme \in Seq(Pieces) /\ <<>> \in Seq(Pieces)
  BY DEF Scheme, Pieces, Marks
<1>2. \A c \in {" ", ".", "*"} : Other(<<>>, c) /\ Other(Scheme, c)
  BY DEF Other, Scheme
<1>3. Other(Dot, " ") /\ Other(Star, " ") /\ Other(Dot, "*")
  BY DEF Other, Dot, Star
<1> QED
  BY <1>1, <1>2, <1>3

LEMMA BackPieces ==
  /\ \A b \in {<<>>, Space, Dot, Path, Port, DotPort} : b \in Seq(Pieces)
  /\ \A b \in {<<>>, Dot, Path, Port, DotPort} : OtherEnd(b, " ")
  /\ \A b \in {<<>>, Path, Port, DotPort} : OtherEnd(b, ".")
<1>1. <<>> \in Seq(Pieces) /\ Space \in Seq(Pieces) /\ Dot \in Seq(Pieces)
  BY Patterns, FrontPieces
<1>2. Path \in Seq(Pieces) /\ Port \in Seq(Pieces)
  BY DEF Path, Port, Pieces, Marks
<1>3. DotPort \in Seq(Pieces)
  BY DEF DotPort, Pieces, Marks
<1>4. OtherEnd(<<>>, " ") /\ OtherEnd(Dot, " ") /\ OtherEnd(Path, " ") /\ OtherEnd(Port, " ") /\ OtherEnd(DotPort, " ")
  BY DEF OtherEnd, Dot, Path, Port, DotPort
<1>5. OtherEnd(<<>>, ".") /\ OtherEnd(Path, ".") /\ OtherEnd(Port, ".") /\ OtherEnd(DotPort, ".")
  BY DEF OtherEnd, Path, Port, DotPort
<1> QED
  BY <1>1, <1>2, <1>3, <1>4, <1>5

LEMMA FrontTrims ==
  ASSUME NEW t, Core(t), NEW b \in Seq(Pieces)
  PROVE  /\ \A a \in {<<>>, Dot, Star, Scheme} : TrimStart(Frame(a, t, b), Space) = Frame(a, t, b)
         /\ \A a \in {<<>>, Star, Scheme} : TrimStart(Frame(Space \o a, t, b), Space) = Frame(a, t, b)
         /\ \A a \in {<<>>, Dot, Scheme} : TrimStart(Frame(a, t, b), Star) = Frame(a, t, b)
         /\ TrimStart(Frame(Star, t, b), Star) = Frame(<<>>, t, b)
         /\ \A a \in {<<>>, Scheme} : TrimStart(Frame(a, t, b), Dot) = Frame(a, t, b)
         /\ TrimStart(Frame(Dot, t, b), Dot) = Frame(<<>>, t, b)
<1>1. ASSUME NEW a \in {<<>>, Dot, Star, Scheme}
      PROVE  TrimStart(Frame(a, t, b), Space) = Frame(a, t, b)
  <2>1. a \in Seq(Pieces) /\ Other(a, Space[1])
    BY Patterns, FrontPieces
  <2>2. Space \in Seq(Pieces) /\ Len(Space) \in {1, 2} /\ Space[1] \in {" ", ".", "*"}
    BY Patterns
  <2> QED
    BY <2>1, <2>2, FrontStays
<1>2. ASSUME NEW a \in {<<>>, Star, Scheme}
      PROVE  TrimStart(Frame(Space \o a, t, b), Space) = Frame(a, t, b)
  <2>1. a \in Seq(Pieces) /\ Other(a, Space[1])
    BY Patterns, FrontPieces
  <2>2. Space \in Seq(Pieces) /\ Len(Space) \in {1, 2} /\ Space[1] \in {" ", ".", "*"}
    BY Patterns
  <2> QED
    BY <2>1, <2>2, FrontGoes
<1>3. ASSUME NEW a \in {<<>>, Dot, Scheme}
      PROVE  TrimStart(Frame(a, t, b), Star) = Frame(a, t, b)
  <2>1. a \in Seq(Pieces) /\ Other(a, Star[1])
    BY Patterns, FrontPieces
  <2>2. Star \in Seq(Pieces) /\ Len(Star) \in {1, 2} /\ Star[1] \in {" ", ".", "*"}
    BY Patterns
  <2> QED
    BY <2>1, <2>2, FrontStays
<1>4. TrimStart(Frame(Star, t, b), Star) = Frame(<<>>, t, b)
  <2> DEFINE a == <<>>
  <2>1. a \in Seq(Pieces) /\ Other(a, Star[1]) /\ Star \o a = Star
    BY Patterns, FrontPieces, ConcatEmptySeq
  <2>2. Star \in Seq(Pieces) /\ Len(Star) \in {1, 2} /\ Star[1] \in {" ", ".", "*"}
    BY Patterns
  <2> HIDE DEF a
  <2>3. TrimStart(Frame(Star \o a, t, b), Star) = Frame(a, t, b)
    BY <2>1, <2>2, FrontGoes
  <2> QED
    BY <2>1, <2>3 DEF a
<1>5. ASSUME NEW a \in {<<>>, Scheme}
      PROVE  TrimStart(Frame(a, t, b), Dot) = Frame(a, t, b)
  <2>1. a \in Seq(Pieces) /\ Other(a, Dot[1])
    BY Patterns, FrontPieces
  <2>2. Dot \in Seq(Pieces) /\ Len(Dot) \in {1, 2} /\ Dot[1] \in {" ", ".", "*"}
    BY Patterns
  <2> QED
    BY <2>1, <2>2, FrontStays
<1>6. TrimStart(Frame(Dot, t, b), Dot) = Frame(<<>>, t, b)
  <2> DEFINE a == <<>>
  <2>1. a \in Seq(Pieces) /\ Other(a, Dot[1]) /\ Dot \o a = Dot
    BY Patterns, FrontPieces, ConcatEmptySeq
  <2>2. Dot \in Seq(Pieces) /\ Len(Dot) \in {1, 2} /\ Dot[1] \in {" ", ".", "*"}
    BY Patterns
  <2> HIDE DEF a
  <2>3. TrimStart(Frame(Dot \o a, t, b), Dot) = Frame(a, t, b)
    BY <2>1, <2>2, FrontGoes
  <2> QED
    BY <2>1, <2>3 DEF a
<1> QED
  BY <1>1, <1>2, <1>3, <1>4, <1>5, <1>6

LEMMA BackTrims ==
  ASSUME NEW t, Core(t), NEW a \in Seq(Pieces)
  PROVE  /\ \A b \in {<<>>, Dot, Path, Port, DotPort} : TrimEnd(Frame(a, t, b), Space) = Frame(a, t, b)
         /\ TrimEnd(Frame(a, t, Space), Space) = Frame(a, t, <<>>)
         /\ \A b \in {<<>>, Path, Port, DotPort} : TrimEnd(Frame(a, t, b), Dot) = Frame(a, t, b)
         /\ TrimEnd(Frame(a, t, Dot), Dot) = Frame(a, t, <<>>)
<1>1. ASSUME NEW b \in {<<>>, Dot, Path, Port, DotPort}
      PROVE  TrimEnd(Frame(a, t, b), Space) = Frame(a, t, b)
  <2>1. b \in Seq(Pieces) /\ OtherEnd(b, " ")
    BY BackPieces
  <2> QED
    BY <2>1, BackStays DEF Space
<1>2. TrimEnd(Frame(a, t, Space), Space) = Frame(a, t, <<>>)
  <2> DEFINE b == <<>>
  <2>1. b \in Seq(Pieces) /\ OtherEnd(b, " ") /\ b \o Space = Space
    BY BackPieces, Patterns, ConcatEmptySeq
  <2> HIDE DEF b
  <2>2. TrimEnd(Frame(a, t, b \o <<" ">>), <<" ">>) = Frame(a, t, b)
    BY <2>1, BackGoes
  <2> QED
    BY <2>1, <2>2 DEF b, Space
<1>3. ASSUME NEW b \in {<<>>, Path, Port, DotPort}
      PROVE  TrimEnd(Frame(a, t, b), Dot) = Frame(a, t, b)
  <2>1. b \in Seq(Pieces) /\ OtherEnd(b, ".")
    BY BackPieces
  <2> QED
    BY <2>1, BackStays DEF Dot
<1>4. TrimEnd(Frame(a, t, Dot), Dot) = Frame(a, t, <<>>)
  <2> DEFINE b == <<>>
  <2>1. b \in Seq(Pieces) /\ OtherEnd(b, ".") /\ b \o Dot = Dot
    BY BackPieces, Patterns, ConcatEmptySeq
  <2> HIDE DEF b
  <2>2. TrimEnd(Frame(a, t, b \o <<".">>), <<".">>) = Frame(a, t, b)
    BY <2>1, BackGoes
  <2> QED
    BY <2>1, <2>2 DEF b, Dot
<1> QED
  BY <1>1, <1>2, <1>3, <1>4

LEMMA TrimmedIs ==
  ASSUME NEW r
  PROVE  Trimmed(r) = Lower(TrimEnd(TrimStart(TrimStart(TrimEnd(TrimStart(r, Space), Space), Star), Dot), Dot))
BY DEF Trimmed, Space, Star, Dot

LEMMA PlainTrimmed ==
  ASSUME NEW t, Core(t), NEW a \in {<<>>, Space, Dot, Star, Space \o Star}, NEW b \in {<<>>, Space, Dot, Path, Port}
  PROVE  \E c \in {<<>>, Path, Port} : (c = Port => b = Port) /\ Trimmed(Frame(a, t, b)) = Lower(Frame(<<>>, t, c))
<1>1. b \in Seq(Pieces) /\ <<>> \in Seq(Pieces)
  BY BackPieces
<1>2. PICK a1 \in {<<>>, Dot, Star} : TrimStart(Frame(a, t, b), Space) = Frame(a1, t, b)
  <2>1. CASE a \in {<<>>, Dot, Star}
    BY <1>1, <2>1, FrontTrims
  <2>2. CASE a = Space
    <3>1. Space \o <<>> = Space
      BY Patterns, ConcatEmptySeq
    <3>2. TrimStart(Frame(Space \o <<>>, t, b), Space) = Frame(<<>>, t, b)
      BY <1>1, FrontTrims
    <3> QED
      BY <2>2, <3>1, <3>2
  <2>3. CASE a = Space \o Star
    BY <1>1, <2>3, FrontTrims
  <2> QED
    BY <2>1, <2>2, <2>3
<1>3. a1 \in Seq(Pieces)
  BY <1>2, Patterns, FrontPieces
<1>4. PICK b1 \in {<<>>, Dot, Path, Port} : /\ b1 = Port => b = Port
                                            /\ TrimEnd(Frame(a1, t, b), Space) = Frame(a1, t, b1)
  <2>1. CASE b = Space
    BY <1>3, <2>1, BackTrims DEF Port
  <2>2. CASE b # Space
    BY <1>3, <2>2, BackTrims
  <2> QED
    BY <2>1, <2>2
<1>5. b1 \in Seq(Pieces)
  BY <1>4, BackPieces
<1>6. PICK a2 \in {<<>>, Dot} : TrimStart(Frame(a1, t, b1), Star) = Frame(a2, t, b1)
  BY <1>2, <1>5, FrontTrims
<1>7. TrimStart(Frame(a2, t, b1), Dot) = Frame(<<>>, t, b1)
  BY <1>5, <1>6, FrontTrims
<1>8. PICK c \in {<<>>, Path, Port} : /\ c = Port => b1 = Port
                                      /\ TrimEnd(Frame(<<>>, t, b1), Dot) = Frame(<<>>, t, c)
  <2>1. CASE b1 = Dot
    BY <1>1, <2>1, BackTrims DEF Port
  <2>2. CASE b1 # Dot
    BY <1>1, <1>4, <2>2, BackTrims
  <2> QED
    BY <2>1, <2>2
<1>9. Trimmed(Frame(a, t, b)) = Lower(Frame(<<>>, t, c))
  BY <1>2, <1>4, <1>6, <1>7, <1>8, TrimmedIs
<1> QED
  BY <1>4, <1>8, <1>9

LEMMA UrlTrimmed ==
  ASSUME NEW t, Core(t), NEW a \in {Scheme, Space \o Scheme}, NEW b \in {<<>>, Path, Port, DotPort}
  PROVE  Trimmed(Frame(a, t, b)) = Lower(Frame(Scheme, t, b))
<1>1. b \in Seq(Pieces) /\ Scheme \in Seq(Pieces)
  BY BackPieces, FrontPieces
<1>2. TrimStart(Frame(a, t, b), Space) = Frame(Scheme, t, b)
  BY <1>1, FrontTrims
<1>3. TrimEnd(Frame(Scheme, t, b), Space) = Frame(Scheme, t, b)
  BY <1>1, BackTrims
<1>4. TrimStart(Frame(Scheme, t, b), Star) = Frame(Scheme, t, b)
  BY <1>1, FrontTrims
<1>5. TrimStart(Frame(Scheme, t, b), Dot) = Frame(Scheme, t, b)
  BY <1>1, FrontTrims
<1>6. TrimEnd(Frame(Scheme, t, b), Dot) = Frame(Scheme, t, b)
  BY <1>1, BackTrims
<1> QED
  BY <1>2, <1>3, <1>4, <1>5, <1>6, TrimmedIs

\* Lower case
Small == Pieces \cup {"ex"}

LEMMA LowerType ==
  ASSUME NEW t \in Seq(Pieces)
  PROVE  /\ Lower(t) \in Seq(Small) /\ Len(Lower(t)) = Len(t) /\ Len(t) \in Nat
         /\ \A i \in 1 .. Len(t) : Lower(t)[i] = IF t[i] = "EX" THEN "ex" ELSE t[i]
<1>1. Len(t) \in Nat /\ DOMAIN t = 1 .. Len(t) /\ \A i \in 1 .. Len(t) : t[i] \in Pieces
  OBVIOUS
<1>2. Lower(t) = [i \in 1 .. Len(t) |-> IF t[i] = "EX" THEN "ex" ELSE t[i]]
  BY <1>1 DEF Lower
<1>3. \A i \in 1 .. Len(t) : (IF t[i] = "EX" THEN "ex" ELSE t[i]) \in Small
  BY <1>1 DEF Small
<1> QED
  BY <1>1, <1>2, <1>3

LEMMA LowerStays ==
  ASSUME NEW t \in Seq(Pieces), \A i \in 1 .. Len(t) : t[i] # "EX"
  PROVE  Lower(t) = t
<1>1. /\ Lower(t) \in Seq(Small) /\ Len(Lower(t)) = Len(t)
      /\ \A i \in 1 .. Len(t) : Lower(t)[i] = t[i]
  BY LowerType
<1>2. t \in Seq(Small)
  BY DEF Small
<1> QED
  BY <1>1, <1>2, SeqEqual

LEMMA LowerJoined ==
  ASSUME NEW x \in Seq(Pieces), NEW y \in Seq(Pieces)
  PROVE  Lower(x \o y) = Lower(x) \o Lower(y)
<1> DEFINE t == x \o y  u == Lower(x)  v == Lower(y)  l == Lower(t)  w == u \o v
<1>1. /\ t \in Seq(Pieces) /\ Len(t) = Len(x) + Len(y) /\ Len(x) \in Nat /\ Len(y) \in Nat
      /\ \A i \in 1 .. Len(x) : t[i] = x[i]
      /\ \A i \in 1 .. Len(y) : t[Len(x) + i] = y[i]
  BY Joined
<1> HIDE DEF t
<1>2. /\ l \in Seq(Small) /\ Len(l) = Len(t)
      /\ \A i \in 1 .. Len(t) : l[i] = IF t[i] = "EX" THEN "ex" ELSE t[i]
  BY <1>1, LowerType
<1>3. u \in Seq(Small) /\ Len(u) = Len(x) /\ \A i \in 1 .. Len(x) : u[i] = IF x[i] = "EX" THEN "ex" ELSE x[i]
  BY LowerType
<1>4. v \in Seq(Small) /\ Len(v) = Len(y) /\ \A i \in 1 .. Len(y) : v[i] = IF y[i] = "EX" THEN "ex" ELSE y[i]
  BY LowerType
<1> HIDE DEF u, v, l
<1>5. /\ w \in Seq(Small) /\ Len(w) = Len(u) + Len(v)
      /\ \A i \in 1 .. Len(u) : w[i] = u[i]
      /\ \A i \in 1 .. Len(v) : w[Len(u) + i] = v[i]
  <2>1. u \in Seq(Small) /\ v \in Seq(Small)
    BY <1>3, <1>4
  <2> QED
    BY <2>1, Joined
<1> HIDE DEF w
<1>6. ASSUME NEW i \in 1 .. Len(l)
      PROVE  l[i] = w[i]
  <2>1. CASE i \in 1 .. Len(x)
    <3>1. i \in 1 .. Len(t)
      BY <1>2
    <3> QED
      BY <1>1, <1>2, <1>3, <1>5, <2>1, <3>1
  <2>2. CASE i \notin 1 .. Len(x)
    <3> DEFINE j == i - Len(x)
    <3>1. j \in 1 .. Len(y) /\ i = Len(x) + j /\ i \in 1 .. Len(t)
      BY <1>1, <1>2, <2>2
    <3> HIDE DEF j
    <3>2. t[i] = y[j] /\ w[i] = v[j]
      BY <1>1, <1>3, <1>4, <1>5, <3>1
    <3> QED
      BY <1>2, <1>4, <3>1, <3>2
  <2> QED
    BY <2>1, <2>2
<1>7. l = w
  BY <1>1, <1>2, <1>3, <1>4, <1>5, <1>6, SeqEqual
<1> QED
  BY <1>7 DEF l, w, u, v, t

LEMMA LowerFrame ==
  ASSUME NEW t, Core(t), NEW a \in {<<>>, Scheme}, NEW b \in {<<>>, Path, Port, DotPort}
  PROVE  Lower(Frame(a, t, b)) = Frame(a, Lower(t), b)
<1>1. a \in Seq(Pieces) /\ b \in Seq(Pieces) /\ t \in Seq(Pieces)
  BY FrontPieces, BackPieces DEF Core
<1>2. Lower(a) = a
  <2>1. \A i \in 1 .. Len(a) : a[i] # "EX"
    BY DEF Scheme
  <2> QED
    BY <1>1, <2>1, LowerStays
<1>3. Lower(b) = b
  <2>1. \A i \in 1 .. Len(b) : b[i] # "EX"
    <3>1. CASE b = <<>>
      BY <3>1
    <3>2. CASE b = Path
      BY <3>2 DEF Path
    <3>3. CASE b = Port
      BY <3>3 DEF Port
    <3>4. CASE b = DotPort
      BY <3>4 DEF DotPort
    <3> QED
      BY <3>1, <3>2, <3>3, <3>4
  <2> QED
    BY <1>1, <2>1, LowerStays
<1> DEFINE w == a \o t
<1>4. w \in Seq(Pieces) /\ Lower(w) = a \o Lower(t)
  <2>1. Lower(a \o t) = Lower(a) \o Lower(t)
    BY <1>1, LowerJoined
  <2>2. a \o t \in Seq(Pieces)
    BY <1>1, PiecesJoined
  <2> QED
    BY <1>2, <2>1, <2>2
<1> HIDE DEF w
<1>5. Lower(w \o b) = Lower(w) \o b
  BY <1>1, <1>3, <1>4, LowerJoined
<1> QED
  BY <1>4, <1>5 DEF Frame, w

-----------------------------------------------------------------------------
\* The host of a text
LEMMA MinIs ==
  ASSUME NEW S, S \subseteq Int, NEW x \in S, \A y \in S : x <= y
  PROVE  Min(S) = x
<1>1. Min(S) \in S /\ \A y \in S : Min(S) <= y
  BY DEF Min
<1>2. Min(S) \in Int /\ x \in Int /\ Min(S) <= x /\ x <= Min(S)
  BY <1>1
<1> QED
  BY <1>2

LEMMA LettersApart ==
  /\ \A c \in Letters : c \notin {" ", "*", "https://", ":8080", "/path", "EX"}
  /\ Letters \subseteq Pieces
  /\ \A x \in Seq(Letters) : x \in Seq(Pieces)
<1>1. \A c \in Parts : c \notin {".", " ", "*", "https://", ":8080", "/path", "EX"}
  BY PartAssumption DEF Marks
<1>2. \A c \in Letters : c \notin {" ", "*", "https://", ":8080", "/path", "EX"}
  BY <1>1 DEF Letters
<1>3. Letters \subseteq Pieces
  BY DEF Letters, Pieces, Marks
<1>4. \A x \in Seq(Letters) : x \in Seq(Pieces)
  BY <1>3
<1> QED
  BY <1>2, <1>3, <1>4

LEMMA AuthorityIs ==
  ASSUME NEW x \in Seq(Letters), NEW b \in {<<>>, Path, Port}
  PROVE  Authority(x \o b) = x
<1> DEFINE t == x \o b  end == {i \in DOMAIN t : t[i] \in {":8080", "/path"}}
<1>1. x \in Seq(Pieces) /\ b \in Seq(Pieces)
  BY LettersApart, BackPieces
<1>2. /\ t \in Seq(Pieces) /\ Len(t) = Len(x) + Len(b) /\ Len(x) \in Nat /\ Len(b) \in Nat
      /\ DOMAIN t = 1 .. Len(x) + Len(b)
      /\ \A i \in 1 .. Len(x) : t[i] = x[i]
      /\ \A i \in 1 .. Len(b) : t[Len(x) + i] = b[i]
  BY <1>1, Joined
<1>3. \A i \in 1 .. Len(x) : t[i] \notin {":8080", "/path"}
  <2>1. \A i \in 1 .. Len(x) : x[i] \in Letters
    OBVIOUS
  <2> QED
    BY <1>2, <2>1, LettersApart
<1>4. CASE b = <<>>
  <2>1. t = x
    BY <1>1, <1>4, ConcatEmptySeq
  <2>2. end = {}
    BY <1>2, <1>3, <2>1
  <2> QED
    BY <2>1, <2>2 DEF Authority
<1>5. CASE b # <<>>
  <2>1. Len(b) = 1 /\ b[1] \in {":8080", "/path"}
    BY <1>5 DEF Path, Port
  <2> DEFINE n == Len(x) + 1
  <2> HIDE DEF t
  <2>2. n \in end /\ end \subseteq Int /\ \A i \in end : n <= i
    <3>1. n \in DOMAIN t /\ t[n] = b[1] /\ \A i \in DOMAIN t : i \in Int /\ (i \in 1 .. Len(x) \/ n <= i)
      BY <1>2, <2>1
    <3> QED
      BY <1>3, <2>1, <3>1
  <2> HIDE DEF end, n
  <2>3. Min(end) = n /\ end # {}
    BY <2>2, MinIs
  <2>4. SubSeq(t, 1, n - 1) = x
    <3> DEFINE s == SubSeq(t, 1, Len(x))
    <3>1. Len(x) \in Int /\ \A i \in 1 .. Len(x) : t[i] \in Letters
      BY <1>2
    <3>2. /\ s \in Seq(Letters) /\ Len(s) = IF 1 <= Len(x) THEN Len(x) - 1 + 1 ELSE 0
          /\ \A i \in 1 .. Len(x) - 1 + 1 : s[i] = t[1 + i - 1]
      BY <3>1, SubSeqProperties
    <3> HIDE DEF s
    <3>3. Len(s) = Len(x) /\ \A i \in 1 .. Len(x) : 1 + i - 1 = i /\ i \in 1 .. Len(x) - 1 + 1
      BY <1>2, <3>2
    <3>4. \A i \in 1 .. Len(s) : s[i] = x[i]
      BY <1>2, <3>2, <3>3
    <3>5. s = x
      BY <3>2, <3>3, <3>4, SeqEqual
    <3>6. n - 1 = Len(x)
      BY <1>2 DEF n
    <3> QED
      BY <3>5, <3>6 DEF s
  <2> QED
    BY <2>3, <2>4 DEF Authority, t, end
<1> QED
  BY <1>4, <1>5

LEMMA OneOnly ==
  ASSUME NEW t \in Seq(Pieces), 1 <= Len(t)
  PROVE  SubSeq(t, 1, 1) \in Seq(Pieces) /\ Len(SubSeq(t, 1, 1)) = 1 /\ SubSeq(t, 1, 1)[1] = t[1]
OBVIOUS

LEMMA UrlFirst ==
  ASSUME NEW t \in Seq(Pieces)
  PROVE  IsPrefix(<<"https://">>, t) <=> t # <<>> /\ t[1] = "https://"
<1> DEFINE s == <<"https://">>
<1>0. Len(t) \in Nat
  OBVIOUS
<1>1. s \in Seq(Pieces) /\ Len(s) = 1 /\ s[1] = "https://"
  BY FrontPieces DEF Scheme
<1> HIDE DEF s
<1>2. IsPrefix(s, t) <=> 1 <= Len(t) /\ SubSeq(s, 1, 1) = SubSeq(t, 1, 1)
  BY <1>0, <1>1 DEF IsPrefix
<1>3. SubSeq(s, 1, 1) \in Seq(Pieces) /\ Len(SubSeq(s, 1, 1)) = 1 /\ SubSeq(s, 1, 1)[1] = s[1]
  BY <1>1, OneOnly
<1>4. ASSUME 1 <= Len(t)
      PROVE  SubSeq(t, 1, 1) \in Seq(Pieces) /\ Len(SubSeq(t, 1, 1)) = 1 /\ SubSeq(t, 1, 1)[1] = t[1]
  BY <1>4, OneOnly
<1>5. ASSUME 1 <= Len(t)
      PROVE  SubSeq(s, 1, 1) = SubSeq(t, 1, 1) <=> t[1] = s[1]
  <2> DEFINE x == SubSeq(s, 1, 1)  y == SubSeq(t, 1, 1)
  <2>1. x \in Seq(Pieces) /\ y \in Seq(Pieces) /\ Len(x) = 1 /\ Len(y) = 1 /\ x[1] = s[1] /\ y[1] = t[1]
    BY <1>3, <1>4, <1>5
  <2> HIDE DEF x, y
  <2>2. x[1] = y[1] => x = y
    BY <2>1, SeqEqual
  <2> QED
    BY <2>1, <2>2 DEF x, y
<1>6. 1 <= Len(t) <=> t # <<>>
  BY <1>0
<1> QED
  BY <1>1, <1>2, <1>5, <1>6 DEF s

LEMMA UrlHosts ==
  ASSUME NEW x \in Seq(Letters), x # <<>>, NEW b \in {<<>>, Path, Port}
  PROVE  UrlHost(<<"https://">> \o (x \o b)) = x
<1> DEFINE y == x \o b  t == <<"https://">> \o y
<1>1. y \in Seq(Pieces)
  BY LettersApart, BackPieces, PiecesJoined
<1>2. "https://" \in Pieces
  BY DEF Pieces, Marks
<1> HIDE DEF y
<1>3. t \in Seq(Pieces) /\ t # <<>> /\ t[1] = "https://" /\ Tail(t) = y
  <2> DEFINE s == <<"https://">>
  <2>1. s \in Seq(Pieces) /\ Len(s) = 1 /\ s[1] = "https://"
    BY <1>2
  <2> HIDE DEF s
  <2>2. s \o y \in Seq(Pieces) /\ Len(s \o y) = Len(s) + Len(y) /\ Len(y) \in Nat /\ \A i \in 1 .. Len(s) : (s \o y)[i] = s[i]
    BY <1>1, <2>1, Joined
  <2>3. (s \o y)[1] = "https://" /\ s \o y # <<>>
    BY <2>1, <2>2
  <2>4. Tail(t) = y
    BY <1>1, <1>2, TailJoined
  <2> QED
    BY <2>2, <2>3, <2>4 DEF s
<1>4. IsPrefix(<<"https://">>, t)
  BY <1>3, UrlFirst
<1>5. Authority(Tail(t)) = x
  BY <1>3, AuthorityIs DEF y
<1>6. " " \notin ToSet(x)
  <2>1. \A i \in DOMAIN x : x[i] \in Letters
    OBVIOUS
  <2> QED
    BY <2>1, LettersApart DEF ToSet
<1> HIDE DEF t
<1>7. UrlHost(t) = x
  BY <1>4, <1>5, <1>6 DEF UrlHost
<1> QED
  BY <1>7 DEF t, y

LEMMA NoUrl ==
  ASSUME NEW t \in Seq(Pieces), t = <<>> \/ t[1] # "https://", ~HasScheme(t)
  PROVE  UrlHost(t) = None
<1>1. ~IsPrefix(<<"https://">>, t)
  BY UrlFirst
<1> QED
  BY <1>1 DEF UrlHost

\* A domain is no URL, except when a port follows one that does not begin with a digit
LEMMA DomainHost ==
  ASSUME NEW x \in Seq(Letters), x # <<>>, x[1] \in Parts, NEW b \in {<<>>, Path, Port}
  PROVE  UrlHost(x \o b) = IF b = Port /\ x[1] \notin Numerals THEN <<>> ELSE None
<1> DEFINE t == x \o b
<1>1. x \in Seq(Pieces) /\ b \in Seq(Pieces)
  BY LettersApart, BackPieces
<1>2. /\ t \in Seq(Pieces) /\ Len(t) = Len(x) + Len(b) /\ Len(x) \in Nat /\ Len(b) \in Nat /\ Len(x) >= 1
      /\ DOMAIN t = 1 .. Len(x) + Len(b)
      /\ \A i \in 1 .. Len(x) : t[i] = x[i]
      /\ \A i \in 1 .. Len(b) : t[Len(x) + i] = b[i]
  BY <1>1, Joined
<1>3. \A i \in 1 .. Len(x) : t[i] \notin {" ", "*", "https://", ":8080", "/path"}
  <2>1. \A i \in 1 .. Len(x) : x[i] \in Letters
    OBVIOUS
  <2> QED
    BY <1>2, <2>1, LettersApart
<1> HIDE DEF t
<1>4. t[1] = x[1] /\ t # <<>> /\ t[1] # "https://" /\ t[1] \notin {".", "*"}
  <2>1. 1 \in 1 .. Len(x) /\ t # <<>>
    BY <1>2
  <2>2. t[1] = x[1] /\ t[1] # "https://"
    BY <1>2, <1>3, <2>1
  <2> QED
    BY <2>1, <2>2, PartAssumption DEF Marks
<1>5. CASE b = Port
  <2>1. Len(b) = 1 /\ b[1] = ":8080"
    BY <1>5 DEF Port
  <2> DEFINE n == Len(x) + 1
  <2>2. n \in DOMAIN t /\ t[n] = ":8080" /\ n > 1 /\ n \in Int /\ \A j \in 1 .. n - 1 : j \in 1 .. Len(x)
    BY <1>2, <2>1
  <2> HIDE DEF n
  <2>3. CASE x[1] \in Numerals
    <3>1. ~HasScheme(t)
      BY <1>4, <2>3 DEF HasScheme
    <3> QED
      BY <1>2, <1>4, <2>3, <3>1, NoUrl DEF t
  <2>4. CASE x[1] \notin Numerals
    <3>1. HasScheme(t)
      BY <1>3, <1>4, <2>2, <2>4 DEF HasScheme
    <3>2. ~IsPrefix(<<"https://">>, t)
      BY <1>2, <1>4, UrlFirst
    <3> QED
      BY <1>5, <2>4, <3>1, <3>2 DEF UrlHost, t
  <2> QED
    BY <2>3, <2>4
<1>6. CASE b # Port
  <2>1. \A i \in 1 .. Len(b) : b[i] # ":8080"
    BY <1>6 DEF Path
  <2>2. \A i \in DOMAIN t : i \in 1 .. Len(x) \/ (i - Len(x) \in 1 .. Len(b) /\ i = Len(x) + (i - Len(x)))
    BY <1>2
  <2>3. \A i \in DOMAIN t : t[i] # ":8080"
    <3> SUFFICES ASSUME NEW i \in DOMAIN t
                 PROVE  t[i] # ":8080"
      OBVIOUS
    <3>1. CASE i \in 1 .. Len(x)
      BY <1>3, <3>1
    <3>2. CASE i \notin 1 .. Len(x)
      <4> DEFINE j == i - Len(x)
      <4>1. j \in 1 .. Len(b) /\ i = Len(x) + j
        BY <2>2, <3>2
      <4> HIDE DEF j
      <4> QED
        BY <1>2, <2>1, <4>1
    <3> QED
      BY <3>1, <3>2
  <2>4. ~HasScheme(t)
    BY <2>3 DEF HasScheme
  <2> QED
    BY <1>2, <1>4, <1>6, <2>4, NoUrl DEF t
<1> QED
  BY <1>5, <1>6

-----------------------------------------------------------------------------
\* What a rule is normalised to
Bare(x) == x \in Seq(Letters) /\ x # <<>> /\ x[1] \in Parts /\ x[Len(x)] \in Parts

LEMMA BareText ==
  ASSUME NEW x, Bare(x)
  PROVE  /\ x \in Seq(Pieces) /\ x # None /\ Lower(x) = x
         /\ TrimEnd(x, <<".">>) = x /\ TrimEnd(x \o <<".">>, <<".">>) = x /\ x \o <<".">> \in Seq(Letters)
<1>1. x \in Seq(Letters) /\ x \in Seq(Pieces)
  BY LettersApart DEF Bare
<1>2. x # None
  BY <1>1, NoneAssumption DEF Pieces
<1>3. Lower(x) = x
  <2>1. \A i \in 1 .. Len(x) : x[i] \in Letters
    BY <1>1
  <2>2. \A i \in 1 .. Len(x) : x[i] # "EX"
    BY <2>1, LettersApart
  <2> QED
    BY <1>1, <2>2, LowerStays
<1>4. OtherEnd(x, ".") /\ "." \in Pieces /\ "." \in Letters
  <2>1. "." \notin Parts
    BY PartAssumption DEF Marks
  <2> QED
    BY <2>1 DEF OtherEnd, Bare, Pieces, Marks, Letters
<1>5. TrimEnd(x, <<".">>) = x
  BY <1>1, <1>4, EndStays
<1>6. TrimEnd(x \o <<".">>, <<".">>) = x
  BY <1>1, <1>4, EndGoes
<1>7. x \o <<".">> \in Seq(Letters)
  <2>1. \A S : \A u \in Seq(S) : \A c \in S : u \o <<c>> \in Seq(S)
    OBVIOUS
  <2> QED
    BY <1>1, <1>4, <2>1
<1> QED
  BY <1>1, <1>2, <1>3, <1>5, <1>6, <1>7

LEMMA TwoPieces ==
  ASSUME NEW x, NEW y
  PROVE  <<x>> \o <<y>> = <<x, y>>
<1> DEFINE S == {x, y}  u == <<x>>  v == <<y>>  w == <<x, y>>
<1>1. u \in Seq(S) /\ v \in Seq(S) /\ Len(u) = 1 /\ Len(v) = 1 /\ u[1] = x /\ v[1] = y
  OBVIOUS
<1>2. w \in Seq(S) /\ Len(w) = 2 /\ w[1] = x /\ w[2] = y
  OBVIOUS
<1> HIDE DEF S, u, v, w
<1>3. /\ u \o v \in Seq(S) /\ Len(u \o v) = Len(u) + Len(v)
      /\ \A i \in 1 .. Len(u) : (u \o v)[i] = u[i]
      /\ \A i \in 1 .. Len(v) : (u \o v)[Len(u) + i] = v[i]
  BY <1>1, Joined
<1> DEFINE z == u \o v
<1>4. z \in Seq(S) /\ Len(z) = 2 /\ z[1] = x /\ z[2] = y
  <2>1. 1 \in 1 .. 1 /\ 1 + 1 = 2
    OBVIOUS
  <2> QED
    BY <1>1, <1>3, <2>1
<1> HIDE DEF z
<1>5. \A i \in 1 .. Len(z) : z[i] = w[i]
  BY <1>2, <1>4
<1>6. z = w
  BY <1>2, <1>4, <1>5, SeqEqual
<1> QED
  BY <1>6 DEF z, u, v, w

LEMMA NormalIs ==
  ASSUME NEW rule, NEW t, NEW host, t = Trimmed(rule),
         host = IF UrlHost(t) # None THEN UrlHost(t) ELSE UrlHost(<<"https://">> \o t)
  PROVE  NormalizeDomainRule(rule) = IF host = None THEN t ELSE Lower(TrimEnd(host, <<".">>))
BY DEF NormalizeDomainRule

LEMMA NormalPlain ==
  ASSUME NEW x, Bare(x), NEW c \in {<<>>, Path, Port}, c = Port => x[1] \in Numerals,
         NEW rule, Trimmed(rule) = Frame(<<>>, x, c)
  PROVE  NormalizeDomainRule(rule) = x
<1> DEFINE t == x \o c
<1>1. x \in Seq(Letters) /\ x # <<>> /\ x[1] \in Parts /\ x \in Seq(Pieces)
  BY BareText DEF Bare
<1>2. Trimmed(rule) = t
  <2>1. <<>> \o x = x
    BY <1>1, ConcatEmptySeq
  <2> QED
    BY <2>1 DEF Frame
<1>3. UrlHost(t) = None
  BY <1>1, DomainHost
<1>4. UrlHost(<<"https://">> \o t) = x
  BY <1>1, UrlHosts
<1> HIDE DEF t
<1>5. NormalizeDomainRule(rule) = IF x = None THEN t ELSE Lower(TrimEnd(x, <<".">>))
  BY <1>2, <1>3, <1>4, NormalIs
<1> QED
  BY <1>5, BareText

LEMMA NormalUrl ==
  ASSUME NEW x, Bare(x), NEW c \in {<<>>, Path, Port, DotPort},
         NEW rule, Trimmed(rule) = Frame(Scheme, x, c)
  PROVE  NormalizeDomainRule(rule) = x
<1>1. x \in Seq(Letters) /\ x # <<>> /\ x \in Seq(Pieces)
  BY BareText DEF Bare
<1>2. ASSUME NEW y \in Seq(Letters), NEW b \in {<<>>, Path, Port}, y # <<>>,
             x \o c = y \o b, y # None, TrimEnd(y, <<".">>) = x
      PROVE  NormalizeDomainRule(rule) = x
  <2>1. Trimmed(rule) = <<"https://">> \o (y \o b)
    <3>1. (Scheme \o x) \o c = Scheme \o (x \o c)
      <4>1. Scheme \in Seq(Pieces) /\ x \in Seq(Pieces) /\ c \in Seq(Pieces)
        BY <1>1, FrontPieces, BackPieces
      <4> QED
        BY <4>1, PiecesJoined
    <3> QED
      BY <1>2, <3>1 DEF Frame, Scheme
  <2>2. UrlHost(<<"https://">> \o (y \o b)) = y
    BY <1>2, UrlHosts
  <2> DEFINE t == <<"https://">> \o (y \o b)
  <2> HIDE DEF t
  <2>3. Trimmed(rule) = t /\ UrlHost(t) = y
    BY <2>1, <2>2 DEF t
  <2>4. NormalizeDomainRule(rule) = IF y = None THEN t ELSE Lower(TrimEnd(y, <<".">>))
    BY <1>2, <2>3, NormalIs
  <2> QED
    BY <1>2, <2>4, BareText
<1>3. CASE c \in {<<>>, Path, Port}
  BY <1>1, <1>2, <1>3, BareText
<1>4. CASE c = DotPort
  <2> DEFINE y == x \o <<".">>
  <2>1. y \in Seq(Letters) /\ TrimEnd(y, <<".">>) = x /\ y \in Seq(Pieces) /\ y # <<>> /\ y # None
    <3>1. y \in Seq(Letters) /\ TrimEnd(y, <<".">>) = x
      BY BareText
    <3>2. y \in Seq(Pieces)
      BY <3>1, LettersApart
    <3>3. y # None
      BY <3>2, NoneAssumption DEF Pieces
    <3>4. y # <<>>
      <4>1. <<".">> \in Seq(Pieces)
        BY Patterns
      <4> QED
        BY <1>1, <4>1, ConcatEqualIffEmpty
    <3> QED
      BY <3>1, <3>2, <3>3, <3>4
  <2>2. x \o c = y \o Port
    <3>1. Dot \in Seq(Pieces) /\ Port \in Seq(Pieces)
      BY BackPieces
    <3>2. (x \o Dot) \o Port = x \o (Dot \o Port)
      BY <1>1, <3>1, PiecesJoined
    <3>3. Dot \o Port = DotPort
      BY TwoPieces DEF Dot, Port, DotPort
    <3> QED
      BY <1>4, <3>2, <3>3 DEF Dot
  <2> HIDE DEF y
  <2> QED
    BY <1>2, <2>1, <2>2
<1> QED
  BY <1>3, <1>4

LEMMA CaseText ==
  ASSUME NEW x, Bare(x), NEW t \in {x, Upper(x)}
  PROVE  Core(t) /\ Lower(t) = x
<1>0. /\ x \in Seq(Pieces) /\ x \in Seq(Letters) /\ Lower(x) = x /\ Len(x) \in Nat /\ Len(x) # 0
      /\ x[1] \in Parts /\ x[Len(x)] \in Parts /\ 1 \in 1 .. Len(x) /\ Len(x) \in 1 .. Len(x)
  <2>1. x \in Seq(Pieces) /\ x \in Seq(Letters) /\ Lower(x) = x /\ x # <<>> /\ x[1] \in Parts /\ x[Len(x)] \in Parts
    BY BareText DEF Bare
  <2>2. Len(x) \in Nat /\ Len(x) # 0
    BY <2>1
  <2> QED
    BY <2>1, <2>2
<1>1. \A c \in Parts \cup {"EX"} : c \notin {" ", ".", "*"}
  BY PartAssumption DEF Marks
<1>2. CASE t = x
  <2>1. x # <<>> /\ x[1] \notin {" ", ".", "*"} /\ x[Len(x)] \notin {" ", "."}
    BY <1>0, <1>1 DEF Bare
  <2> QED
    BY <1>0, <1>2, <2>1 DEF Core
<1>3. CASE t = Upper(x)
  <2>0. DOMAIN x = 1 .. Len(x) /\ \A i \in 1 .. Len(x) : x[i] \in Pieces /\ x[i] \in Letters
    BY <1>0
  <2>1. t = [i \in 1 .. Len(x) |-> IF x[i] = "ex" THEN "EX" ELSE x[i]]
    BY <1>3, <2>0 DEF Upper
  <2>2. \A i \in 1 .. Len(x) : (IF x[i] = "ex" THEN "EX" ELSE x[i]) \in Pieces
    BY <2>0 DEF Pieces, Marks
  <2>3. /\ t \in Seq(Pieces) /\ Len(t) = Len(x)
        /\ \A i \in 1 .. Len(x) : t[i] = IF x[i] = "ex" THEN "EX" ELSE x[i]
    BY <1>0, <2>1, <2>2
  <2>4. Core(t)
    <3>1. t[1] \in Parts \cup {"EX"} /\ t[Len(t)] \in Parts \cup {"EX"} /\ t # <<>>
      BY <1>0, <2>3
    <3> QED
      BY <1>1, <2>3, <3>1 DEF Core
  <2>5. Lower(t) = x
    <3> DEFINE l == Lower(t)
    <3>1. /\ l \in Seq(Small) /\ Len(l) = Len(t)
          /\ \A i \in 1 .. Len(t) : l[i] = IF t[i] = "EX" THEN "ex" ELSE t[i]
      BY <2>3, LowerType
    <3> HIDE DEF l
    <3>2. x \in Seq(Small)
      BY <1>0 DEF Small
    <3>3. \A i \in 1 .. Len(l) : l[i] = x[i]
      <4>1. \A i \in 1 .. Len(x) : x[i] # "EX"
        BY <2>0, LettersApart
      <4> QED
        BY <2>3, <3>1, <4>1
    <3>4. l = x
      BY <2>3, <3>1, <3>2, <3>3, SeqEqual
    <3> QED
      BY <3>4 DEF l
  <2> QED
    BY <2>4, <2>5
<1> QED
  BY <1>2, <1>3

LEMMA ThreePieces ==
  ASSUME NEW x, NEW y, NEW z
  PROVE  <<x>> \o <<y, z>> = <<x, y, z>>
<1> DEFINE S == {x, y, z}  u == <<x>>  v == <<y, z>>  w == <<x, y, z>>
<1>1. u \in Seq(S) /\ v \in Seq(S) /\ Len(u) = 1 /\ Len(v) = 2 /\ u[1] = x /\ v[1] = y /\ v[2] = z
  OBVIOUS
<1>2. w \in Seq(S) /\ Len(w) = 3 /\ w[1] = x /\ w[2] = y /\ w[3] = z
  OBVIOUS
<1> HIDE DEF S, u, v, w
<1>3. /\ u \o v \in Seq(S) /\ Len(u \o v) = Len(u) + Len(v)
      /\ \A i \in 1 .. Len(u) : (u \o v)[i] = u[i]
      /\ \A i \in 1 .. Len(v) : (u \o v)[Len(u) + i] = v[i]
  <2>1. u \in Seq(S) /\ v \in Seq(S)
    BY <1>1
  <2> QED
    BY <2>1, Joined
<1> DEFINE t == u \o v
<1>4. t \in Seq(S) /\ Len(t) = 3 /\ t[1] = x /\ t[2] = y /\ t[3] = z
  <2>1. 1 \in 1 .. 1 /\ 1 \in 1 .. 2 /\ 2 \in 1 .. 2 /\ 1 + 1 = 2 /\ 1 + 2 = 3
    OBVIOUS
  <2> QED
    BY <1>1, <1>3, <2>1
<1> HIDE DEF t
<1>5. \A i \in 1 .. Len(t) : t[i] = w[i]
  BY <1>2, <1>4
<1>6. t = w
  BY <1>2, <1>4, <1>5, SeqEqual
<1> QED
  BY <1>6 DEF t, u, v, w

LEMMA EmptyText ==
  /\ <<>> # None /\ Lower(<<>>) = <<>>
  /\ \A p \in {Space, Star, Dot} : TrimStart(<<>>, p) = <<>>
  /\ TrimEnd(<<>>, <<".">>) = <<>> /\ TrimEnd(<<>>, <<" ">>) = <<>>
<1> DEFINE e == <<>>
<1>1. e \in Seq(Pieces) /\ Len(e) = 0 /\ \A c : Other(e, c) /\ OtherEnd(e, c)
  BY DEF Other, OtherEnd
<1>2. e # None
  BY <1>1, NoneAssumption DEF Pieces
<1>3. "." \in Pieces /\ " " \in Pieces
  BY DEF Pieces, Marks
<1> HIDE DEF e
<1>4. Lower(e) = e
  <2>1. \A i \in 1 .. Len(e) : e[i] # "EX"
    BY <1>1
  <2> QED
    BY <1>1, <2>1, LowerStays
<1>5. \A p \in {Space, Star, Dot} : TrimStart(e, p) = e
  BY <1>1, Patterns, StartStays
<1>6. TrimEnd(e, <<".">>) = e /\ TrimEnd(e, <<" ">>) = e
  BY <1>1, <1>3, EndStays
<1> QED
  BY <1>2, <1>4, <1>5, <1>6 DEF e

LEMMA DottedBare ==
  ASSUME NEW d \in Name
  PROVE  Bare(Dotted(d))
<1>1. Dotted(d) # <<>>
  BY NameText
<1> QED
  BY <1>1, NameText DEF Bare

\* Every spelling of a domain becomes its text
LEMMA SpellingNormal ==
  ASSUME NEW d \in Name, NEW rule \in Spellings(d)
  PROVE  NormalizeDomainRule(rule) = Dotted(d)
<1> DEFINE x == Dotted(d)
           port == IF x[1] \in Numerals THEN {Port} ELSE {}
           plain == {<<>>, Space, Dot, Star, Space \o Star} \X ({<<>>, Space, Dot, Path} \cup port)
           urls == {Scheme, Space \o Scheme} \X {<<>>, Path, Port, DotPort}
<1>1. Bare(x)
  BY DottedBare
<1>2. PICK f \in plain \cup urls, t \in {x, Upper(x)} : rule = Frame(f[1], t, f[2])
  <2>1. Space \o Scheme = <<" ", "https://">>
    BY TwoPieces DEF Space, Scheme
  <2>2. Space \o Star = <<" ", "*", ".">>
    BY ThreePieces DEF Space, Star
  <2>3. plain = PlainFrames(x)
    BY <2>2 DEF PlainFrames, Space, Dot, Star, Path, Port
  <2>4. urls = UrlFrames
    BY <2>1 DEF UrlFrames, Space, Scheme, Path, Port, DotPort
  <2>5. Spellings(d) = {Frame(f[1], t, f[2]) : f \in PlainFrames(x) \cup UrlFrames, t \in {x, Upper(x)}}
    BY DEF Spellings
  <2>6. \E f \in PlainFrames(x) \cup UrlFrames, t \in {x, Upper(x)} : rule = Frame(f[1], t, f[2])
    BY <2>5
  <2> QED
    BY <2>3, <2>4, <2>6
<1> HIDE DEF x
<1>3. Core(t) /\ Lower(t) = x
  BY <1>1, <1>2, CaseText
<1>4. CASE f \in plain
  <2>1. f[1] \in {<<>>, Space, Dot, Star, Space \o Star} /\ f[2] \in {<<>>, Space, Dot, Path, Port}
        /\ (f[2] = Port => x[1] \in Numerals)
    <3>1. f[1] \in {<<>>, Space, Dot, Star, Space \o Star} /\ f[2] \in {<<>>, Space, Dot, Path} \cup port
      BY <1>4
    <3>2. Port \notin {<<>>, Space, Dot, Path}
      BY DEF Space, Dot, Path, Port
    <3> QED
      BY <3>1, <3>2
  <2>2. PICK c \in {<<>>, Path, Port} : /\ c = Port => f[2] = Port
                                        /\ Trimmed(Frame(f[1], t, f[2])) = Lower(Frame(<<>>, t, c))
    BY <1>3, <2>1, PlainTrimmed
  <2>3. Lower(Frame(<<>>, t, c)) = Frame(<<>>, x, c)
    BY <1>3, <2>2, LowerFrame
  <2>4. Trimmed(rule) = Frame(<<>>, x, c) /\ (c = Port => x[1] \in Numerals)
    BY <1>2, <2>1, <2>2, <2>3
  <2>5. NormalizeDomainRule(rule) = x
    BY <1>1, <2>2, <2>4, NormalPlain
  <2> QED
    BY <2>5 DEF x
<1>5. CASE f \in urls
  <2>1. f[1] \in {Scheme, Space \o Scheme} /\ f[2] \in {<<>>, Path, Port, DotPort}
    BY <1>5
  <2>2. Trimmed(Frame(f[1], t, f[2])) = Lower(Frame(Scheme, t, f[2]))
    BY <1>3, <2>1, UrlTrimmed
  <2>3. Lower(Frame(Scheme, t, f[2])) = Frame(Scheme, x, f[2])
    BY <1>3, <2>1, LowerFrame
  <2>4. Trimmed(rule) = Frame(Scheme, x, f[2])
    BY <1>2, <2>2, <2>3
  <2>5. NormalizeDomainRule(rule) = x
    BY <1>1, <2>1, <2>4, NormalUrl
  <2> QED
    BY <2>5 DEF x
<1> QED
  BY <1>2, <1>4, <1>5

\* A rule that the port makes a scheme is not one for its domain
LEMMA SchemeNormal ==
  ASSUME NEW d \in Name, Head(Head(d)) \notin Numerals
  PROVE  NormalizeDomainRule(Dotted(d) \o <<":8080">>) = <<>>
<1> DEFINE x == Dotted(d)  rule == x \o Port
<1>1. Bare(x)
  BY DottedBare
<1>2. x[1] \notin Numerals
  <2>1. x[1] = d[1][1]
    BY NameText
  <2>2. d \in Seq(Label) /\ d # <<>>
    BY DEF Name
  <2>3. d[1] \in Label
    BY <2>2, FirstOf
  <2>4. Head(d) = d[1] /\ Head(d[1]) = d[1][1]
    BY <2>2, <2>3 DEF Label
  <2> QED
    BY <2>1, <2>4
<1>3. x \in Seq(Letters) /\ x # <<>> /\ x[1] \in Parts /\ x \in Seq(Pieces)
  BY <1>1, BareText DEF Bare
<1> HIDE DEF x
<1>4. rule = Frame(<<>>, x, Port)
  <2>1. <<>> \o x = x
    BY <1>3, ConcatEmptySeq
  <2> QED
    BY <2>1 DEF Frame
<1>5. Core(x) /\ Lower(x) = x
  BY <1>1, CaseText
<1>6. Trimmed(rule) = rule
  <2> DEFINE a == <<>>  b == Port
  <2>1. /\ a \in {<<>>, Dot, Star, Scheme} /\ a \in {<<>>, Dot, Scheme} /\ a \in {<<>>, Scheme} /\ a \in Seq(Pieces)
        /\ b \in {<<>>, Dot, Path, Port, DotPort} /\ b \in {<<>>, Path, Port, DotPort} /\ b \in Seq(Pieces)
    BY FrontPieces, BackPieces
  <2> DEFINE u == Frame(a, x, b)
  <2> HIDE DEF a, b
  <2>2. TrimStart(u, Space) = u /\ TrimStart(u, Star) = u /\ TrimStart(u, Dot) = u
    BY <1>5, <2>1, FrontTrims
  <2>3. TrimEnd(u, Space) = u /\ TrimEnd(u, Dot) = u
    BY <1>5, <2>1, BackTrims
  <2>4. Lower(u) = u
    BY <1>5, <2>1, LowerFrame
  <2> HIDE DEF u
  <2>5. Trimmed(u) = u
    BY <2>2, <2>3, <2>4, TrimmedIs
  <2> QED
    BY <1>4, <2>5 DEF u, a, b
<1>7. UrlHost(rule) = <<>>
  BY <1>2, <1>3, DomainHost
<1>8. <<>> # None /\ TrimEnd(<<>>, <<".">>) = <<>> /\ Lower(<<>>) = <<>>
  BY EmptyText
<1> HIDE DEF rule
<1>9. NormalizeDomainRule(rule) = <<>>
  BY <1>6, <1>7, <1>8, NormalIs
<1> QED
  BY <1>9 DEF rule, x, Port

\* A rule without a domain becomes the empty text, or a star, which no host has
LEMMA StarText ==
  /\ <<"*">> \in Seq(Pieces) /\ <<"*">> # None /\ Lower(<<"*">>) = <<"*">>
  /\ \A p \in {Space, Star, Dot} : TrimStart(<<"*">>, p) = <<"*">>
  /\ TrimEnd(<<"*">>, <<".">>) = <<"*">> /\ TrimEnd(<<"*">>, <<" ">>) = <<"*">>
  /\ UrlHost(<<"*">>) = None /\ UrlHost(<<"https://">> \o <<"*">>) = <<"*">>
<1> DEFINE e == <<"*">>
<1>1. e \in Seq(Pieces) /\ Len(e) = 1 /\ e[1] = "*" /\ DOMAIN e = {1}
  BY DEF Pieces, Marks
<1> HIDE DEF e
<1>2. e # None
  BY <1>1, NoneAssumption DEF Pieces
<1>3. Lower(e) = e
  <2>1. \A i \in 1 .. Len(e) : e[i] # "EX"
    BY <1>1
  <2> QED
    BY <1>1, <2>1, LowerStays
<1>4. TrimStart(e, Space) = e /\ TrimStart(e, Dot) = e
  <2>1. Other(e, Space[1]) /\ Other(e, Dot[1])
    BY <1>1, Patterns DEF Other
  <2> QED
    BY <1>1, <2>1, Patterns, StartStays
<1>5. TrimStart(e, Star) = e
  <2>1. Len(Star) = 2
    BY DEF Star
  <2>2. Runs(e, Star) \subseteq Int /\ 0 \in Runs(e, Star) /\ \A n \in Runs(e, Star) : n <= 0
    <3>1. \A n \in 0 .. 1 : n % 2 = 0 => n = 0
      OBVIOUS
    <3>2. 0 % 2 = 0
      OBVIOUS
    <3> QED
      BY <1>1, <2>1, <3>1, <3>2 DEF Runs
  <2>3. Max(Runs(e, Star)) = 0
    BY <2>2, MaxIs
  <2> QED
    BY <1>1, <2>3, SubSeqFull DEF TrimStart
<1>6. TrimEnd(e, <<".">>) = e /\ TrimEnd(e, <<" ">>) = e
  <2>1. "." \in Pieces /\ " " \in Pieces /\ OtherEnd(e, ".") /\ OtherEnd(e, " ")
    BY <1>1 DEF OtherEnd, Pieces, Marks
  <2> QED
    BY <1>1, <2>1, EndStays
<1>7. UrlHost(e) = None
  <2>1. ~HasScheme(e)
    BY <1>1 DEF HasScheme
  <2> QED
    BY <1>1, <2>1, NoUrl
<1>8. UrlHost(<<"https://">> \o e) = e
  <2> DEFINE t == <<"https://">> \o e
  <2>1. "https://" \in Pieces
    BY DEF Pieces, Marks
  <2>2. t = <<"https://", "*">>
    BY TwoPieces DEF e
  <2>3. t \in Seq(Pieces) /\ t # <<>> /\ t[1] = "https://"
    <3>1. t \in Seq(Pieces)
      <4>1. <<"https://">> \in Seq(Pieces)
        BY FrontPieces DEF Scheme
      <4> QED
        BY <1>1, <4>1, PiecesJoined
    <3>2. t # <<>> /\ t[1] = "https://"
      BY <2>2
    <3> QED
      BY <3>1, <3>2
  <2>4. Tail(t) = e
    BY <1>1, <2>1, TailJoined
  <2> HIDE DEF t
  <2>5. IsPrefix(<<"https://">>, t)
    BY <2>3, UrlFirst
  <2>6. Authority(e) = e
    BY <1>1 DEF Authority
  <2>7. e # <<>> /\ " " \notin ToSet(e)
    <3>1. \A i \in DOMAIN e : e[i] # " "
      BY <1>1
    <3>2. " " \notin ToSet(e)
      BY <3>1 DEF ToSet
    <3>3. e # <<>>
      BY <1>1
    <3> QED
      BY <3>2, <3>3
  <2> QED
    BY <2>4, <2>5, <2>6, <2>7 DEF UrlHost, t
<1> QED
  BY <1>1, <1>2, <1>3, <1>4, <1>5, <1>6, <1>7, <1>8 DEF e

LEMMA NoTextHost ==
  UrlHost(<<>>) = None /\ UrlHost(<<"https://">> \o <<>>) = None
<1> DEFINE e == <<>>  t == Scheme
<1>1. e \in Seq(Pieces) /\ t \in Seq(Pieces) /\ t # <<>> /\ t[1] = "https://" /\ <<"https://">> \o e = t
  <2>1. t \in Seq(Pieces) /\ e \in Seq(Pieces)
    BY FrontPieces
  <2>2. Scheme \o <<>> = Scheme
    BY <2>1, ConcatEmptySeq
  <2>3. t # <<>> /\ t[1] = "https://"
    BY DEF Scheme
  <2> QED
    BY <2>1, <2>2, <2>3 DEF Scheme
<1>2. DOMAIN e = {}
  OBVIOUS
<1>3. UrlHost(e) = None
  <2>1. ~HasScheme(e)
    BY <1>2 DEF HasScheme
  <2> QED
    BY <1>1, <2>1, NoUrl
<1>4. UrlHost(t) = None
  <2>1. IsPrefix(<<"https://">>, t)
    BY <1>1, UrlFirst
  <2>2. Tail(t) = e
    BY DEF Scheme
  <2>3. Authority(e) = <<>>
    BY <1>2 DEF Authority
  <2> HIDE DEF t
  <2> QED
    BY <2>1, <2>2, <2>3 DEF UrlHost
<1> QED
  BY <1>1, <1>3, <1>4

LEMMA EmptyNormal ==
  ASSUME NEW rule \in Empty
  PROVE  NormalizeDomainRule(rule) \in {<<>>, <<"*">>}
<1> DEFINE e == <<>>  s == <<"*">>
<1>1. ASSUME Trimmed(rule) = e
      PROVE  NormalizeDomainRule(rule) = e
  <2>1. UrlHost(e) = None /\ UrlHost(<<"https://">> \o e) = None
    BY NoTextHost
  <2> HIDE DEF e
  <2> QED
    BY <1>1, <2>1 DEF NormalizeDomainRule
<1>2. ASSUME Trimmed(rule) = s
      PROVE  NormalizeDomainRule(rule) = s
  <2>1. /\ UrlHost(s) = None /\ UrlHost(<<"https://">> \o s) = s /\ s # None
        /\ TrimEnd(s, <<".">>) = s /\ Lower(s) = s
    BY StarText
  <2> HIDE DEF s
  <2> QED
    BY <1>2, <2>1 DEF NormalizeDomainRule
<1>3. /\ TrimStart(e, Space) = e /\ TrimStart(e, Star) = e /\ TrimStart(e, Dot) = e
      /\ TrimEnd(e, Space) = e /\ TrimEnd(e, Dot) = e /\ Lower(e) = e
  BY EmptyText DEF Space, Dot
<1>4. /\ TrimStart(s, Space) = s /\ TrimStart(s, Star) = s /\ TrimStart(s, Dot) = s
      /\ TrimEnd(s, Space) = s /\ TrimEnd(s, Dot) = s /\ Lower(s) = s
  BY StarText DEF Space, Dot
<1>5. \A p \in {Space, Dot} : TrimStart(p, p) = e
  <2> SUFFICES ASSUME NEW p \in {Space, Dot}
               PROVE  TrimStart(p, p) = e
    OBVIOUS
  <2>1. p \in Seq(Pieces) /\ Len(p) \in {1, 2} /\ p \o e = p
    BY Patterns, ConcatEmptySeq
  <2>2. e \in Seq(Pieces) /\ Other(e, p[1])
    BY DEF Other
  <2> HIDE DEF e
  <2>3. TrimStart(p \o e, p) = e
    BY <2>1, <2>2, StartGoes
  <2> QED
    BY <2>1, <2>3
<1>6. TrimStart(Dot, Space) = Dot /\ TrimEnd(Dot, Space) = Dot /\ TrimStart(Dot, Star) = Dot
  <2>1. Dot \in Seq(Pieces) /\ Other(Dot, Space[1]) /\ Other(Dot, Star[1]) /\ OtherEnd(Dot, " ") /\ " " \in Pieces
    BY Patterns, FrontPieces, BackPieces DEF Pieces, Marks
  <2> QED
    BY <2>1, Patterns, StartStays, EndStays DEF Space
<1>7. rule \in {e, Dot, Space, s}
  BY DEF Empty, Dot, Space
<1> HIDE DEF e, s
<1>8. CASE rule = e
  BY <1>1, <1>3, <1>8, TrimmedIs DEF e
<1>9. CASE rule = s
  BY <1>2, <1>4, <1>9, TrimmedIs DEF s
<1>10. CASE rule = Space
  BY <1>1, <1>3, <1>5, <1>10, TrimmedIs DEF e
<1>11. CASE rule = Dot
  BY <1>1, <1>3, <1>5, <1>6, <1>11, TrimmedIs DEF e
<1> QED
  BY <1>7, <1>8, <1>9, <1>10, <1>11

-----------------------------------------------------------------------------
\* Rules and hosts
Behind(host, domain) == \E n \in 1 .. Len(host) : domain = SubSeq(host, n, Len(host))

LEMMA RuleMatches ==
  ASSUME NEW h \in Name, NEW d \in Name, NEW rule \in Spellings(d)
  PROVE  DomainMatches(Dotted(h), rule) <=> Behind(h, d)
<1>1. NormalizeDomainRule(rule) = Dotted(d) /\ Dotted(d) # <<>>
  BY SpellingNormal, NameText
<1>2. DomainMatches(Dotted(h), rule) <=> (Dotted(h) = Dotted(d) \/ IsSuffix(<<".">> \o Dotted(d), Dotted(h)))
  BY <1>1 DEF DomainMatches
<1>3. Dotted(h) = Dotted(d) \/ IsSuffix(<<".">> \o Dotted(d), Dotted(h)) <=> Behind(h, d)
  BY Matching DEF Behind
<1> QED
  BY <1>2, <1>3

LEMMA NothingMatches ==
  ASSUME NEW h \in Name, NEW rule, NormalizeDomainRule(rule) \in {<<>>, <<"*">>}
  PROVE  ~DomainMatches(Dotted(h), rule)
<1> DEFINE x == Dotted(h)  s == <<"*">>  v == <<".">> \o s
<1>1. x \in Seq(Pieces) /\ Len(x) \in Nat /\ Len(x) >= 1 /\ x[1] # "*" /\ x[Len(x)] # "*"
  <2>1. x \in Seq(Letters) /\ Len(x) \in Nat /\ Len(x) >= 1 /\ x[1] \in Parts /\ x[Len(x)] \in Parts
    BY NameText
  <2>2. "*" \notin Parts
    BY PartAssumption DEF Marks
  <2> QED
    BY <2>1, <2>2, LettersApart
<1>2. x # s
  BY <1>1
<1>3. ~IsSuffix(v, x)
  <2>1. v = <<".", "*">>
    BY TwoPieces
  <2>2. v \in Seq(Pieces) /\ Len(v) = 2 /\ v[2] = "*"
    <3>1. v \in Seq(Pieces)
      BY StarText, Patterns, PiecesJoined
    <3> QED
      BY <2>1, <3>1
  <2> HIDE DEF v, x
  <2> SUFFICES ASSUME IsSuffix(v, x)
               PROVE  FALSE
    OBVIOUS
  <2>3. \A i \in 1 .. Len(v) : x[Len(x) - Len(v) + i] = v[i]
    BY <1>1, <2>2, SuffixIs
  <2>4. 2 \in 1 .. Len(v) /\ Len(x) - Len(v) + 2 = Len(x)
    BY <1>1, <2>2
  <2> QED
    BY <1>1, <2>2, <2>3, <2>4
<1> QED
  BY <1>2, <1>3 DEF DomainMatches

\* A host at or under a domain with a rule is found by that rule, whatever else is in the list
LEMMA CoveredMatches ==
  ASSUME NEW h \in Name, NEW rules, Covered(h, rules)
  PROVE  \E rule \in rules : DomainMatches(Dotted(h), rule)
<1>1. PICK n \in 1 .. Len(h) : Spellings(SubSeq(h, n, Len(h))) \cap rules # {}
  BY DEF Covered
<1> DEFINE d == SubSeq(h, n, Len(h))
<1>2. d \in Name
  <2>1. h \in Seq(Label) /\ Len(h) \in Nat /\ n \in Int /\ n <= Len(h) /\ \A i \in n .. Len(h) : h[i] \in Label
    BY DEF Name
  <2>2. d \in Seq(Label) /\ Len(d) = IF n <= Len(h) THEN Len(h) - n + 1 ELSE 0
    BY <2>1, SubSeqProperties
  <2> HIDE DEF d
  <2>3. d # <<>>
    BY <2>1, <2>2
  <2> QED
    BY <2>2, <2>3 DEF Name
<1>3. Behind(h, d)
  BY <1>1 DEF Behind
<1> HIDE DEF d
<1>4. PICK rule \in Spellings(d) : rule \in rules
  BY <1>1 DEF d
<1>5. DomainMatches(Dotted(h), rule)
  BY <1>2, <1>3, <1>4, RuleMatches
<1> QED
  BY <1>4, <1>5

Listed(rules) == rules \subseteq Empty \cup Schemes \cup UNION {Spellings(d) : d \in Domains}

\* A host that a rule finds is at or under the domain of that rule
LEMMA MatchesCovered ==
  ASSUME NEW h \in Name, NEW rules, Listed(rules), NEW rule \in rules, DomainMatches(Dotted(h), rule)
  PROVE  Covered(h, rules)
<1>1. NormalizeDomainRule(rule) \notin {<<>>, <<"*">>}
  BY NothingMatches
<1>2. rule \notin Empty
  BY <1>1, EmptyNormal
<1>3. rule \notin Schemes
  <2> SUFFICES ASSUME rule \in Schemes
               PROVE  FALSE
    OBVIOUS
  <2>1. PICK d \in Domains : Head(Head(d)) \notin Numerals /\ rule = Dotted(d) \o <<":8080">>
    BY DEF Schemes
  <2>2. NormalizeDomainRule(rule) = <<>>
    BY <2>1, NameAssumption, SchemeNormal
  <2> QED
    BY <1>1, <2>2
<1>4. PICK d \in Domains : rule \in Spellings(d)
  BY <1>2, <1>3 DEF Listed
<1>5. Behind(h, d)
  BY <1>4, NameAssumption, RuleMatches
<1>6. PICK n \in 1 .. Len(h) : d = SubSeq(h, n, Len(h))
  BY <1>5 DEF Behind
<1>7. Spellings(SubSeq(h, n, Len(h))) \cap rules # {}
  BY <1>4, <1>6
<1> QED
  BY <1>7 DEF Covered

-----------------------------------------------------------------------------
\* The lists of the session are those of a request, and none has navigated before there is one
ListsInvariant ==
  /\ config \in Policies
  /\ session = None \/ session \in Requests
  /\ visited \subseteq Hosts \cup {NoHost} /\ refused \subseteq Hosts \cup {NoHost}
  /\ session = None => visited = {} /\ refused = {}

\* No host at or under a denied domain
DeniedInvariant ==
  \A host \in visited \ {NoHost} : ~Covered(host, config.deny \cup session.deny)

LEMMA NavigationDenies ==
  ASSUME NEW host \in Hosts, host # NoHost, NEW allow, NEW deny, NavigationAllowed(host, allow, deny)
  PROVE  ~Covered(host, deny)
<1>1. ~\E rule \in deny : DomainMatches(Dotted(host), rule)
  BY DEF NavigationAllowed
<1> QED
  BY <1>1, NameAssumption, CoveredMatches

\* With the rules of the lists, the check decides what the policy says
LEMMA NavigationDecides ==
  ASSUME NEW host \in Hosts, host # NoHost, NEW allow, NEW deny, Listed(allow), Listed(deny)
  PROVE  NavigationAllowed(host, allow, deny)
         <=> ~(Covered(host, deny) \/ (allow # {} /\ ~Covered(host, allow)))
<1>1. host \in Name
  BY NameAssumption
<1>2. Covered(host, deny) <=> \E rule \in deny : DomainMatches(Dotted(host), rule)
  BY <1>1, CoveredMatches, MatchesCovered
<1>3. Covered(host, allow) <=> \E rule \in allow : DomainMatches(Dotted(host), rule)
  BY <1>1, CoveredMatches, MatchesCovered
<1> QED
  BY <1>2, <1>3 DEF NavigationAllowed

LEMMA ListsListed ==
  ASSUME ListsInvariant, session # None
  PROVE  Listed(config.allow \cup session.allow) /\ Listed(config.deny \cup session.deny)
BY RuleAssumption DEF ListsInvariant, Listed

LEMMA ListsStart ==
  Init => ListsInvariant
BY DEF Init, ListsInvariant

LEMMA ListsStep ==
  ListsInvariant /\ [Next]_vars => ListsInvariant'
<1> SUFFICES ASSUME ListsInvariant, [Next]_vars
             PROVE  ListsInvariant'
  OBVIOUS
<1>1. ASSUME NEW lists \in Requests, CreateSession(lists)
      PROVE  ListsInvariant'
  BY <1>1 DEF CreateSession, ListsInvariant
<1>2. ASSUME NEW host \in Hosts \cup {NoHost}, NavigateSession(host)
      PROVE  ListsInvariant'
  BY <1>2 DEF NavigateSession, ListsInvariant
<1>3. CASE UNCHANGED vars
  BY <1>3 DEF vars, ListsInvariant
<1> QED
  BY <1>1, <1>2, <1>3 DEF Next

LEMMA ListsAlways ==
  Spec => []ListsInvariant
BY ListsStart, ListsStep, PTL DEF Spec

\* Whatever rules the lists hold, recognised or not, no navigation leaves for a host at or
\* under a domain that some spelling in either deny list names: the deny half of
\* ensure_navigation_allowed, without any assumption on the other rules.
THEOREM DeniedStaysOut ==
  Spec => []DeniedInvariant
<1>1. Init => DeniedInvariant
  BY DEF Init, DeniedInvariant
<1>2. ListsInvariant /\ DeniedInvariant /\ [Next]_vars => DeniedInvariant'
  <2> SUFFICES ASSUME ListsInvariant, DeniedInvariant, [Next]_vars
               PROVE  DeniedInvariant'
    OBVIOUS
  <2>1. ASSUME NEW lists \in Requests, CreateSession(lists)
        PROVE  DeniedInvariant'
    <3>1. visited' = {}
      BY <2>1 DEF CreateSession, ListsInvariant
    <3> QED
      BY <3>1 DEF DeniedInvariant
  <2>2. ASSUME NEW host \in Hosts \cup {NoHost}, NavigateSession(host)
        PROVE  DeniedInvariant'
    <3>1. config' = config /\ session' = session
      BY <2>2 DEF NavigateSession
    <3>2. CASE NavigationAllowed(host, config.allow \cup session.allow, config.deny \cup session.deny)
      <4>1. visited' = visited \cup {host}
        BY <2>2, <3>2 DEF NavigateSession
      <4>2. host # NoHost => ~Covered(host, config.deny \cup session.deny)
        BY <3>2, NavigationDenies
      <4> QED
        BY <3>1, <4>1, <4>2 DEF DeniedInvariant
    <3>3. CASE ~NavigationAllowed(host, config.allow \cup session.allow, config.deny \cup session.deny)
      <4>1. visited' = visited
        BY <2>2, <3>3 DEF NavigateSession
      <4> QED
        BY <3>1, <4>1 DEF DeniedInvariant
    <3> QED
      BY <3>2, <3>3
  <2>3. CASE UNCHANGED vars
    BY <2>3 DEF vars, DeniedInvariant
  <2> QED
    BY <2>1, <2>2, <2>3 DEF Next
<1> QED
  BY <1>1, <1>2, ListsAlways, PTL DEF Spec

\* The policy at one navigation
LEMMA NavigationPolicy ==
  ASSUME ListsInvariant, session # None, NEW host \in Hosts \cup {NoHost}
  PROVE  NavigationAllowed(host, config.allow \cup session.allow, config.deny \cup session.deny)
         <=> ~Forbidden(host)
<1> DEFINE allow == config.allow \cup session.allow  deny == config.deny \cup session.deny
<1>1. CASE host = NoHost
  BY <1>1 DEF NavigationAllowed, Forbidden
<1>2. CASE host # NoHost
  <2>1. Listed(allow) /\ Listed(deny)
    BY ListsListed
  <2>2. host \in Hosts
    BY <1>2
  <2>3. Forbidden(host) <=> Covered(host, deny) \/ (allow # {} /\ ~Covered(host, allow))
    BY <1>2 DEF Forbidden
  <2> HIDE DEF allow, deny
  <2>4. NavigationAllowed(host, allow, deny) <=> ~(Covered(host, deny) \/ (allow # {} /\ ~Covered(host, allow)))
    BY <1>2, <2>1, <2>2, NavigationDecides
  <2> QED
    BY <2>3, <2>4 DEF allow, deny
<1> QED
  BY <1>1, <1>2

PolicyInvariant == PolicyHolds /\ NoOverblocking

LEMMA PolicyStep ==
  ListsInvariant /\ PolicyInvariant /\ [Next]_vars => PolicyInvariant'
<1> SUFFICES ASSUME ListsInvariant, PolicyInvariant, [Next]_vars
             PROVE  PolicyInvariant'
  OBVIOUS
<1>1. ASSUME NEW lists \in Requests, CreateSession(lists)
      PROVE  PolicyInvariant'
  <2>1. visited' = {} /\ refused' = {}
    BY <1>1 DEF CreateSession, ListsInvariant
  <2> QED
    BY <2>1 DEF PolicyInvariant, PolicyHolds, NoOverblocking
<1>2. ASSUME NEW host \in Hosts \cup {NoHost}, NavigateSession(host)
      PROVE  PolicyInvariant'
  <2>1. config' = config /\ session' = session /\ session # None
    BY <1>2 DEF NavigateSession
  <2>2. \A h : Forbidden(h)' <=> Forbidden(h)
    BY <2>1 DEF Forbidden, Covered, Spellings
  <2>3. NavigationAllowed(host, config.allow \cup session.allow, config.deny \cup session.deny) <=> ~Forbidden(host)
    BY <2>1, NavigationPolicy
  <2>4. CASE Forbidden(host)
    <3>1. visited' = visited /\ refused' = refused \cup {host}
      BY <1>2, <2>3, <2>4 DEF NavigateSession
    <3> QED
      BY <2>2, <2>4, <3>1 DEF PolicyInvariant, PolicyHolds, NoOverblocking
  <2>5. CASE ~Forbidden(host)
    <3>1. visited' = visited \cup {host} /\ refused' = refused
      BY <1>2, <2>3, <2>5 DEF NavigateSession
    <3> QED
      BY <2>2, <2>5, <3>1 DEF PolicyInvariant, PolicyHolds, NoOverblocking
  <2> QED
    BY <2>4, <2>5
<1>3. CASE UNCHANGED vars
  BY <1>3 DEF vars, PolicyInvariant, PolicyHolds, NoOverblocking, Forbidden
<1> QED
  BY <1>1, <1>2, <1>3 DEF Next

LEMMA PolicyAlways ==
  Spec => []PolicyInvariant
<1>1. Init => PolicyInvariant
  BY DEF Init, PolicyInvariant, PolicyHolds, NoOverblocking
<1> QED
  BY <1>1, PolicyStep, ListsAlways, PTL DEF Spec

\* ensure_navigation_allowed lets no navigation through that the two lists forbid, for hosts
\* of any labels and every list of spelled rules: normalize_domain_rule finds the domain in
\* each spelling, and comparing texts behind a dot compares labels.
THEOREM PolicyIsKept ==
  Spec => []PolicyHolds
<1>1. PolicyInvariant => PolicyHolds
  BY DEF PolicyInvariant
<1> QED
  BY <1>1, PolicyAlways, PTL

\* And it refuses nothing else: a rule without a domain, or one that a port turns into a
\* scheme, matches no host, and no sibling of a denied domain is taken for it.
THEOREM NothingElseIsRefused ==
  Spec => []NoOverblocking
<1>1. PolicyInvariant => NoOverblocking
  BY DEF PolicyInvariant
<1> QED
  BY <1>1, PolicyAlways, PTL
=============================================================================
