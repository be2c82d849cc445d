------------------------- MODULE CookieCodecProofs -------------------------
(***************************************************************************)
(* Theorems about CookieCodec, for every set of jars and of numbers.  Most *)
(* of the work is on texts: what trimming and splitting give, and that     *)
(* parsing undoes the writing of a line.                                   *)
(***************************************************************************)
EXTENDS CookieCodec, FiniteSetTheorems, SequenceTheorems, WellFoundedInduction, TLAPS

-----------------------------------------------------------------------------
\* Least and greatest elements
LEMMA Least ==
  ASSUME NEW S, S \subseteq Nat, S # {}
  PROVE  \E x \in S : \A y \in S : x <= y
<1>1. PICK x \in S : \A y \in S : ~ (<<y, x>> \in OpToRel(<, Nat))
  BY NatLessThanWellFounded, WFMin
<1>2. \A y \in S : ~(y < x)
  BY <1>1 DEF OpToRel
<1> QED
  BY <1>2

LEMMA MinIs ==
  ASSUME NEW S, S \subseteq Nat, S # {}
  PROVE  Min(S) \in S /\ \A y \in S : Min(S) <= y
BY Least DEF Min

LEMMA MaxIs ==
  ASSUME NEW n \in Nat, NEW S, S \subseteq 1 .. n, S # {}
  PROVE  Max(S) \in S /\ \A y \in S : y <= Max(S)
<1> DEFINE T == {n - x : x \in S}
<1>1. PICK z \in T : \A y \in T : z <= y
  <2>1. \A x \in S : n - x \in Nat
    OBVIOUS
  <2>2. T \subseteq Nat /\ T # {}
    BY <2>1
  <2> QED
    BY <2>2, Least
<1>2. n - z \in S /\ \A y \in S : n - z >= y
  BY <1>1
<1> QED
  BY <1>2 DEF Max

\* The greatest element is the one that is at least as great as each
LEMMA MaxIsThe ==
  ASSUME NEW n \in Nat, NEW S, S \subseteq 1 .. n, NEW x \in S, \A y \in S : y <= x
  PROVE  Max(S) = x
<1>1. Max(S) \in S /\ \A y \in S : y <= Max(S)
  BY MaxIs
<1>2. Max(S) <= x /\ x <= Max(S)
  BY <1>1
<1>3. \A y \in S : y \in Int
  OBVIOUS
<1>4. x \in Int /\ Max(S) \in Int
  BY <1>1, <1>3
<1> QED
  BY <1>2, <1>4

LEMMA MinIsThe ==
  ASSUME NEW S, S \subseteq Nat, NEW x \in S, \A y \in S : x <= y
  PROVE  Min(S) = x
<1>1. Min(S) \in S /\ \A y \in S : Min(S) <= y
  BY MinIs
<1>2. Min(S) <= x /\ x <= Min(S)
  BY <1>1
<1>3. \A y \in S : y \in Int
  OBVIOUS
<1>4. x \in Int /\ Min(S) \in Int
  BY <1>1, <1>3
<1> QED
  BY <1>2, <1>4

-----------------------------------------------------------------------------
\* Sequences one after the other
LEMMA Joined ==
  ASSUME NEW S, NEW a \in Seq(S), NEW v \in Seq(S)
  PROVE  /\ a \o v \in Seq(S) /\ Len(a \o v) = Len(a) + Len(v)
         /\ Len(a) \in Nat /\ Len(v) \in Nat
         /\ DOMAIN (a \o v) = 1 .. (Len(a) + Len(v))
         /\ \A i \in 1 .. Len(a) : (a \o v)[i] = a[i]
         /\ \A i \in 1 .. Len(v) : (a \o v)[Len(a) + i] = v[i]
<1>1. a \o v \in Seq(S) /\ Len(a \o v) = Len(a) + Len(v) /\ Len(a) \in Nat /\ Len(v) \in Nat
  OBVIOUS
<1>2. \A i \in 1 .. Len(a) : (a \o v)[i] = a[i]
  OBVIOUS
<1>3. ASSUME NEW i \in 1 .. Len(v)
      PROVE  (a \o v)[Len(a) + i] = v[i]
  OBVIOUS
<1> QED
  BY <1>1, <1>2, <1>3

LEMMA Single ==
  ASSUME NEW S, NEW s \in Seq(S), Len(s) = 1
  PROVE  s = <<s[1]>>
<1>1. <<s[1]>> \in Seq(S) /\ Len(<<s[1]>>) = 1 /\ \A i \in 1 .. 1 : <<s[1]>>[i] = s[i]
  OBVIOUS
<1> QED
  BY <1>1, SeqEqual

LEMMA FirstIs ==
  ASSUME NEW S, NEW t \in Seq(S), Len(t) >= 1, NEW x \in S
  PROVE  IsPrefix(<<x>>, t) <=> t[1] = x
<1>1. SubSeq(t, 1, 1) = <<t[1]>>
  <2>1. SubSeq(t, 1, 1) \in Seq(S) /\ Len(SubSeq(t, 1, 1)) = 1 /\ SubSeq(t, 1, 1)[1] = t[1]
    OBVIOUS
  <2> QED
    BY <2>1, Single
<1>2. Len(<<x>>) = 1 /\ SubSeq(<<x>>, 1, 1) = <<x>>
  <2>1. <<x>> \in Seq(S) /\ Len(<<x>>) = 1
    OBVIOUS
  <2> QED
    BY <2>1, SubSeqFull
<1>3. <<x>> = <<t[1]>> <=> x = t[1]
  OBVIOUS
<1> QED
  BY <1>1, <1>2, <1>3 DEF IsPrefix

LEMMA TailIs ==
  ASSUME NEW S, NEW r \in Seq(S), NEW x \in S
  PROVE  /\ <<x>> \o r \in Seq(S) /\ Len(<<x>> \o r) >= 1 /\ (<<x>> \o r)[1] = x
         /\ Tail(<<x>> \o r) = r
<1> DEFINE t == <<x>> \o r
<1>1. /\ t \in Seq(S) /\ Len(t) = 1 + Len(r) /\ t[1] = x /\ Len(r) \in Nat
      /\ \A i \in 1 .. Len(r) : t[1 + i] = r[i]
  <2>1. <<x>> \in Seq(S) /\ Len(<<x>>) = 1 /\ <<x>>[1] = x
    OBVIOUS
  <2> QED
    BY <2>1, Joined
<1> HIDE DEF t
<1>2. Tail(t) \in Seq(S) /\ Len(Tail(t)) = Len(r) /\ \A i \in 1 .. Len(r) : Tail(t)[i] = t[i + 1]
  BY <1>1
<1>3. \A i \in 1 .. Len(r) : i + 1 = 1 + i
  BY <1>1
<1>4. Tail(t) = r
  BY <1>1, <1>2, <1>3, SeqEqual
<1> QED
  BY <1>1, <1>4 DEF t

LEMMA CutAfter ==
  ASSUME NEW S, NEW a \in Seq(S), NEW v \in Seq(S), NEW m \in 0 .. Len(v)
  PROVE  SubSeq(a \o v, 1, Len(a) + m) = a \o SubSeq(v, 1, m)
<1> DEFINE u == SubSeq(v, 1, m)  left == SubSeq(a \o v, 1, Len(a) + m)
<1>1. u \in Seq(S) /\ Len(u) = m /\ \A i \in 1 .. m : u[i] = v[i]
  OBVIOUS
<1>2. left \in Seq(S) /\ Len(left) = Len(a) + m /\ \A i \in 1 .. Len(a) + m : left[i] = (a \o v)[i]
  BY Joined
<1> HIDE DEF u, left
<1>3. a \o u \in Seq(S) /\ Len(a \o u) = Len(a) + m
  BY <1>1
<1>4. ASSUME NEW i \in 1 .. Len(a) + m
      PROVE  left[i] = (a \o u)[i]
  <2>0. Len(a) \in Nat /\ i \in Int /\ (i <= Len(a) \/ i > Len(a))
    OBVIOUS
  <2>1. CASE i <= Len(a)
    BY <1>1, <1>2, <2>1
  <2>2. CASE i > Len(a)
    <3> DEFINE j == i - Len(a)
    <3>1. j \in 1 .. m /\ j \in 1 .. Len(v) /\ i = Len(a) + j
      BY <2>0, <2>2
    <3> HIDE DEF j
    <3>2. (a \o v)[Len(a) + j] = v[j]
      BY <3>1, Joined
    <3>3. (a \o u)[Len(a) + j] = u[j]
      BY <1>1, <3>1, Joined
    <3> QED
      BY <1>1, <1>2, <3>1, <3>2, <3>3
  <2> QED
    BY <2>0, <2>1, <2>2
<1>5. left = a \o u
  BY <1>2, <1>3, <1>4, SeqEqual
<1> QED
  BY <1>5 DEF left, u

-----------------------------------------------------------------------------
\* Trimming
LEMMA TrimEndType ==
  ASSUME NEW t \in Seq(Pieces)
  PROVE  /\ Solid(t) \subseteq 1 .. Len(t)
         /\ TrimEnd(t) \in Seq(Pieces)
         /\ Solid(t) # {} => /\ Max(Solid(t)) \in Solid(t) /\ Len(TrimEnd(t)) = Max(Solid(t))
                             /\ TrimEnd(t) # <<>>
         /\ TrimEnd(TrimEnd(t)) = TrimEnd(t)
<1>1. Solid(t) \subseteq 1 .. Len(t)
  BY DEF Solid
<1>2. CASE Solid(t) = {}
  <2>1. TrimEnd(t) = <<>>
    BY <1>2 DEF TrimEnd
  <2>2. Solid(<<>>) = {}
    BY DEF Solid
  <2> QED
    BY <1>1, <1>2, <2>1, <2>2 DEF TrimEnd
<1>3. CASE Solid(t) # {}
  <2> DEFINE m == Max(Solid(t))  u == SubSeq(t, 1, m)
  <2>1. m \in Solid(t) /\ m \in 1 .. Len(t) /\ \A y \in Solid(t) : y <= m
    <3>1. m \in Solid(t) /\ \A y \in Solid(t) : y <= m
      BY <1>1, <1>3, MaxIs
    <3> QED
      BY <1>1, <3>1
  <2> HIDE DEF m
  <2>2. u \in Seq(Pieces) /\ Len(u) = m /\ \A i \in 1 .. m : u[i] = t[i]
    BY <2>1
  <2> HIDE DEF u
  <2>3. m \in Solid(u) /\ Solid(u) \subseteq 1 .. m
    BY <2>1, <2>2 DEF Solid
  <2>4. Max(Solid(u)) = m
    <3>1. \A y \in Solid(u) : y <= m
      BY <2>1, <2>3
    <3> QED
      BY <2>1, <2>3, <3>1, MaxIsThe
  <2>5. SubSeq(u, 1, m) = u
    BY <2>1, <2>2
  <2>6. TrimEnd(t) = u /\ TrimEnd(u) = u
    BY <1>3, <2>3, <2>4, <2>5 DEF TrimEnd, m, u
  <2> QED
    BY <1>1, <1>3, <2>1, <2>2, <2>6 DEF m
<1> QED
  BY <1>2, <1>3

\* A text that begins with a solid piece is only trimmed at its end
LEMMA TrimStart ==
  ASSUME NEW t \in Seq(Pieces), Len(t) >= 1, t[1] \notin {"space", "tab"}
  PROVE  Trim(t) = TrimEnd(t)
<1>1. 1 \in Solid(t) /\ Solid(t) \subseteq Nat /\ \A y \in Solid(t) : 1 <= y
  BY DEF Solid
<1>2. Min(Solid(t)) = 1
  BY <1>1, MinIsThe
<1> QED
  BY <1>1, <1>2 DEF Trim, TrimEnd

\* The blanks at the end of v, and the tab before it if there is nothing else in v
LEMMA TrimAfter ==
  ASSUME NEW a \in Seq(Pieces), NEW v \in Seq(Pieces), NEW n \in Nat, Len(a) = n + 1, n >= 1,
         a[n] \notin {"space", "tab"}, a[n + 1] = "tab"
  PROVE  TrimEnd(a \o v) = IF Solid(v) = {} THEN SubSeq(a, 1, n) ELSE a \o TrimEnd(v)
<1> DEFINE t == a \o v
<1>1. /\ t \in Seq(Pieces) /\ Len(t) = n + 1 + Len(v) /\ DOMAIN t = 1 .. Len(t)
      /\ \A i \in 1 .. n + 1 : t[i] = a[i]
      /\ \A i \in 1 .. Len(v) : t[n + 1 + i] = v[i]
  <2> HIDE DEF t
  <2>1. t \in Seq(Pieces) /\ Len(t) = n + 1 + Len(v)
    BY DEF t
  <2>2. \A i \in 1 .. n + 1 : t[i] = a[i]
    BY Joined DEF t
  <2>3. \A i \in 1 .. Len(v) : t[n + 1 + i] = v[i]
    BY Joined DEF t
  <2> QED
    BY <2>1, <2>2, <2>3
<1>2. Solid(t) \subseteq 1 .. Len(t) /\ Len(t) \in Nat
  BY <1>1 DEF Solid
<1>3. CASE Solid(v) = {}
  <2> HIDE DEF t
  <2>1. \A i \in 1 .. Len(v) : v[i] \in {"space", "tab"}
    BY <1>3 DEF Solid
  <2>2. \A j \in Solid(t) : j <= n
    <3> SUFFICES ASSUME NEW j \in Solid(t), j > n + 1 PROVE FALSE
      BY <1>1, <1>2 DEF Solid
    <3>1. j - (n + 1) \in 1 .. Len(v) /\ t[n + 1 + (j - (n + 1))] = t[j]
      BY <1>1, <1>2
    <3> QED
      BY <1>1, <2>1, <3>1 DEF Solid
  <2>3. n \in Solid(t)
    BY <1>1 DEF Solid
  <2>4. Max(Solid(t)) = n
    BY <1>2, <2>2, <2>3, MaxIsThe
  <2>5. SubSeq(t, 1, n) = SubSeq(a, 1, n)
    BY <1>1
  <2> QED
    BY <1>3, <2>3, <2>4, <2>5 DEF TrimEnd, t
<1>4. CASE Solid(v) # {}
  <2> DEFINE m == Max(Solid(v))
  <2>1. m \in Solid(v) /\ m \in 1 .. Len(v) /\ \A y \in Solid(v) : y <= m
    <3>1. Solid(v) \subseteq 1 .. Len(v)
      BY DEF Solid
    <3>2. m \in Solid(v) /\ \A y \in Solid(v) : y <= m
      BY <1>4, <3>1, MaxIs
    <3> QED
      BY <3>1, <3>2
  <2> HIDE DEF t, m
  <2>2. n + 1 + m \in Solid(t)
    BY <1>1, <2>1 DEF Solid
  <2>3. \A j \in Solid(t) : j <= n + 1 + m
    <3> SUFFICES ASSUME NEW j \in Solid(t), j > n + 1 + m PROVE FALSE
      BY <1>2, <2>1
    <3>1. j - (n + 1) \in 1 .. Len(v) /\ t[n + 1 + (j - (n + 1))] = t[j]
      BY <1>1, <1>2, <2>1
    <3>2. j - (n + 1) \in Solid(v)
      BY <1>1, <3>1 DEF Solid
    <3> QED
      BY <1>2, <2>1, <3>2
  <2>4. Max(Solid(t)) = n + 1 + m
    BY <1>2, <2>2, <2>3, MaxIsThe
  <2>5. SubSeq(t, 1, n + 1 + m) = a \o SubSeq(v, 1, m)
    <3>1. m \in 0 .. Len(v)
      BY <2>1
    <3>2. SubSeq(a \o v, 1, Len(a) + m) = a \o SubSeq(v, 1, m)
      BY <3>1, CutAfter
    <3> QED
      BY <3>2 DEF t
  <2> QED
    BY <1>4, <2>2, <2>4, <2>5 DEF TrimEnd, t, m
<1> QED
  BY <1>3, <1>4

-----------------------------------------------------------------------------
\* Splitting
LEMMA Counted ==
  ASSUME NEW n \in Nat, NEW p \in [1 .. n -> Int], \A i, j \in 1 .. n : i < j => p[i] < p[j],
         NEW k \in 0 .. n
  PROVE  IsFiniteSet({p[i] : i \in 1 .. k}) /\ Cardinality({p[i] : i \in 1 .. k}) = k
<1> DEFINE P == {p[i] : i \in 1 .. k}  f == [i \in 1 .. k |-> p[i]]
<1>1. \A i, j \in 1 .. k : f[i] = f[j] => i = j
  <2> SUFFICES ASSUME NEW i \in 1 .. k, NEW j \in 1 .. k, p[i] = p[j], i # j
               PROVE  FALSE
    OBVIOUS
  <2>1. i \in 1 .. n /\ j \in 1 .. n /\ p[i] \in Int /\ p[j] \in Int /\ (i < j \/ j < i)
    OBVIOUS
  <2>2. p[i] < p[j] \/ p[j] < p[i]
    BY <2>1
  <2> QED
    BY <2>1, <2>2
<1>2. f \in Bijection(1 .. k, P)
  <2>1. f \in [1 .. k -> P] /\ \A y \in P : \E i \in 1 .. k : f[i] = y
    OBVIOUS
  <2> QED
    BY <1>1, <2>1 DEF Bijection, Injection, Surjection, IsInjective
<1>3. k \in Nat
  OBVIOUS
<1> HIDE DEF P, f
<1>4. ExistsBijection(1 .. k, P)
  BY <1>2 DEF ExistsBijection
<1>5. IsFiniteSet(P) /\ Cardinality(P) = k
  BY <1>3, <1>4, FS_CountingElements, FS_NatBijection
<1> QED
  BY <1>5 DEF P

\* The parts are what is between one bar and the next
LEMMA SplitAt ==
  ASSUME NEW t, NEW n \in Nat, NEW p \in [1 .. n -> Int], \A i, j \in 1 .. n : i < j => p[i] < p[j],
         Bars(t) = {p[i] : i \in 1 .. n}
  PROVE  Split(t) = [m \in 1 .. n - 1 |-> SubSeq(t, p[m] + 1, p[m + 1] - 1)]
<1> DEFINE Before(i) == {j \in Bars(t) : j < i}
<1>0. ASSUME NEW k \in 0 .. n
      PROVE  Cardinality({p[i] : i \in 1 .. k}) = k
  BY Counted
<1>1. ASSUME NEW k \in 1 .. n
      PROVE  Cardinality(Before(p[k])) = k - 1
  <2>1. ASSUME NEW i \in 1 .. n
        PROVE  p[i] < p[k] <=> i < k
    <3>1. p[i] \in Int /\ p[k] \in Int /\ (i < k \/ i = k \/ k < i)
      OBVIOUS
    <3> QED
      BY <3>1
  <2>2. Before(p[k]) = {p[i] : i \in 1 .. k - 1}
    <3>1. Before(p[k]) \subseteq {p[i] : i \in 1 .. k - 1}
      BY <2>1
    <3>2. \A i \in 1 .. k - 1 : i \in 1 .. n /\ i < k
      OBVIOUS
    <3>3. {p[i] : i \in 1 .. k - 1} \subseteq Before(p[k])
      BY <2>1, <3>2
    <3> QED
      BY <3>1, <3>3
  <2>3. k - 1 \in 0 .. n
    OBVIOUS
  <2> QED
    BY <1>0, <2>2, <2>3
<1>2. ASSUME NEW k \in 1 .. n
      PROVE  (CHOOSE i \in Bars(t) : Cardinality(Before(i)) = k - 1) = p[k]
  <2> HIDE DEF Before
  <2>1. \A i \in Bars(t) : Cardinality(Before(i)) = k - 1 => i = p[k]
    <3> SUFFICES ASSUME NEW l \in 1 .. n, Cardinality(Before(p[l])) = k - 1
                 PROVE  p[l] = p[k]
      OBVIOUS
    <3>1. l - 1 = k - 1
      BY <1>1
    <3> QED
      BY <3>1
  <2>2. p[k] \in Bars(t) /\ Cardinality(Before(p[k])) = k - 1
    BY <1>1
  <2> QED
    BY <2>1, <2>2
<1>3. Cardinality(Bars(t)) = n
  <2>1. n \in 0 .. n
    OBVIOUS
  <2> QED
    BY <1>0, <2>1
<1>4. \A m \in 1 .. n - 1 : /\ (CHOOSE i \in Bars(t) : Cardinality(Before(i)) = m - 1) = p[m]
                            /\ (CHOOSE i \in Bars(t) : Cardinality(Before(i)) = m) = p[m + 1]
  <2> TAKE m \in 1 .. n - 1
  <2>1. m \in 1 .. n /\ m + 1 \in 1 .. n /\ (m + 1) - 1 = m
    OBVIOUS
  <2> HIDE DEF Before
  <2>2. (CHOOSE i \in Bars(t) : Cardinality(Before(i)) = (m + 1) - 1) = p[m + 1]
    BY <1>2, <2>1
  <2> QED
    BY <1>2, <2>1, <2>2
<1>5. Split(t) = [m \in 1 .. Cardinality(Bars(t)) - 1 |->
                    SubSeq(t, (CHOOSE i \in Bars(t) : Cardinality(Before(i)) = m - 1) + 1,
                              (CHOOSE i \in Bars(t) : Cardinality(Before(i)) = m) - 1)]
  BY DEF Split
<1> HIDE DEF Before
<1> QED
  BY <1>3, <1>4, <1>5

-----------------------------------------------------------------------------
\* A line of a Netscape file, without the mark in front and the value at the end
Fields(c) == <<"tab", Bool(Head(c.domain) = "."), "tab", "/", "tab", Bool(c.secure), "tab",
               Number(c.expires), "tab", c.name, "tab">>
Body(c) == c.domain \o Fields(c)

LEMMA CookieParts ==
  ASSUME NEW c \in BrowserCookie
  PROVE  /\ c \in Cookie /\ c.name \in Pieces \ Marks /\ c.value \in Seq(Pieces)
         /\ c.domain \in Seq(Pieces) /\ Len(c.domain) \in Nat \ {0}
         /\ \A i \in 1 .. Len(c.domain) : c.domain[i] \notin Marks
         /\ \E i \in 1 .. Len(c.domain) : c.domain[i] # "."
         /\ c.secure \in BOOLEAN /\ c.http_only \in BOOLEAN
         /\ c.name \in HostNames => c.secure
         /\ c.expires = None \/ (c.expires \in Numbers /\ c.expires > 0)
<1>1. c \in Cookie /\ c.name \notin Marks /\ ToSet(c.domain) \cap Marks = {}
      /\ ToSet(c.domain) \ {"."} # {} /\ (c.name \in HostNames => c.secure)
  BY DEF BrowserCookie
<1>2. /\ c.name \in Pieces /\ c.value \in Seq(Pieces) /\ c.domain \in Seq(Pieces)
      /\ c.secure \in BOOLEAN /\ c.http_only \in BOOLEAN
      /\ c.expires \in {n \in Numbers : n > 0} \cup {None}
  BY <1>1 DEF Cookie
<1>3. DOMAIN c.domain = 1 .. Len(c.domain) /\ Len(c.domain) \in Nat
  BY <1>2
<1>4. \A i \in 1 .. Len(c.domain) : c.domain[i] \notin Marks
  BY <1>1, <1>3 DEF ToSet
<1>5. \E i \in 1 .. Len(c.domain) : c.domain[i] # "."
  BY <1>1, <1>3 DEF ToSet
<1>6. c.expires = None \/ (c.expires \in Numbers /\ c.expires > 0)
  <2>1. CASE c.expires \in {n \in Numbers : n > 0}
    BY <2>1, NumberAssumption
  <2>2. c.expires = None \/ c.expires \in {n \in Numbers : n > 0}
    BY <1>2, Zenon
  <2> QED
    BY <2>1, <2>2, Zenon
<1>7. Len(c.domain) # 0
  BY <1>3, <1>5
<1> QED
  BY <1>1, <1>2, <1>3, <1>4, <1>5, <1>6, <1>7

LEMMA NumberType ==
  ASSUME NEW n \in Numbers \cup {None}
  PROVE  Number(n) \in Pieces \ Marks
<1>1. CASE n = None
  BY <1>1, NumberAssumption DEF Number
<1>2. CASE n # None
  BY <1>2, NumberAssumption DEF Number
<1> QED
  BY <1>1, <1>2

LEMMA Eleven ==
  ASSUME NEW x \in Pieces, NEW y \in Pieces, NEW n \in Pieces, NEW m \in Pieces, NEW e,
         e = <<"tab", x, "tab", "/", "tab", y, "tab", n, "tab", m, "tab">>
  PROVE  /\ e \in Seq(Pieces) /\ Len(e) = 11
         /\ e[1] = "tab" /\ e[3] = "tab" /\ e[5] = "tab" /\ e[7] = "tab" /\ e[9] = "tab" /\ e[11] = "tab"
         /\ e[2] = x /\ e[4] = "/" /\ e[6] = y /\ e[8] = n /\ e[10] = m
<1>1. e \in Seq(Pieces)
  BY PieceAssumption DEF Marks
<1>2. Len(e) = 11
  OBVIOUS
<1> QED
  BY <1>1, <1>2

LEMMA BodyParts ==
  ASSUME NEW c \in BrowserCookie
  PROVE  LET d == Len(c.domain)  b == Body(c)
         IN  /\ b \in Seq(Pieces) /\ Len(b) = d + 11
             /\ b[1] \notin Marks
             /\ \A i \in 1 .. d : b[i] = c.domain[i] /\ b[i] \notin Marks
             /\ b[d + 1] = "tab" /\ b[d + 3] = "tab" /\ b[d + 5] = "tab" /\ b[d + 7] = "tab"
             /\ b[d + 9] = "tab" /\ b[d + 11] = "tab"
             /\ b[d + 2] # "tab" /\ b[d + 4] # "tab"
             /\ b[d + 6] = Bool(c.secure) /\ b[d + 6] # "tab"
             /\ b[d + 8] = Number(c.expires) /\ b[d + 8] \notin Marks
             /\ b[d + 10] = c.name /\ b[d + 10] \notin Marks
<1> DEFINE d == Len(c.domain)  b == Body(c)  e == Fields(c)
<1>1. /\ Number(c.expires) \in Pieces \ Marks
      /\ Bool(c.secure) \in Pieces /\ Bool(c.secure) # "tab"
      /\ Bool(Head(c.domain) = ".") \in Pieces /\ Bool(Head(c.domain) = ".") # "tab"
  <2>1. c.expires \in Numbers \cup {None}
    BY CookieParts
  <2>2. Number(c.expires) \in Pieces \ Marks
    BY <2>1, NumberType
  <2>3. /\ Bool(c.secure) \in Pieces /\ Bool(c.secure) # "tab"
        /\ Bool(Head(c.domain) = ".") \in Pieces /\ Bool(Head(c.domain) = ".") # "tab"
    <3>1. CASE Head(c.domain) = "."
      BY <3>1, CookieParts, PieceAssumption DEF Bool
    <3>2. CASE Head(c.domain) # "."
      BY <3>2, CookieParts, PieceAssumption DEF Bool
    <3> QED
      BY <3>1, <3>2
  <2> QED
    BY <2>2, <2>3
<1>2. /\ e \in Seq(Pieces) /\ Len(e) = 11
      /\ e[1] = "tab" /\ e[3] = "tab" /\ e[5] = "tab" /\ e[7] = "tab" /\ e[9] = "tab" /\ e[11] = "tab"
      /\ e[2] # "tab" /\ e[4] # "tab" /\ e[6] = Bool(c.secure) /\ e[8] = Number(c.expires)
      /\ e[10] = c.name
  <2>1. c.name \in Pieces
    BY CookieParts
  <2> QED
    BY <1>1, <2>1, Eleven, PieceAssumption DEF Fields
<1>3. d \in Nat \ {0} /\ c.domain \in Seq(Pieces)
  BY CookieParts
<1> HIDE DEF e
<1>4. /\ b \in Seq(Pieces) /\ Len(b) = d + 11 /\ \A i \in 1 .. d : b[i] = c.domain[i]
      /\ \A i \in 1 .. 11 : b[d + i] = e[i]
  <2>1. /\ c.domain \o e \in Seq(Pieces) /\ Len(c.domain \o e) = Len(c.domain) + 11
        /\ \A i \in 1 .. Len(c.domain) : (c.domain \o e)[i] = c.domain[i]
        /\ \A i \in 1 .. 11 : (c.domain \o e)[Len(c.domain) + i] = e[i]
    <3>1. /\ c.domain \o e \in Seq(Pieces) /\ Len(c.domain \o e) = Len(c.domain) + Len(e)
          /\ \A i \in 1 .. Len(c.domain) : (c.domain \o e)[i] = c.domain[i]
          /\ \A i \in 1 .. Len(e) : (c.domain \o e)[Len(c.domain) + i] = e[i]
      <4>1. e \in Seq(Pieces) /\ c.domain \in Seq(Pieces)
        BY <1>2, <1>3
      <4> QED
        BY <4>1, Joined
    <3> QED
      BY <1>2, <3>1
  <2> QED
    BY <2>1 DEF Body, e
<1> HIDE DEF b
<1>5. \A i \in 1 .. d : b[i] = c.domain[i] /\ b[i] \notin Marks
  BY <1>4, CookieParts
<1>6. b[1] \notin Marks
  BY <1>3, <1>5
<1>7. /\ b[d + 1] = e[1] /\ b[d + 2] = e[2] /\ b[d + 3] = e[3] /\ b[d + 4] = e[4]
      /\ b[d + 5] = e[5] /\ b[d + 6] = e[6] /\ b[d + 7] = e[7] /\ b[d + 8] = e[8]
      /\ b[d + 9] = e[9] /\ b[d + 10] = e[10] /\ b[d + 11] = e[11]
  BY <1>4
<1>8. Bool(c.secure) # "tab" /\ Number(c.expires) \notin Marks /\ c.name \notin Marks
  BY <1>1, CookieParts
<1> HIDE DEF d
<1>9. /\ b \in Seq(Pieces) /\ Len(b) = d + 11 /\ b[1] \notin Marks
      /\ \A i \in 1 .. d : b[i] = c.domain[i] /\ b[i] \notin Marks
      /\ b[d + 1] = "tab" /\ b[d + 3] = "tab" /\ b[d + 5] = "tab" /\ b[d + 7] = "tab"
      /\ b[d + 9] = "tab" /\ b[d + 11] = "tab"
      /\ b[d + 2] # "tab" /\ b[d + 4] # "tab"
      /\ b[d + 6] = Bool(c.secure) /\ b[d + 6] # "tab"
      /\ b[d + 8] = Number(c.expires) /\ b[d + 8] \notin Marks
      /\ b[d + 10] = c.name /\ b[d + 10] \notin Marks
  BY <1>2, <1>4, <1>5, <1>6, <1>7, <1>8
<1> QED
  BY <1>9 DEF b, d

-----------------------------------------------------------------------------
\* The parts of a line with the value w after its last tab
LEMMA TabsOf ==
  ASSUME NEW c \in BrowserCookie, NEW w \in Seq(Pieces), NEW i \in 1 .. Len(Body(c) \o w),
         (Body(c) \o w)[i] = "tab"
  PROVE  LET d == Len(c.domain)
         IN  \/ i \in {d + 1, d + 3, d + 5, d + 7, d + 9, d + 11}
             \/ i - (d + 11) \in 1 .. Len(w) /\ w[i - (d + 11)] = "tab"
<1> DEFINE d == Len(c.domain)  b == Body(c)
<1>1. d \in Nat /\ b \in Seq(Pieces) /\ Len(b) = d + 11 /\ Len(w) \in Nat /\ i \in 1 .. d + 11 + Len(w)
  <2>1. d \in Nat /\ b \in Seq(Pieces) /\ Len(b) = d + 11
    BY CookieParts, BodyParts
  <2>2. i \in 1 .. Len(b \o w)
    OBVIOUS
  <2> HIDE DEF b, d
  <2>3. Len(b \o w) = Len(b) + Len(w) /\ Len(w) \in Nat
    BY <2>1, Joined
  <2> QED
    BY <2>1, <2>2, <2>3
<1>2. \/ i \in 1 .. d
      \/ i \in {d + 1, d + 2, d + 3, d + 4, d + 5, d + 6, d + 7, d + 8, d + 9, d + 10, d + 11}
      \/ i - (d + 11) \in 1 .. Len(w) /\ i = d + 11 + (i - (d + 11))
  <2> HIDE DEF b, d
  <2> QED
    BY <1>1
<1>3. \A j \in 1 .. d + 11 : (b \o w)[j] = b[j]
  BY <1>1, Joined
<1>4. \A j \in 1 .. Len(w) : (b \o w)[d + 11 + j] = w[j]
  BY <1>1, Joined
<1>5. /\ \A j \in 1 .. d : b[j] # "tab"
      /\ b[d + 2] # "tab" /\ b[d + 4] # "tab" /\ b[d + 6] # "tab" /\ b[d + 8] # "tab" /\ b[d + 10] # "tab"
  BY BodyParts DEF Marks
<1>6. CASE i \in 1 .. d
  <2> HIDE DEF b, d
  <2>1. i \in 1 .. d + 11
    BY <1>1, <1>6
  <2>2. b[i] = "tab"
    BY <1>3, <2>1 DEF b
  <2> QED
    BY <1>5, <1>6, <2>2
<1>7. CASE i \in {d + 1, d + 2, d + 3, d + 4, d + 5, d + 6, d + 7, d + 8, d + 9, d + 10, d + 11}
  <2> HIDE DEF b, d
  <2>0. i \in 1 .. d + 11
    BY <1>1, <1>7
  <2>1. (b \o w)[i] = b[i]
    BY <1>3, <2>0
  <2>2. b[i] = "tab"
    BY <2>1 DEF b
  <2>3. i \notin {d + 2, d + 4, d + 6, d + 8, d + 10}
    BY <1>5, <2>2
  <2>4. i \in {d + 1, d + 3, d + 5, d + 7, d + 9, d + 11}
    BY <1>7, <2>3
  <2> QED
    BY <2>4 DEF d
<1>8. CASE i - (d + 11) \in 1 .. Len(w) /\ i = d + 11 + (i - (d + 11))
  <2>1. (b \o w)[d + 11 + (i - (d + 11))] = w[i - (d + 11)]
    BY <1>4, <1>8
  <2> QED
    BY <1>8, <2>1
<1> QED
  BY <1>2, <1>6, <1>7, <1>8

\* The tabs of the body are there whatever follows it
LEMMA BodyTabs ==
  ASSUME NEW c \in BrowserCookie, NEW w \in Seq(Pieces)
  PROVE  LET d == Len(c.domain)
         IN  {0, d + 1, d + 3, d + 5, d + 7, d + 9, d + 11, d + 12 + Len(w)} \subseteq Bars(Body(c) \o w)
<1> DEFINE d == Len(c.domain)  b == Body(c)  t == b \o w
<1>1. /\ d \in Nat /\ b \in Seq(Pieces) /\ Len(b) = d + 11 /\ Len(t) = d + 11 + Len(w)
      /\ t \in Seq(Pieces) /\ Len(w) \in Nat
  <2>1. d \in Nat /\ b \in Seq(Pieces) /\ Len(b) = d + 11
    BY CookieParts, BodyParts
  <2> HIDE DEF b, d
  <2>2. b \o w \in Seq(Pieces) /\ Len(b \o w) = Len(b) + Len(w) /\ Len(w) \in Nat
    BY <2>1, Joined
  <2> QED
    BY <2>1, <2>2
<1>2. \A j \in 1 .. d + 11 : t[j] = b[j]
  BY <1>1, Joined
<1>3. /\ b[d + 1] = "tab" /\ b[d + 3] = "tab" /\ b[d + 5] = "tab" /\ b[d + 7] = "tab"
      /\ b[d + 9] = "tab" /\ b[d + 11] = "tab"
  BY BodyParts
<1> HIDE DEF d, b, t
<1>4. /\ t[d + 1] = "tab" /\ t[d + 3] = "tab" /\ t[d + 5] = "tab" /\ t[d + 7] = "tab"
      /\ t[d + 9] = "tab" /\ t[d + 11] = "tab"
  BY <1>1, <1>2, <1>3
<1>5. DOMAIN t = 1 .. d + 11 + Len(w)
  BY <1>1
<1>6. {0, d + 1, d + 3, d + 5, d + 7, d + 9, d + 11, d + 12 + Len(w)} \subseteq Bars(t)
  BY <1>1, <1>4, <1>5 DEF Bars
<1> QED
  BY <1>6 DEF d, b, t

LEMMA EightBars ==
  ASSUME NEW d \in Nat, NEW k \in Nat, NEW p,
         p = <<0, d + 1, d + 3, d + 5, d + 7, d + 9, d + 11, d + 12 + k>>
  PROVE  /\ p \in [1 .. 8 -> Int]
         /\ \A i, j \in 1 .. 8 : i < j => p[i] < p[j]
         /\ {p[i] : i \in 1 .. 8} = {0, d + 1, d + 3, d + 5, d + 7, d + 9, d + 11, d + 12 + k}
<1>1. /\ p[1] = 0 /\ p[2] = d + 1 /\ p[3] = d + 3 /\ p[4] = d + 5 /\ p[5] = d + 7
      /\ p[6] = d + 9 /\ p[7] = d + 11 /\ p[8] = d + 12 + k /\ DOMAIN p = 1 .. 8
  OBVIOUS
<1>2. 1 .. 8 = {1, 2, 3, 4, 5, 6, 7, 8}
  OBVIOUS
<1>3. \A i \in 1 .. 8 : p[i] \in Int
  BY <1>1, <1>2
<1>4. p \in [1 .. 8 -> Int]
  <2>1. p \in Seq(Int)
    OBVIOUS
  <2> QED
    BY <1>1, <1>3, <2>1
<1>5. \A i, j \in {1, 2, 3, 4, 5, 6, 7, 8} : i < j => p[i] < p[j]
  BY <1>1
<1>6. {p[i] : i \in {1, 2, 3, 4, 5, 6, 7, 8}} = {0, d + 1, d + 3, d + 5, d + 7, d + 9, d + 11, d + 12 + k}
  BY <1>1
<1> QED
  BY <1>2, <1>4, <1>5, <1>6

\* Without a tab in w there are seven parts
LEMMA SevenParts ==
  ASSUME NEW c \in BrowserCookie, NEW w \in Seq(Pieces), \A i \in 1 .. Len(w) : w[i] # "tab"
  PROVE  LET part == Split(Body(c) \o w)
         IN  /\ Len(part) = 7 /\ part[1] = c.domain /\ part[4] = <<Bool(c.secure)>>
             /\ part[5] = <<Number(c.expires)>> /\ part[6] = <<c.name>> /\ part[7] = w
<1> DEFINE d == Len(c.domain)  b == Body(c)  t == b \o w  k == Len(w)
           p == <<0, d + 1, d + 3, d + 5, d + 7, d + 9, d + 11, d + 12 + k>>
<1>1. /\ d \in Nat /\ b \in Seq(Pieces) /\ Len(b) = d + 11 /\ k \in Nat
      /\ c.domain \in Seq(Pieces)
  BY CookieParts, BodyParts
<1>2. /\ \A j \in 1 .. d : b[j] = c.domain[j]
      /\ b[d + 6] = Bool(c.secure) /\ b[d + 8] = Number(c.expires) /\ b[d + 10] = c.name
  BY BodyParts
<1>3. \A i \in 1 .. Len(t) : t[i] = "tab" =>
        i \in {d + 1, d + 3, d + 5, d + 7, d + 9, d + 11}
  BY TabsOf
<1>4. {0, d + 1, d + 3, d + 5, d + 7, d + 9, d + 11, d + 12 + k} \subseteq Bars(t)
  BY BodyTabs
<1> HIDE DEF d, b, k
<1>5. /\ t \in Seq(Pieces) /\ Len(t) = d + 11 + k /\ \A j \in 1 .. d + 11 : t[j] = b[j]
      /\ \A j \in 1 .. k : t[d + 11 + j] = w[j]
  <2>1. /\ t \in Seq(Pieces) /\ Len(t) = Len(b) + Len(w) /\ \A j \in 1 .. Len(b) : t[j] = b[j]
        /\ \A j \in 1 .. Len(w) : t[Len(b) + j] = w[j]
    <3>1. b \in Seq(Pieces)
      BY <1>1
    <3> QED
      BY <3>1, Joined
  <2> QED
    BY <1>1, <2>1 DEF k
<1> HIDE DEF t
<1>6. Bars(t) = {0, d + 1, d + 3, d + 5, d + 7, d + 9, d + 11, d + 12 + k}
  <2>1. Bars(t) \subseteq {0, d + 1, d + 3, d + 5, d + 7, d + 9, d + 11, d + 12 + k}
    <3>1. Len(t) + 1 = d + 12 + k /\ DOMAIN t = 1 .. Len(t)
      BY <1>1, <1>5
    <3> QED
      BY <1>3, <3>1 DEF Bars
  <2> QED
    BY <1>4, <2>1
<1>7. /\ p \in [1 .. 8 -> Int] /\ \A i, j \in 1 .. 8 : i < j => p[i] < p[j]
      /\ Bars(t) = {p[i] : i \in 1 .. 8}
  <2> HIDE DEF p
  <2>1. p = <<0, d + 1, d + 3, d + 5, d + 7, d + 9, d + 11, d + 12 + k>>
    BY DEF p
  <2> QED
    BY <1>1, <1>6, <2>1, EightBars
<1>8. Split(t) = [m \in 1 .. 8 - 1 |-> SubSeq(t, p[m] + 1, p[m + 1] - 1)]
  <2> HIDE DEF p
  <2> QED
    BY <1>7, SplitAt
<1> DEFINE part == Split(t)
<1>9. /\ Len(part) = 7 /\ part[1] = SubSeq(t, 1, d) /\ part[4] = SubSeq(t, d + 6, d + 6)
      /\ part[5] = SubSeq(t, d + 8, d + 8) /\ part[6] = SubSeq(t, d + 10, d + 10)
      /\ part[7] = SubSeq(t, d + 12, d + 11 + k)
  <2>1. /\ p[1] = 0 /\ p[2] = d + 1 /\ p[4] = d + 5 /\ p[5] = d + 7 /\ p[6] = d + 9
        /\ p[7] = d + 11 /\ p[8] = d + 12 + k
    OBVIOUS
  <2> HIDE DEF p
  <2>2. 8 - 1 = 7
    OBVIOUS
  <2>3. Len(part) = 7
    BY <1>8, <2>2
  <2>4. \A m \in 1 .. 7 : part[m] = SubSeq(t, p[m] + 1, p[m + 1] - 1)
    BY <1>8, <2>2
  <2>5. /\ part[1] = SubSeq(t, p[1] + 1, p[2] - 1) /\ part[4] = SubSeq(t, p[4] + 1, p[5] - 1)
        /\ part[5] = SubSeq(t, p[5] + 1, p[6] - 1) /\ part[6] = SubSeq(t, p[6] + 1, p[7] - 1)
        /\ part[7] = SubSeq(t, p[7] + 1, p[8] - 1)
    BY <2>4
  <2>6. /\ 0 + 1 = 1 /\ (d + 1) - 1 = d /\ (d + 5) + 1 = d + 6 /\ (d + 7) - 1 = d + 6
        /\ (d + 7) + 1 = d + 8 /\ (d + 9) - 1 = d + 8 /\ (d + 9) + 1 = d + 10
        /\ (d + 11) - 1 = d + 10 /\ (d + 11) + 1 = d + 12 /\ (d + 12 + k) - 1 = d + 11 + k
    BY <1>1
  <2> QED
    BY <2>1, <2>3, <2>5, <2>6
<1> HIDE DEF part
<1>10. part[1] = c.domain
  <2>1. SubSeq(t, 1, d) \in Seq(Pieces) /\ Len(SubSeq(t, 1, d)) = Len(c.domain)
    BY <1>1, <1>5 DEF d
  <2>2. \A i \in 1 .. d : SubSeq(t, 1, d)[i] = c.domain[i]
    BY <1>1, <1>2, <1>5
  <2> QED
    BY <1>1, <1>9, <2>1, <2>2, SeqEqual DEF d
<1>11. ASSUME NEW i \in {d + 6, d + 8, d + 10}
       PROVE  SubSeq(t, i, i) = <<b[i]>>
  <2>1. i \in 1 .. Len(t) /\ t[i] = b[i] /\ t[i] \in Pieces
    BY <1>1, <1>5
  <2>2. SubSeq(t, i, i) \in Seq(Pieces) /\ Len(SubSeq(t, i, i)) = 1 /\ SubSeq(t, i, i)[1] = t[i]
    BY <1>5, <2>1
  <2> QED
    BY <2>1, <2>2, Single
<1>12. part[7] = w
  <2> DEFINE u == SubSeq(t, d + 12, d + 11 + k)
  <2>1. u \in Seq(Pieces) /\ Len(u) = k /\ \A i \in 1 .. k : u[i] = t[d + 12 + i - 1]
    BY <1>1, <1>5
  <2>2. \A i \in 1 .. k : d + 12 + i - 1 = d + 11 + i
    BY <1>1
  <2> HIDE DEF u
  <2>3. \A i \in 1 .. k : u[i] = w[i]
    BY <1>5, <2>1, <2>2
  <2>4. u = w
    BY <2>1, <2>3, SeqEqual DEF k
  <2> QED
    BY <1>9, <2>4 DEF u
<1>13. /\ part[4] = <<Bool(c.secure)>> /\ part[5] = <<Number(c.expires)>> /\ part[6] = <<c.name>>
  BY <1>2, <1>9, <1>11
<1> QED
  BY <1>9, <1>10, <1>12, <1>13 DEF part, t, b

\* With a tab in w there are more
LEMMA ManyParts ==
  ASSUME NEW c \in BrowserCookie, NEW w \in Seq(Pieces), NEW l \in 1 .. Len(w), w[l] = "tab"
  PROVE  Len(Split(Body(c) \o w)) # 7
<1> DEFINE d == Len(c.domain)  b == Body(c)  t == b \o w  k == Len(w)
<1>1. d \in Nat /\ b \in Seq(Pieces) /\ Len(b) = d + 11 /\ k \in Nat /\ l \in 1 .. k
  BY CookieParts, BodyParts
<1>2. {0, d + 1, d + 3, d + 5, d + 7, d + 9, d + 11, d + 12 + k} \subseteq Bars(t)
  BY BodyTabs
<1> HIDE DEF d, b
<1>3. t \in Seq(Pieces) /\ Len(t) = d + 11 + k /\ t[d + 11 + l] = "tab"
  <2>1. b \in Seq(Pieces)
    BY <1>1
  <2>2. /\ b \o w \in Seq(Pieces) /\ Len(b \o w) = Len(b) + Len(w)
        /\ \A j \in 1 .. Len(w) : (b \o w)[Len(b) + j] = w[j]
    BY <2>1, Joined
  <2> QED
    BY <1>1, <2>2
<1> HIDE DEF t, k
<1>4. d + 11 + l \in Bars(t)
  <2>1. d + 11 + l \in DOMAIN t
    BY <1>1, <1>3
  <2> QED
    BY <1>3, <2>1 DEF Bars
<1>5. IsFiniteSet(Bars(t))
  <2>1. Bars(t) \subseteq 0 .. d + 12 + k
    <3>1. DOMAIN t = 1 .. d + 11 + k /\ Len(t) + 1 = d + 12 + k
      BY <1>1, <1>3
    <3>2. \A i \in 1 .. d + 11 + k : i \in 0 .. d + 12 + k
      BY <1>1
    <3>3. 0 \in 0 .. d + 12 + k /\ d + 12 + k \in 0 .. d + 12 + k
      BY <1>1
    <3> QED
      BY <3>1, <3>2, <3>3 DEF Bars
  <2>2. IsFiniteSet(0 .. d + 12 + k)
    <3>1. 0 \in Int /\ d + 12 + k \in Int
      BY <1>1
    <3> QED
      BY <3>1, FS_Interval
  <2> QED
    BY <2>1, <2>2, FS_Subset
<1> DEFINE P == {0, d + 1, d + 3, d + 5, d + 7, d + 9, d + 11, d + 12 + k}
<1>6. IsFiniteSet(P) /\ Cardinality(P) = 8
  <2> DEFINE p == <<0, d + 1, d + 3, d + 5, d + 7, d + 9, d + 11, d + 12 + k>>
  <2>1. /\ p \in [1 .. 8 -> Int] /\ \A i, j \in 1 .. 8 : i < j => p[i] < p[j]
        /\ P = {p[i] : i \in 1 .. 8}
    BY <1>1, EightBars
  <2> HIDE DEF p, P
  <2>2. 8 \in 0 .. 8 /\ 8 \in Nat
    OBVIOUS
  <2> QED
    BY <2>1, <2>2, Counted
<1>7. d + 11 + l \notin P
  BY <1>1
<1>8. P \cup {d + 11 + l} \subseteq Bars(t)
  BY <1>2, <1>4
<1> HIDE DEF P
<1>9. Cardinality(P \cup {d + 11 + l}) = 9
  <2> DEFINE x == d + 11 + l
  <2>1. x \notin P
    BY <1>7
  <2> HIDE DEF x
  <2>2. Cardinality(P \cup {x}) = 8 + 1
    BY <1>6, <2>1, FS_AddElement
  <2> QED
    BY <2>2 DEF x
<1>10. Cardinality(Bars(t)) \in Nat /\ 9 <= Cardinality(Bars(t))
  <2>1. Cardinality(P \cup {d + 11 + l}) <= Cardinality(Bars(t))
    BY <1>5, <1>8, FS_Subset
  <2> QED
    BY <1>5, <1>9, <2>1, FS_CardinalityType
<1>11. Len(Split(t)) = Cardinality(Bars(t)) - 1
  BY <1>10 DEF Split
<1>12. Len(Split(t)) # 7
  BY <1>10, <1>11
<1> QED
  BY <1>12 DEF t, b

\* A line whose value is blank is cut after the name, and has one part less
LEMMA SixParts ==
  ASSUME NEW c \in BrowserCookie
  PROVE  Len(Split(SubSeq(Body(c), 1, Len(c.domain) + 10))) = 6
<1> DEFINE d == Len(c.domain)  b == Body(c)  t == SubSeq(b, 1, d + 10)
           p == <<0, d + 1, d + 3, d + 5, d + 7, d + 9, d + 11>>
<1>1. d \in Nat /\ b \in Seq(Pieces) /\ Len(b) = d + 11
  BY CookieParts, BodyParts
<1>2. /\ \A j \in 1 .. d : b[j] # "tab"
      /\ b[d + 2] # "tab" /\ b[d + 4] # "tab" /\ b[d + 6] # "tab" /\ b[d + 8] # "tab" /\ b[d + 10] # "tab"
      /\ b[d + 1] = "tab" /\ b[d + 3] = "tab" /\ b[d + 5] = "tab" /\ b[d + 7] = "tab" /\ b[d + 9] = "tab"
  BY BodyParts DEF Marks
<1> HIDE DEF d, b
<1>3. /\ t \in Seq(Pieces) /\ Len(t) = d + 10 /\ DOMAIN t = 1 .. d + 10
      /\ \A j \in 1 .. d + 10 : t[j] = b[j]
  BY <1>1
<1> HIDE DEF t
<1>4. Bars(t) = {0, d + 1, d + 3, d + 5, d + 7, d + 9, d + 11}
  <2>1. ASSUME NEW j \in 1 .. d + 10, t[j] = "tab"
        PROVE  j \in {d + 1, d + 3, d + 5, d + 7, d + 9}
    <3>1. b[j] = "tab" /\ j \notin 1 .. d
      BY <1>2, <1>3, <2>1
    <3>2. j \in {d + 1, d + 2, d + 3, d + 4, d + 5, d + 6, d + 7, d + 8, d + 9, d + 10}
      BY <1>1, <3>1
    <3> QED
      BY <1>2, <3>1, <3>2
  <2>2. /\ d + 1 \in DOMAIN t /\ d + 3 \in DOMAIN t /\ d + 5 \in DOMAIN t /\ d + 7 \in DOMAIN t
        /\ d + 9 \in DOMAIN t
    BY <1>1, <1>3
  <2>3. t[d + 1] = "tab" /\ t[d + 3] = "tab" /\ t[d + 5] = "tab" /\ t[d + 7] = "tab" /\ t[d + 9] = "tab"
    BY <1>2, <1>3, <2>2
  <2>4. Len(t) + 1 = d + 11
    BY <1>1, <1>3
  <2>5. {i \in DOMAIN t : t[i] = "tab"} = {d + 1, d + 3, d + 5, d + 7, d + 9}
    BY <1>3, <2>1, <2>2, <2>3
  <2> QED
    BY <2>4, <2>5 DEF Bars
<1>5. /\ p[1] = 0 /\ p[2] = d + 1 /\ p[3] = d + 3 /\ p[4] = d + 5 /\ p[5] = d + 7 /\ p[6] = d + 9
      /\ p[7] = d + 11 /\ DOMAIN p = 1 .. 7
  OBVIOUS
<1>6. p \in [1 .. 7 -> Int]
  <2>1. p \in Seq(Int) /\ Len(p) = 7
    BY <1>1
  <2> QED
    BY <2>1
<1> HIDE DEF p
<1>7. 1 .. 7 = {1, 2, 3, 4, 5, 6, 7}
  OBVIOUS
<1>8. \A i, j \in 1 .. 7 : i < j => p[i] < p[j]
  <2>1. \A i, j \in {1, 2, 3, 4, 5, 6, 7} : i < j => p[i] < p[j]
    BY <1>1, <1>5
  <2> QED
    BY <1>7, <2>1
<1>9. Bars(t) = {p[i] : i \in 1 .. 7}
  BY <1>4, <1>5, <1>7
<1>10. Split(t) = [m \in 1 .. 7 - 1 |-> SubSeq(t, p[m] + 1, p[m + 1] - 1)]
  BY <1>6, <1>8, <1>9, SplitAt
<1>11. Len(Split(t)) = 6
  BY <1>10
<1> QED
  BY <1>11 DEF t, b, d

-----------------------------------------------------------------------------
\* Parsing undoes the writing of a line
Mark(c) == IF c.http_only THEN <<"#HttpOnly_">> ELSE <<>>

LEMMA LineIs ==
  ASSUME NEW c \in BrowserCookie
  PROVE  NetscapeLine(c) = (Mark(c) \o Body(c)) \o c.value
<1>1. c.domain \in Seq(Pieces) /\ Fields(c) \in Seq(Pieces)
  <2>1. Number(c.expires) \in Pieces /\ c.name \in Pieces
    <3>1. c.expires \in Numbers \cup {None}
      BY CookieParts
    <3> QED
      BY <3>1, NumberType, CookieParts
  <2>2. Bool(c.secure) \in Pieces /\ Bool(Head(c.domain) = ".") \in Pieces
    BY CookieParts, PieceAssumption, Zenon DEF Bool
  <2>3. Fields(c) \in Seq(Pieces)
    BY <2>1, <2>2, Eleven DEF Fields
  <2> QED
    BY <2>3, CookieParts
<1>2. Mark(c) \in Seq(Pieces)
  BY PieceAssumption DEF Mark, Marks
<1>3. (Mark(c) \o c.domain) \o Fields(c) = Mark(c) \o (c.domain \o Fields(c))
  <2> DEFINE x == Mark(c)  y == c.domain  z == Fields(c)
  <2>1. x \in Seq(Pieces) /\ y \in Seq(Pieces) /\ z \in Seq(Pieces)
    BY <1>1, <1>2
  <2> HIDE DEF x, y, z
  <2>2. (x \o y) \o z = x \o (y \o z)
    BY <2>1, ConcatAssociative
  <2> QED
    BY <2>2 DEF x, y, z
<1> QED
  BY <1>3 DEF NetscapeLine, Mark, Fields, Body

\* What is left of a line without the blanks at its end and the mark
LEMMA Stripped ==
  ASSUME NEW c \in BrowserCookie
  PROVE  LET t == Trim(NetscapeLine(c))
             rest == IF Solid(c.value) = {} THEN SubSeq(Body(c), 1, Len(c.domain) + 10)
                     ELSE Body(c) \o TrimEnd(c.value)
         IN  IF c.http_only
             THEN IsPrefix(<<"#HttpOnly_">>, t) /\ Tail(t) = rest
             ELSE ~IsPrefix(<<"#HttpOnly_">>, t) /\ t = rest /\ Head(t) # "#" /\ t # <<>>
<1> DEFINE b == Body(c)  m == Mark(c)  a == m \o b  v == c.value  d == Len(c.domain)
           t == Trim(NetscapeLine(c))
<1>1. /\ v \in Seq(Pieces) /\ d \in Nat /\ d >= 1 /\ b \in Seq(Pieces) /\ Len(b) = d + 11
      /\ b[1] \notin Marks /\ b[d + 10] \notin Marks /\ b[d + 11] = "tab"
  BY CookieParts, BodyParts
<1>2. m \in Seq(Pieces) /\ m = IF c.http_only THEN <<"#HttpOnly_">> ELSE <<>>
  BY PieceAssumption DEF Mark, Marks
<1>3. NetscapeLine(c) = a \o v
  BY LineIs
<1> HIDE DEF b, m, v, d, t
<1>4. /\ a \in Seq(Pieces) /\ DOMAIN a = 1 .. Len(a) /\ Len(a) = Len(m) + Len(b)
      /\ Len(m) \in {0, 1} /\ \A i \in 1 .. Len(m) : a[i] = m[i]
      /\ \A i \in 1 .. Len(b) : a[Len(m) + i] = b[i]
  <2>1. Len(m) \in {0, 1}
    BY <1>2
  <2>2. b \in Seq(Pieces) /\ m \in Seq(Pieces)
    BY <1>1, <1>2
  <2> QED
    BY <2>1, <2>2, Joined
<1> DEFINE n == Len(m) + d + 10
<1>5. n \in Nat /\ n >= 1 /\ Len(a) = n + 1 /\ a[n] \notin {"space", "tab"} /\ a[n + 1] = "tab"
  <2>1. n = Len(m) + (d + 10) /\ n + 1 = Len(m) + (d + 11) /\ d + 10 \in 1 .. Len(b) /\ d + 11 \in 1 .. Len(b)
    BY <1>1, <1>4
  <2>2. n \in Nat /\ n >= 1 /\ Len(a) = n + 1
    BY <1>1, <1>4
  <2>3. a[n] = b[d + 10] /\ a[n + 1] = b[d + 11]
    <3>1. a[Len(m) + (d + 10)] = b[d + 10] /\ a[Len(m) + (d + 11)] = b[d + 11]
      BY <1>4, <2>1
    <3> HIDE DEF n
    <3> QED
      BY <2>1, <3>1
  <2> QED
    BY <1>1, <2>2, <2>3 DEF Marks
<1>6. a[1] = (IF c.http_only THEN "#HttpOnly_" ELSE b[1]) /\ a[1] \notin {"space", "tab"}
  <2>1. CASE c.http_only
    <3>1. Len(m) = 1 /\ m[1] = "#HttpOnly_"
      BY <1>2, <2>1
    <3> QED
      BY <1>4, <2>1, <3>1
  <2>2. CASE ~c.http_only
    <3>1. Len(m) = 0 /\ 1 \in 1 .. Len(b)
      BY <1>1, <1>2, <2>2
    <3>2. a[Len(m) + 1] = b[1] /\ Len(m) + 1 = 1
      BY <1>4, <3>1
    <3> QED
      BY <1>1, <2>2, <3>2 DEF Marks
  <2> QED
    BY <2>1, <2>2
<1> HIDE DEF n, a
<1>7. t = IF Solid(v) = {} THEN SubSeq(a, 1, n) ELSE a \o TrimEnd(v)
  <2> DEFINE x == a \o v
  <2>1. x \in Seq(Pieces) /\ Len(x) >= 1 /\ x[1] = a[1]
    <3>1. /\ a \o v \in Seq(Pieces) /\ Len(a \o v) = Len(a) + Len(v) /\ Len(v) \in Nat
          /\ \A i \in 1 .. Len(a) : (a \o v)[i] = a[i]
      <4>1. a \in Seq(Pieces) /\ v \in Seq(Pieces)
        BY <1>1, <1>4
      <4> QED
        BY <4>1, Joined
    <3> QED
      BY <1>5, <3>1
  <2>2. t = Trim(x)
    BY <1>3 DEF t, a
  <2> HIDE DEF x
  <2>3. Trim(x) = TrimEnd(x)
    BY <1>6, <2>1, TrimStart
  <2>4. TrimEnd(x) = IF Solid(v) = {} THEN SubSeq(a, 1, n) ELSE a \o TrimEnd(v)
    BY <1>1, <1>4, <1>5, TrimAfter DEF x
  <2> QED
    BY <2>2, <2>3, <2>4
<1> DEFINE rest == IF Solid(v) = {} THEN SubSeq(b, 1, d + 10) ELSE b \o TrimEnd(v)
<1>8. t = m \o rest
  <2>1. CASE Solid(v) = {}
    <3>1. d + 10 \in 0 .. Len(b) /\ n = Len(m) + (d + 10)
      BY <1>1, <1>4 DEF n
    <3>2. SubSeq(m \o b, 1, Len(m) + (d + 10)) = m \o SubSeq(b, 1, d + 10)
      BY <1>1, <1>2, <3>1, CutAfter
    <3> QED
      BY <1>7, <2>1, <3>1, <3>2 DEF a
  <2>2. CASE Solid(v) # {}
    <3> DEFINE w == TrimEnd(v)
    <3>1. w \in Seq(Pieces) /\ m \in Seq(Pieces) /\ b \in Seq(Pieces)
      BY <1>1, <1>2, TrimEndType
    <3> HIDE DEF w
    <3>2. (m \o b) \o w = m \o (b \o w)
      BY <3>1, ConcatAssociative
    <3> QED
      BY <1>7, <2>2, <3>2 DEF a, w
  <2> QED
    BY <2>1, <2>2
<1>9. rest \in Seq(Pieces) /\ Len(rest) >= 1 /\ rest[1] = b[1]
  <2>1. CASE Solid(v) = {}
    BY <1>1, <2>1
  <2>2. CASE Solid(v) # {}
    <3> DEFINE w == TrimEnd(v)
    <3>1. w \in Seq(Pieces) /\ b \in Seq(Pieces)
      BY <1>1, TrimEndType
    <3> HIDE DEF w
    <3>2. /\ b \o w \in Seq(Pieces) /\ Len(b \o w) = Len(b) + Len(w) /\ Len(w) \in Nat
          /\ \A i \in 1 .. Len(b) : (b \o w)[i] = b[i]
      BY <3>1, Joined
    <3>3. Len(b \o w) >= 1 /\ (b \o w)[1] = b[1]
      BY <1>1, <3>2
    <3> QED
      BY <2>2, <3>2, <3>3 DEF w
  <2> QED
    BY <2>1, <2>2
<1> HIDE DEF rest
<1>10. CASE c.http_only
  <2>1. t = <<"#HttpOnly_">> \o rest /\ "#HttpOnly_" \in Pieces
    BY <1>2, <1>8, <1>10, PieceAssumption DEF Marks
  <2>2. t \in Seq(Pieces) /\ Len(t) >= 1 /\ t[1] = "#HttpOnly_" /\ Tail(t) = rest
    BY <1>9, <2>1, TailIs
  <2>3. IsPrefix(<<"#HttpOnly_">>, t)
    BY <2>1, <2>2, FirstIs
  <2> QED
    BY <1>10, <2>2, <2>3 DEF t, rest, b, v, d
<1>11. CASE ~c.http_only
  <2>1. t = rest
    BY <1>2, <1>8, <1>9, <1>11
  <2>2. t[1] # "#HttpOnly_" /\ t[1] # "#" /\ "#HttpOnly_" \in Pieces
    BY <1>1, <1>9, <2>1, PieceAssumption DEF Marks
  <2>3. ~IsPrefix(<<"#HttpOnly_">>, t)
    BY <1>9, <2>1, <2>2, FirstIs
  <2>4. Head(t) = t[1] /\ t # <<>>
    BY <1>9, <2>1
  <2> QED
    BY <1>11, <2>1, <2>2, <2>3, <2>4 DEF t, rest, b, v, d
<1> QED
  BY <1>10, <1>11

LEMMA NumberComesBack ==
  ASSUME NEW e, e = None \/ (e \in Numbers /\ e > 0)
  PROVE  EpochSeconds(CHOOSE n \in Numbers : <<Number(n)>> = <<Number(e)>>) = e
<1> DEFINE z == IF e = None THEN 0 ELSE e
<1>1. z \in Numbers /\ z \in Int /\ Number(e) = ToString(z)
  BY NumberAssumption DEF Number
<1>2. ASSUME NEW n \in Numbers
      PROVE  <<Number(n)>> = <<Number(e)>> <=> n = z
  <2>1. Number(n) = ToString(n)
    BY NoneAssumption DEF Number
  <2>2. <<Number(n)>> = <<Number(e)>> <=> Number(n) = Number(e)
    OBVIOUS
  <2> HIDE DEF z
  <2> QED
    BY <1>1, <2>1, <2>2, NumberAssumption
<1>3. (CHOOSE n \in Numbers : <<Number(n)>> = <<Number(e)>>) = z
  <2> HIDE DEF z
  <2> QED
    BY <1>1, <1>2
<1>4. EpochSeconds(z) = e
  <2>1. CASE e = None
    BY <2>1 DEF EpochSeconds
  <2>2. CASE e \in Numbers /\ e > 0
    BY <2>2, NoneAssumption DEF EpochSeconds
  <2> QED
    BY <2>1, <2>2
<1> QED
  BY <1>3, <1>4

\* What a line keeps of a cookie, and which cookies have one
Restored(c) == [c EXCEPT !.value = TrimEnd(@)]
Writable(c) == Solid(c.value) # {} /\ "tab" \notin ToSet(TrimEnd(c.value))

LEMMA LineComesBack ==
  ASSUME NEW c \in BrowserCookie
  PROVE  ParseLine(NetscapeLine(c)) = IF Writable(c) THEN <<Restored(c)>> ELSE None
<1> DEFINE t == Trim(NetscapeLine(c))  H == <<"#HttpOnly_">>  v == c.value
           rest == IF Solid(v) = {} THEN SubSeq(Body(c), 1, Len(c.domain) + 10) ELSE Body(c) \o TrimEnd(v)
           part == Split(rest)
           line == IF IsPrefix(H, t) THEN Tail(t) ELSE t
           cookie(h) == [domain |-> part[1], secure |-> part[4] = <<"TRUE">>,
                         expires |-> EpochSeconds(CHOOSE n \in Numbers : <<Number(n)>> = part[5]),
                         name |-> Head(part[6]), value |-> part[7], http_only |-> h]
<1>1. /\ v \in Seq(Pieces) /\ TrimEnd(v) \in Seq(Pieces) /\ DOMAIN TrimEnd(v) = 1 .. Len(TrimEnd(v))
      /\ c.http_only \in BOOLEAN
  BY CookieParts, TrimEndType
<1>2. /\ IsPrefix(H, t) <=> c.http_only
      /\ line = rest
      /\ ~IsPrefix(H, t) => Head(line) # "#"
  <2>1. CASE c.http_only
    BY <2>1, Stripped
  <2>2. CASE ~c.http_only
    BY <2>2, Stripped
  <2> QED
    BY <1>1, <2>1, <2>2
<1>3. rest # <<>>
  <2>1. Body(c) \in Seq(Pieces) /\ Len(Body(c)) = Len(c.domain) + 11 /\ Len(c.domain) \in Nat
    BY BodyParts, CookieParts
  <2>2. Len(rest) # 0
    BY <1>1, <2>1
  <2> HIDE DEF rest
  <2> QED
    BY <2>2
<1>7. Len(part) # 7 => ParseLine(NetscapeLine(c)) = None
  <2> HIDE DEF t, rest
  <2> QED
    BY <1>2, <1>3 DEF ParseLine, t
<1>4. CASE Solid(v) = {}
  <2>1. Len(part) = 6
    BY <1>4, SixParts
  <2> HIDE DEF part
  <2> QED
    BY <1>4, <1>7, <2>1 DEF Writable
<1>5. CASE Solid(v) # {} /\ "tab" \in ToSet(TrimEnd(v))
  <2>1. PICK l \in 1 .. Len(TrimEnd(v)) : TrimEnd(v)[l] = "tab"
    BY <1>1, <1>5 DEF ToSet
  <2>2. Len(part) # 7
    BY <1>1, <1>5, <2>1, ManyParts
  <2> QED
    BY <1>5, <1>7, <2>2 DEF Writable
<1>6. CASE Solid(v) # {} /\ "tab" \notin ToSet(TrimEnd(v))
  <2>1. \A i \in 1 .. Len(TrimEnd(v)) : TrimEnd(v)[i] # "tab"
    BY <1>1, <1>6 DEF ToSet
  <2>2. rest = Body(c) \o TrimEnd(v)
    BY <1>6
  <2>3. /\ Len(part) = 7 /\ part[1] = c.domain /\ part[4] = <<Bool(c.secure)>>
        /\ part[5] = <<Number(c.expires)>> /\ part[6] = <<c.name>> /\ part[7] = TrimEnd(v)
    <3>1. /\ Len(Split(Body(c) \o TrimEnd(v))) = 7 /\ Split(Body(c) \o TrimEnd(v))[1] = c.domain
          /\ Split(Body(c) \o TrimEnd(v))[4] = <<Bool(c.secure)>>
          /\ Split(Body(c) \o TrimEnd(v))[5] = <<Number(c.expires)>>
          /\ Split(Body(c) \o TrimEnd(v))[6] = <<c.name>>
          /\ Split(Body(c) \o TrimEnd(v))[7] = TrimEnd(v)
      BY <1>1, <2>1, SevenParts
    <3> QED
      BY <2>2, <3>1
  <2>4. ParseLine(NetscapeLine(c)) = <<cookie(IsPrefix(H, t))>>
    <3> HIDE DEF t, rest
    <3> QED
      BY <1>2, <1>3, <2>3 DEF ParseLine, t
  <2>5. cookie(c.http_only) = Restored(c)
    <3>1. (part[4] = <<"TRUE">>) = c.secure
      BY <2>3, CookieParts DEF Bool
    <3>2. EpochSeconds(CHOOSE n \in Numbers : <<Number(n)>> = part[5]) = c.expires
      <4>1. part[5] = <<Number(c.expires)>>
        BY <2>3
      <4> HIDE DEF part
      <4> QED
        BY <4>1, CookieParts, NumberComesBack
    <3>3. Head(part[6]) = c.name
      BY <2>3
    <3>4. c \in Cookie
      BY CookieParts
    <3> HIDE DEF part
    <3> QED
      BY <2>3, <3>1, <3>2, <3>3, <3>4 DEF Restored, Cookie
  <2>6. IsPrefix(H, t) = c.http_only
    BY <1>1, <1>2 DEF IsPrefix
  <2> QED
    BY <1>6, <2>4, <2>5, <2>6 DEF Writable
<1> QED
  BY <1>4, <1>5, <1>6

-----------------------------------------------------------------------------
\* Parsing undoes the writing of a file
IsFlat(f, G) == f = [i \in 1 .. Len(G) |-> IF i = 1 THEN G[i] ELSE f[i - 1] \o G[i]]

\* By taking the least place where two of them differ
LEMMA FlatUnique ==
  ASSUME NEW G, Len(G) \in Nat, NEW f, NEW g, IsFlat(f, G), IsFlat(g, G)
  PROVE  \A i \in 1 .. Len(G) : f[i] = g[i]
<1> DEFINE T == {i \in 1 .. Len(G) : f[i] # g[i]}
<1> SUFFICES ASSUME T # {}
             PROVE  FALSE
  OBVIOUS
<1>1. T \subseteq Nat
  OBVIOUS
<1>2. PICK x \in T : \A y \in T : x <= y
  <2> HIDE DEF T
  <2> QED
    BY <1>1, Least
<1>3. x # 1
  BY <1>2 DEF IsFlat
<1>4. x - 1 \in 1 .. Len(G) /\ x - 1 \notin T
  BY <1>2, <1>3
<1>5. f[x - 1] = g[x - 1]
  BY <1>4
<1>6. f[x] = f[x - 1] \o G[x] /\ g[x] = g[x - 1] \o G[x]
  BY <1>2, <1>3 DEF IsFlat
<1> QED
  BY <1>2, <1>5, <1>6

\* One cookie after the other, with nothing in front
LEMMA FlattenCookies ==
  ASSUME NEW S, NEW r \in Seq(S), NEW G,
         G = [i \in 1 .. Len(r) + 1 |-> IF i = 1 THEN <<>> ELSE <<r[i - 1]>>]
  PROVE  FlattenSeq(G) = r
<1> DEFINE n == Len(r) + 1
           g == [i \in 1 .. n |-> SubSeq(r, 1, i - 1)]
<1>1. n \in Nat /\ n >= 1 /\ Len(G) = n /\ n \in 1 .. n
  OBVIOUS
<1>2. IsFlat(g, G)
  <2>1. ASSUME NEW i \in 1 .. n
        PROVE  g[i] = IF i = 1 THEN G[i] ELSE g[i - 1] \o G[i]
    <3>1. CASE i = 1
      BY <3>1
    <3>2. CASE i # 1
      <4>1. i - 1 \in 1 .. Len(r) /\ i - 1 \in 1 .. n /\ 1 \in 1 .. Len(r) /\ (i - 1) - 1 = i - 2
        BY <3>2
      <4>2. SubSeq(r, 1, i - 1) = SubSeq(r, 1, (i - 1) - 1) \o <<r[i - 1]>>
        BY <4>1, SubSeqRecursiveSecond
      <4>3. g[i - 1] = SubSeq(r, 1, (i - 1) - 1) /\ G[i] = <<r[i - 1]>> /\ g[i] = SubSeq(r, 1, i - 1)
        BY <3>2, <4>1
      <4> QED
        BY <3>2, <4>2, <4>3
    <3> QED
      BY <3>1, <3>2
  <2>2. g = [i \in 1 .. n |-> g[i]]
    OBVIOUS
  <2> HIDE DEF g, n
  <2>3. g = [i \in 1 .. n |-> IF i = 1 THEN G[i] ELSE g[i - 1] \o G[i]]
    BY <2>1, <2>2
  <2> QED
    BY <1>1, <2>3 DEF IsFlat
<1> DEFINE f == CHOOSE h : h = [i \in 1 .. Len(G) |-> IF i = 1 THEN G[i] ELSE h[i - 1] \o G[i]]
<1>3. FlattenSeq(G) = f[n]
  <2>1. FlattenSeq(G) = LET flatten[i \in 1 .. Len(G)] == IF i = 1 THEN G[i] ELSE flatten[i - 1] \o G[i]
                        IN  flatten[Len(G)]
    <3>1. Len(G) # 0
      BY <1>1
    <3> QED
      BY <3>1 DEF FlattenSeq
  <2>2. f[n] = f[Len(G)]
    BY <1>1
  <2> HIDE DEF n
  <2> QED
    BY <2>1, <2>2
<1>4. g[n] = r
  BY <1>1
<1> HIDE DEF n, g
<1>5. IsFlat(f, G)
  BY <1>2 DEF IsFlat
<1> HIDE DEF f
<1>6. f[n] = g[n]
  BY <1>1, <1>2, <1>5, FlatUnique
<1> QED
  BY <1>3, <1>4, <1>6

-----------------------------------------------------------------------------
\* What a cookie goes through keeps its essence
LEMMA HostIs ==
  ASSUME NEW t \in Seq(Pieces), \A i \in 1 .. Len(t) : t[i] \notin Marks,
         NEW j \in 1 .. Len(t), t[j] # "."
  PROVE  LET h == HostOf(t)
         IN  /\ h \in Seq(Pieces) /\ Len(h) >= 1 /\ h[1] # "." /\ HostOf(h) = h
             /\ \A i \in 1 .. Len(h) : h[i] \notin Marks
<1> DEFINE hosts(s) == {i \in 1 .. Len(s) : s[i] # "."}
           k == Min(hosts(t))  h == SubSeq(t, k, Len(t))
<1>1. k \in hosts(t) /\ k \in 1 .. Len(t)
  <2>1. hosts(t) \subseteq Nat /\ hosts(t) # {}
    OBVIOUS
  <2>2. k \in hosts(t)
    <3> HIDE DEF hosts
    <3> QED
      BY <2>1, MinIs
  <2> QED
    BY <2>2
<1>2. HostOf(t) = h
  BY <1>1 DEF HostOf, SelectInSeq
<1> HIDE DEF k
<1>3. /\ h \in Seq(Pieces) /\ Len(h) = Len(t) - k + 1 /\ Len(h) >= 1 /\ Len(h) \in Nat
      /\ \A i \in 1 .. Len(h) : h[i] = t[k + i - 1] /\ k + i - 1 \in 1 .. Len(t)
  BY <1>1
<1>4. h[1] # "."
  <2>1. 1 \in 1 .. Len(h) /\ k + 1 - 1 = k
    BY <1>1, <1>3
  <2> QED
    BY <1>1, <1>3, <2>1
<1>5. \A i \in 1 .. Len(h) : h[i] \notin Marks
  BY <1>3
<1> HIDE DEF h
<1>6. HostOf(h) = h
  <2>1. Min(hosts(h)) = 1
    <3>1. hosts(h) \subseteq Nat /\ 1 \in hosts(h) /\ \A y \in hosts(h) : 1 <= y
      BY <1>3, <1>4
    <3> HIDE DEF hosts
    <3> QED
      BY <3>1, MinIsThe
  <2>2. hosts(h) # {}
    BY <1>3, <1>4
  <2>3. HostOf(h) = SubSeq(h, Min(hosts(h)), Len(h))
    BY <2>2 DEF HostOf, SelectInSeq
  <2> HIDE DEF hosts
  <2> QED
    BY <1>3, <2>1, <2>3
<1> QED
  BY <1>2, <1>3, <1>4, <1>5, <1>6

LEMMA KeepsEssence ==
  ASSUME NEW c \in BrowserCookie, NEW e \in Cookie,
         e.name = c.name, e.secure = c.secure, e.http_only = c.http_only, e.expires = c.expires,
         e.value = c.value \/ e.value = TrimEnd(c.value),
         e.domain = c.domain \/ (c.name \in HostNames /\ e.domain = HostOf(c.domain))
  PROVE  e \in BrowserCookie /\ Essence(e) = Essence(c)
<1> DEFINE v == e.value  d == e.domain
<1>0. v \in Seq(Pieces) /\ d \in Seq(Pieces)
  BY DEF Cookie
<1>1. /\ c \in Cookie /\ c.value \in Seq(Pieces) /\ c.domain \in Seq(Pieces)
      /\ \A i \in 1 .. Len(c.domain) : c.domain[i] \notin Marks
  BY CookieParts
<1>2. PICK j \in 1 .. Len(c.domain) : c.domain[j] # "."
  BY CookieParts
<1>3. TrimEnd(v) = TrimEnd(c.value)
  BY <1>1, TrimEndType
<1>4. /\ HostOf(d) = HostOf(c.domain)
      /\ \A i \in 1 .. Len(d) : d[i] \notin Marks
      /\ \E i \in 1 .. Len(d) : d[i] # "."
  <2>1. CASE d = c.domain
    BY <1>1, <1>2, <2>1
  <2>2. CASE d = HostOf(c.domain)
    <3>1. d \in Seq(Pieces) /\ Len(d) >= 1 /\ d[1] # "." /\ HostOf(d) = d
          /\ \A i \in 1 .. Len(d) : d[i] \notin Marks
      BY <1>1, <1>2, <2>2, HostIs
    <3> QED
      BY <2>2, <3>1
  <2> QED
    BY <2>1, <2>2
<1>6. e \in BrowserCookie
  <2>1. ToSet(d) \cap Marks = {} /\ ToSet(d) \ {"."} # {}
    <3>1. DOMAIN d = 1 .. Len(d)
      BY <1>0
    <3> QED
      BY <1>4, <3>1 DEF ToSet
  <2>2. c.name \notin Marks /\ (c.name \in HostNames => c.secure)
    BY CookieParts
  <2> QED
    BY <2>1, <2>2 DEF BrowserCookie
<1>7. Essence(e) = Essence(c)
  <2> DEFINE x == TrimEnd(c.value)
             y == IF c.name \in HostNames THEN HostOf(c.domain) ELSE c.domain
  <2>1. Essence(c) = [c EXCEPT !.value = x, !.domain = y]
    BY DEF Essence
  <2>2. Essence(e) = [e EXCEPT !.value = x, !.domain = y]
    <3>1. Essence(e) = [e EXCEPT !.value = TrimEnd(v),
                                 !.domain = IF c.name \in HostNames THEN HostOf(d) ELSE d]
      BY DEF Essence
    <3>2. (IF c.name \in HostNames THEN HostOf(d) ELSE d) = y
      BY <1>4
    <3> HIDE DEF x, y
    <3> QED
      BY <1>3, <3>1, <3>2 DEF x
  <2> HIDE DEF x, y
  <2>3. [e EXCEPT !.value = x, !.domain = y] = [c EXCEPT !.value = x, !.domain = y]
    BY <1>1 DEF Cookie
  <2> QED
    BY <2>1, <2>2, <2>3
<1> QED
  BY <1>6, <1>7

\* From the file's expiry or the browser's to the jar's
Jarred(c) == [c EXCEPT !.expires = EpochSeconds(@)]

LEMMA JsonKeeps ==
  ASSUME NEW c \in BrowserCookie
  PROVE  Jarred(c) = c
<1>1. c \in Cookie /\ (c.expires = None \/ (c.expires \in Numbers /\ c.expires > 0))
  BY CookieParts
<1>2. EpochSeconds(c.expires) = c.expires
  BY <1>1, NoneAssumption, Zenon DEF EpochSeconds
<1> QED
  BY <1>1, <1>2 DEF Jarred, Cookie

LEMMA BrowserKeeps ==
  ASSUME NEW c \in BrowserCookie
  PROVE  LET b == Jarred(Stored(CdpCookieParams(c)))
         IN  b \in BrowserCookie /\ Essence(b) = Essence(c)
<1> DEFINE d == IF c.name \in HostNames THEN HostOf(c.domain) ELSE c.domain
           e == IF c.expires = None THEN -1 ELSE c.expires
<1>1. /\ c \in Cookie /\ c.value \in Seq(Pieces) /\ c.domain \in Seq(Pieces)
      /\ c.expires = None \/ (c.expires \in Numbers /\ c.expires > 0)
      /\ \A i \in 1 .. Len(c.domain) : c.domain[i] \notin Marks
  BY CookieParts
<1>2. PICK j \in 1 .. Len(c.domain) : c.domain[j] # "."
  BY CookieParts
<1>3. d \in Seq(Pieces)
  BY <1>1, <1>2, HostIs
<1>4. EpochSeconds(e) = c.expires
  <2>1. CASE c.expires = None
    <3>1. e = -1 /\ ~(e > 0)
      BY <2>1
    <3> QED
      BY <2>1, <3>1, Zenon DEF EpochSeconds
  <2>2. CASE c.expires # None
    <3>1. e = c.expires
      BY <2>2
    <3> QED
      BY <1>1, <2>2, <3>1, Zenon DEF EpochSeconds
  <2> QED
    BY <2>1, <2>2
<1>5. Stored(CdpCookieParams(c)) = [c EXCEPT !.domain = d, !.expires = e]
  BY <1>1, NoneAssumption DEF Stored, CdpCookieParams, Cookie
<1> HIDE DEF d, e
<1> DEFINE b == Jarred(Stored(CdpCookieParams(c)))
<1>6. b = [c EXCEPT !.domain = d]
  BY <1>1, <1>4, <1>5 DEF Jarred, Cookie
<1> HIDE DEF b
<1>7. /\ b \in Cookie /\ b.name = c.name /\ b.secure = c.secure /\ b.http_only = c.http_only
      /\ b.expires = c.expires /\ b.value = c.value /\ b.domain = d
  BY <1>1, <1>3, <1>6 DEF Cookie
<1>8. d = c.domain \/ (c.name \in HostNames /\ d = HostOf(c.domain))
  BY DEF d
<1>9. b \in BrowserCookie /\ Essence(b) = Essence(c)
  BY <1>7, <1>8, KeepsEssence
<1> QED
  BY <1>9 DEF b

LEMMA LineKeeps ==
  ASSUME NEW c \in BrowserCookie
  PROVE  Restored(c) \in BrowserCookie /\ Essence(Restored(c)) = Essence(c)
<1> DEFINE r == Restored(c)
<1>1. c \in Cookie /\ c.value \in Seq(Pieces) /\ TrimEnd(c.value) \in Seq(Pieces)
  BY CookieParts, TrimEndType
<1>2. /\ r \in Cookie /\ r.name = c.name /\ r.secure = c.secure /\ r.http_only = c.http_only
      /\ r.expires = c.expires /\ r.value = TrimEnd(c.value) /\ r.domain = c.domain
  BY <1>1 DEF Restored, Cookie
<1> HIDE DEF r
<1>3. r \in BrowserCookie /\ Essence(r) = Essence(c)
  BY <1>2, KeepsEssence
<1> QED
  BY <1>3 DEF r

\* What a netscape file holds of the cookies s, and what its parser gives
Written(s) == <<Header>> \o Map(NetscapeLine, s)

LEMMA FileComesBack ==
  ASSUME NEW s \in Seq(BrowserCookie), NEW f, f.kind = "netscape", f.content = Written(s)
  PROVE  ParseNetscape(f) = IF \A i \in 1 .. Len(s) : Writable(s[i]) THEN Map(Restored, s) ELSE None
<1> DEFINE n == Len(s)  l == Map(NetscapeLine, s)  w == <<Header>> \o l  G == Map(ParseLine, w)
<1>1. n \in Nat /\ DOMAIN s = 1 .. n /\ \A i \in 1 .. n : s[i] \in BrowserCookie
  OBVIOUS
<1>2. DOMAIN w = 1 .. n + 1 /\ w[1] = Header /\ \A i \in 1 .. n : w[i + 1] = NetscapeLine(s[i])
  <2> DEFINE T == {Header} \cup {NetscapeLine(s[i]) : i \in 1 .. n}
  <2>1. l \in Seq(T) /\ Len(l) = n /\ \A i \in 1 .. n : l[i] = NetscapeLine(s[i])
    BY <1>1 DEF Map
  <2>2. <<Header>> \in Seq(T) /\ Len(<<Header>>) = 1 /\ <<Header>>[1] = Header
    OBVIOUS
  <2> HIDE DEF l, T
  <2>3. /\ DOMAIN w = 1 .. 1 + n /\ \A i \in 1 .. 1 : w[i] = <<Header>>[i]
        /\ \A i \in 1 .. n : w[1 + i] = l[i]
    BY <2>1, <2>2, Joined
  <2> HIDE DEF w
  <2>4. 1 + n = n + 1 /\ \A i \in 1 .. n : 1 + i = i + 1
    BY <1>1
  <2> QED
    BY <2>1, <2>2, <2>3, <2>4
<1>3. ParseLine(Header) = <<>>
  <2> DEFINE t == Header
  <2>1. t \in Seq(Pieces) /\ Len(t) = 2 /\ t[1] = "#" /\ t[2] = "Netscape"
    BY PieceAssumption DEF Header, Marks
  <2> HIDE DEF t
  <2>2. Solid(t) = {1, 2}
    BY <2>1 DEF Solid
  <2>3. Max(Solid(t)) = 2
    <3> DEFINE S == Solid(t)
    <3>1. S \subseteq 1 .. 2 /\ 2 \in S /\ (\A y \in S : y <= 2) /\ 2 \in Nat
      BY <2>2
    <3> HIDE DEF S
    <3>2. Max(S) = 2
      BY <3>1, MaxIsThe
    <3> QED
      BY <3>2 DEF S
  <2>4. Trim(t) = t
    <3>1. Trim(t) = TrimEnd(t)
      BY <2>1, TrimStart
    <3> QED
      BY <2>1, <2>2, <2>3, <3>1 DEF TrimEnd
  <2>5. ~IsPrefix(<<"#HttpOnly_">>, t)
    BY <2>1, FirstIs, PieceAssumption DEF Marks
  <2>6. Head(t) = "#"
    BY <2>1
  <2> QED
    BY <2>4, <2>5, <2>6 DEF ParseLine, t
<1>4. /\ DOMAIN G = 1 .. n + 1 /\ G[1] = <<>>
      /\ \A i \in 1 .. n : G[i + 1] = IF Writable(s[i]) THEN <<Restored(s[i])>> ELSE None
  <2>1. DOMAIN G = 1 .. n + 1 /\ G[1] = ParseLine(w[1]) /\ \A i \in 1 .. n : G[i + 1] = ParseLine(w[i + 1])
    <3> HIDE DEF w
    <3> QED
      BY <1>1, <1>2 DEF Map
  <2> HIDE DEF w, G
  <2> QED
    BY <1>1, <1>2, <1>3, <2>1, LineComesBack
<1>5. ParseNetscape(f) = IF None \in ToSet(G) THEN None ELSE FlattenSeq(G)
  <2>1. f.content = w
    BY DEF Written
  <2> QED
    BY <2>1 DEF ParseNetscape
<1> HIDE DEF w, G
<1>6. CASE \A i \in 1 .. n : Writable(s[i])
  <2> DEFINE r == Map(Restored, s)
  <2>1. r \in Seq(Cookie) /\ Len(r) = n /\ \A i \in 1 .. n : r[i] = Restored(s[i])
    <3>1. \A i \in 1 .. n : Restored(s[i]) \in Cookie
      BY <1>1, LineKeeps, CookieParts
    <3> QED
      BY <1>1, <3>1 DEF Map
  <2> HIDE DEF r
  <2>2. G = [i \in 1 .. Len(r) + 1 |-> IF i = 1 THEN <<>> ELSE <<r[i - 1]>>]
    <3>1. ASSUME NEW i \in 1 .. n + 1, i # 1
          PROVE  G[i] = <<r[i - 1]>>
      <4>1. i - 1 \in 1 .. n /\ (i - 1) + 1 = i
        BY <1>1, <3>1
      <4> QED
        BY <1>4, <1>6, <2>1, <4>1
    <3>2. G = [i \in 1 .. n + 1 |-> G[i]]
      BY <1>4 DEF G, Map
    <3> QED
      BY <1>4, <2>1, <3>1, <3>2
  <2>3. None \notin ToSet(G)
    <3>1. ASSUME NEW i \in 1 .. n + 1
          PROVE  G[i] \in Seq(Cookie)
      <4>1. CASE i = 1
        <5>1. <<>> \in Seq(Cookie)
          OBVIOUS
        <5> QED
          BY <1>4, <4>1, <5>1, Zenon
      <4>2. CASE i # 1
        <5>1. i - 1 \in 1 .. n
          BY <1>1, <4>2
        <5>2. r[i - 1] \in Cookie
          BY <2>1, <5>1
        <5> QED
          BY <2>1, <2>2, <4>2, <5>2
      <4> QED
        BY <4>1, <4>2
    <3> QED
      BY <1>4, <3>1, NoneAssumption DEF ToSet
  <2>4. FlattenSeq(G) = r
    BY <2>1, <2>2, FlattenCookies
  <2> QED
    BY <1>5, <1>6, <2>3, <2>4 DEF r
<1>7. CASE \E i \in 1 .. n : ~Writable(s[i])
  <2>1. PICK i \in 1 .. n : ~Writable(s[i])
    BY <1>7
  <2>2. G[i + 1] = None /\ i + 1 \in 1 .. n + 1
    <3>1. i + 1 \in 1 .. n + 1
      BY <1>1
    <3>2. G[i + 1] = None
      BY <1>4, <2>1, Zenon
    <3> QED
      BY <3>1, <3>2
  <2>3. None \in ToSet(G)
    BY <1>4, <2>2 DEF ToSet
  <2> QED
    BY <1>5, <1>7, <2>3
<1> QED
  BY <1>6, <1>7

-----------------------------------------------------------------------------
\* Jars that hold the same cookies but for what need not survive
Alike(s, t) == Len(s) = Len(t) /\ \A i \in 1 .. Len(t) : Essence(s[i]) = Essence(t[i])

Formats == {"json", "netscape", "auto"}

LEMMA MapKeeps ==
  ASSUME NEW s \in Seq(BrowserCookie), NEW t, t = [i \in DOMAIN s |-> t[i]],
         \A i \in 1 .. Len(s) : t[i] \in BrowserCookie /\ Essence(t[i]) = Essence(s[i])
  PROVE  t \in Seq(BrowserCookie) /\ Alike(t, s) /\ t # None
<1>1. Len(s) \in Nat /\ DOMAIN s = 1 .. Len(s)
  OBVIOUS
<1>2. t \in Seq(BrowserCookie) /\ Len(t) = Len(s)
  BY <1>1
<1>3. t \in Seq(Cookie)
  <2>1. BrowserCookie \subseteq Cookie
    BY DEF BrowserCookie
  <2> QED
    BY <1>2, <2>1
<1> QED
  BY <1>2, <1>3, NoneAssumption DEF Alike

LEMMA WritableFromEssence ==
  ASSUME NEW c \in BrowserCookie, NEW e \in BrowserCookie, Essence(c) = Essence(e)
  PROVE  /\ Essence(c).value = TrimEnd(c.value)
         /\ Writable(c) <=> Writable(e)
<1>1. ASSUME NEW d \in BrowserCookie
      PROVE  Essence(d).value = TrimEnd(d.value) /\ (Solid(d.value) = {} <=> TrimEnd(d.value) = <<>>)
  <2>1. d \in Cookie /\ d.value \in Seq(Pieces)
    BY CookieParts
  <2>2. Solid(d.value) # {} => TrimEnd(d.value) # <<>>
    BY <2>1, TrimEndType
  <2>3. Solid(d.value) = {} => TrimEnd(d.value) = <<>>
    BY DEF TrimEnd
  <2>4. Essence(d).value = TrimEnd(d.value)
    BY <2>1 DEF Essence, Cookie
  <2> QED
    BY <2>2, <2>3, <2>4
<1>2. TrimEnd(c.value) = TrimEnd(e.value)
  BY <1>1
<1> QED
  BY <1>1, <1>2 DEF Writable

\* A file that holds s in one of the two ways
Holds(f, s) ==
  /\ f.kind \in {"json", "netscape"}
  /\ f.content = IF f.kind = "json" THEN s ELSE Written(s)

\* A parser gives the file's cookies or nothing, and nothing only for a reason
LEMMA ParsedAlike ==
  ASSUME NEW s \in Seq(BrowserCookie), NEW f, Holds(f, s), NEW format \in Formats,
         NEW p, p = ParseCookies(f, format)
  PROVE  /\ p # None => p \in Seq(BrowserCookie) /\ Alike(p, s)
         /\ p = None => \/ format \notin {"auto", f.kind}
                        \/ f.kind = "netscape" /\ \E i \in 1 .. Len(s) : ~Writable(s[i])
<1>0. DOMAIN s = 1 .. Len(s) /\ \A i \in 1 .. Len(s) : s[i] \in BrowserCookie
  OBVIOUS
<1>1. f.kind = "json" => ParseNetscape(f) = None /\ ParseJson(f) = s
  <2> SUFFICES ASSUME f.kind = "json"
               PROVE  ParseNetscape(f) = None /\ ParseJson(f) = s
    OBVIOUS
  <2>1. f.content = s
    BY DEF Holds
  <2>2. ParseJson(f) = [i \in DOMAIN s |-> Jarred(s[i])]
    BY <2>1 DEF ParseJson, Map, Jarred
  <2>3. ParseJson(f) = [i \in DOMAIN s |-> s[i]]
    BY <1>0, <2>2, JsonKeeps
  <2> QED
    BY <2>3 DEF ParseNetscape
<1>2. s # None
  <2>1. s = [i \in DOMAIN s |-> s[i]]
    OBVIOUS
  <2> QED
    BY <1>0, <2>1, MapKeeps
<1>3. f.kind = "netscape" =>
        /\ ParseJson(f) = None
        /\ \/ ParseNetscape(f) = None /\ \E i \in 1 .. Len(s) : ~Writable(s[i])
           \/ ParseNetscape(f) = Map(Restored, s)
  <2> SUFFICES ASSUME f.kind = "netscape"
               PROVE  /\ ParseJson(f) = None
                      /\ \/ ParseNetscape(f) = None /\ \E i \in 1 .. Len(s) : ~Writable(s[i])
                         \/ ParseNetscape(f) = Map(Restored, s)
    OBVIOUS
  <2>1. f.content = Written(s)
    BY DEF Holds
  <2>2. ParseNetscape(f) = IF \A i \in 1 .. Len(s) : Writable(s[i]) THEN Map(Restored, s) ELSE None
    BY <2>1, FileComesBack
  <2> QED
    BY <2>2 DEF ParseJson
<1>4. LET t == Map(Restored, s) IN t \in Seq(BrowserCookie) /\ Alike(t, s) /\ t # None
  <2> DEFINE t == Map(Restored, s)
  <2>1. t = [i \in DOMAIN s |-> t[i]] /\ \A i \in 1 .. Len(s) : t[i] = Restored(s[i])
    BY <1>0 DEF Map
  <2> HIDE DEF t
  <2>2. \A i \in 1 .. Len(s) : t[i] \in BrowserCookie /\ Essence(t[i]) = Essence(s[i])
    BY <1>0, <2>1, LineKeeps
  <2>3. t \in Seq(BrowserCookie) /\ Alike(t, s) /\ t # None
    BY <2>1, <2>2, MapKeeps
  <2> QED
    BY <2>3 DEF t
<1>5. Alike(s, s)
  BY DEF Alike
<1>6. f.kind \in {"json", "netscape"}
  BY DEF Holds
<1>7. /\ format = "json" => p = ParseJson(f)
      /\ format = "netscape" => p = ParseNetscape(f)
      /\ format = "auto" => p = IF ParseJson(f) # None THEN ParseJson(f) ELSE ParseNetscape(f)
  BY DEF ParseCookies
<1>8. CASE f.kind = "json"
  <2>1. p = s \/ (p = None /\ format = "netscape")
    BY <1>1, <1>2, <1>7, <1>8 DEF Formats
  <2> QED
    BY <1>2, <1>5, <1>8, <2>1
<1>9. CASE f.kind = "netscape"
  <2>1. \/ p = None /\ format = "json"
        \/ p = ParseNetscape(f) /\ format \in {"auto", "netscape"}
    BY <1>3, <1>7, <1>9 DEF Formats
  <2> QED
    BY <1>3, <1>4, <1>9, <2>1
<1> QED
  BY <1>6, <1>8, <1>9

-----------------------------------------------------------------------------
\* The inductive invariant: the jar, the file and the browser each hold the first cookies
Same(s) == s \in Seq(BrowserCookie) /\ Alike(s, first)
InBrowser(c) == Stored(CdpCookieParams(c))

JarHolds == first \in Seq(BrowserCookie) /\ Same(jar)
FileHolds == file # None => \E s \in Seq(BrowserCookie) : Alike(s, first) /\ Holds(file, s)
BrowserHolds ==
  browser # None => \E s \in Seq(BrowserCookie) : Alike(s, first) /\ browser = Map(InBrowser, s)

IInv == JarHolds /\ FileHolds /\ BrowserHolds

LEMMA InitIInv == Init => IInv
<1> SUFFICES ASSUME Init
             PROVE  IInv
  OBVIOUS
<1>1. jar \in Seq(BrowserCookie) /\ first = jar /\ file = None /\ browser = None
  BY JarAssumption DEF Init
<1> QED
  BY <1>1 DEF IInv, JarHolds, FileHolds, BrowserHolds, Same, Alike

LEMMA ExportKeeps ==
  ASSUME IInv, NEW kind \in {"json", "netscape"}, NEW ext, Export(kind, ext)
  PROVE  IInv'
<1>1. /\ file'.kind = kind
      /\ file'.content = IF kind = "json" THEN jar ELSE Written(jar)
      /\ jar' = jar /\ first' = first /\ browser' = browser
  BY DEF Export, Written
<1>2. Holds(file', jar)
  BY <1>1 DEF Holds
<1> QED
  BY <1>1, <1>2 DEF IInv, JarHolds, FileHolds, BrowserHolds, Same

LEMMA ImportKeeps ==
  ASSUME IInv, NEW format \in Formats, Import(format)
  PROVE  IInv'
<1> DEFINE received == ParseCookies(file, DetectFormatFromName(file.ext))
<1>1. file # None /\ UNCHANGED <<first, file, browser>>
      /\ (jar' = jar \/ (jar' = received /\ received # None))
  BY DEF Import
<1>2. PICK s \in Seq(BrowserCookie) : Alike(s, first) /\ Holds(file, s)
  BY <1>1 DEF IInv, FileHolds
<1>3. DetectFormatFromName(file.ext) \in Formats
  BY DEF DetectFormatFromName, Formats
<1>4. received # None => received \in Seq(BrowserCookie) /\ Alike(received, s)
  BY <1>2, <1>3, ParsedAlike
<1> HIDE DEF received
<1>5. Same(jar')
  <2>1. CASE jar' = jar
    BY <2>1 DEF IInv, JarHolds
  <2>2. CASE jar' = received /\ received # None
    <3>1. Alike(received, first)
      BY <1>2, <1>4, <2>2 DEF Alike
    <3> QED
      BY <1>4, <2>2, <3>1 DEF Same
  <2> QED
    BY <1>1, <2>1, <2>2
<1> QED
  BY <1>1, <1>5 DEF IInv, JarHolds, FileHolds, BrowserHolds, Same

LEMMA InjectKeeps ==
  ASSUME IInv, InjectCookies
  PROVE  IInv'
<1>1. UNCHANGED <<jar, first, file>> /\ (browser' = browser
                                        \/ browser' = Map(Stored, Map(CdpCookieParams, jar)))
  BY DEF InjectCookies
<1>2. Map(Stored, Map(CdpCookieParams, jar)) = Map(InBrowser, jar)
  BY DEF Map, InBrowser
<1>3. jar \in Seq(BrowserCookie) /\ Alike(jar, first)
  BY DEF IInv, JarHolds, Same
<1> QED
  BY <1>1, <1>2, <1>3 DEF IInv, JarHolds, FileHolds, BrowserHolds, Same

LEMMA FetchKeeps ==
  ASSUME IInv, FetchCookies
  PROVE  IInv'
<1>1. browser # None /\ browser' = None /\ UNCHANGED <<first, file>>
      /\ jar' = [i \in DOMAIN browser |-> Jarred(browser[i])]
  BY DEF FetchCookies, Map, Jarred
<1>2. PICK s \in Seq(BrowserCookie) : Alike(s, first) /\ browser = Map(InBrowser, s)
  BY <1>1 DEF IInv, BrowserHolds
<1>3. DOMAIN s = 1 .. Len(s) /\ \A i \in 1 .. Len(s) : s[i] \in BrowserCookie
  OBVIOUS
<1> DEFINE t == jar'
<1>4. t = [i \in DOMAIN s |-> t[i]] /\ \A i \in 1 .. Len(s) : t[i] = Jarred(InBrowser(s[i]))
  BY <1>1, <1>2, <1>3 DEF Map
<1> HIDE DEF t
<1>5. \A i \in 1 .. Len(s) : t[i] \in BrowserCookie /\ Essence(t[i]) = Essence(s[i])
  BY <1>3, <1>4, BrowserKeeps DEF InBrowser
<1>6. t \in Seq(BrowserCookie) /\ Alike(t, s)
  BY <1>4, <1>5, MapKeeps
<1>7. Alike(t, first)
  BY <1>2, <1>6 DEF Alike
<1> QED
  BY <1>1, <1>6, <1>7 DEF IInv, JarHolds, FileHolds, BrowserHolds, Same, t

\* In every reachable state, the jar, the file and the browser hold the cookies that were
\* there at first, each in its own form (cookies.rs:22-134, gateway.rs:676-729).
THEOREM EachHoldsTheCookies == Spec => []IInv
<1>1. IInv /\ [Next]_vars => IInv'
  <2> SUFFICES ASSUME IInv, [Next]_vars
               PROVE  IInv'
    OBVIOUS
  <2>1. CASE \E kind \in {"json", "netscape"}, ext \in {"json", "txt", "cookies"} : Export(kind, ext)
    BY <2>1, ExportKeeps
  <2>2. CASE \E format \in {"json", "netscape", "auto"} : Import(format)
    BY <2>2, ImportKeeps DEF Formats
  <2>3. CASE InjectCookies
    BY <2>3, InjectKeeps
  <2>4. CASE FetchCookies
    BY <2>4, FetchKeeps
  <2>5. CASE UNCHANGED vars
    BY <2>5 DEF vars, IInv, JarHolds, FileHolds, BrowserHolds, Same
  <2> QED
    BY <2>1, <2>2, <2>3, <2>4, <2>5 DEF Next
<1> QED
  BY InitIInv, <1>1, PTL DEF Spec

\* However often the cookies of a profile are exported, imported, injected and fetched, none
\* is lost, added or altered: HttpOnly, Secure, expiry, domain and value survive both formats
\* and every browser (cookies.rs:22-134, gateway.rs:676-729).
THEOREM CookiesSurvive == Spec => []CookiesKept
<1>1. IInv => CookiesKept
  <2> SUFFICES ASSUME IInv
               PROVE  CookiesKept
    OBVIOUS
  <2>1. jar \in Seq(BrowserCookie) /\ first \in Seq(BrowserCookie) /\ Alike(jar, first)
    BY DEF IInv, JarHolds, Same
  <2>2. DOMAIN jar = 1 .. Len(jar) /\ DOMAIN first = 1 .. Len(first)
    BY <2>1
  <2> QED
    BY <2>1, <2>2 DEF CookiesKept, Map, Alike
<1> QED
  BY EachHoldsTheCookies, <1>1, PTL

\* An import of an exported file is refused only if it has no cookie, if the flag or the name of
\* the file names the other format, or for a cookie that has no Netscape line: a value that
\* is blank, or that has a tab before its last solid piece (cookies.rs:14-20, lib.rs:601).
THEOREM RefusalsHaveCause == Spec => RefusedForCause
<1>1. ASSUME IInv, NEW format \in {"json", "netscape", "auto"}, Import(format), outcome' = "refused"
      PROVE  \/ file.content \in {<<>>, <<Header>>}
             \/ {format, DetectFormatFromName(file.ext)} \ {"auto", file.kind} # {}
             \/ file.kind = "netscape" /\ \E c \in ToSet(jar) :
                  Solid(c.value) = {} \/ "tab" \in ToSet(Essence(c).value)
  <2> SUFFICES ASSUME file.content # <<>>, file.content # <<Header>>,
                      format \in {"auto", file.kind},
                      DetectFormatFromName(file.ext) \in {"auto", file.kind},
                      file.kind = "netscape" => \A c \in ToSet(jar) :
                         Solid(c.value) # {} /\ "tab" \notin ToSet(Essence(c).value)
               PROVE  FALSE
    BY Zenon
  <2>1. file # None
    BY <1>1 DEF Import
  <2>2. PICK s \in Seq(BrowserCookie) : Alike(s, first) /\ Holds(file, s)
    BY <1>1, <2>1 DEF IInv, FileHolds
  <2>3. jar \in Seq(BrowserCookie) /\ Alike(jar, first)
    BY <1>1 DEF IInv, JarHolds, Same
  <2>4. s # <<>>
    <3>1. Written(<<>>) = <<Header>>
      BY DEF Written, Map
    <3> QED
      BY <2>2, <3>1 DEF Holds
  <2>5. file.kind = "netscape" => \A i \in 1 .. Len(s) : Writable(s[i])
    <3> SUFFICES ASSUME file.kind = "netscape", NEW i \in 1 .. Len(s)
                 PROVE  Writable(s[i])
      OBVIOUS
    <3>1. s[i] \in BrowserCookie /\ jar[i] \in BrowserCookie /\ jar[i] \in ToSet(jar)
          /\ Essence(jar[i]) = Essence(s[i])
      <4>1. i \in 1 .. Len(jar) /\ DOMAIN jar = 1 .. Len(jar)
        BY <2>2, <2>3 DEF Alike
      <4> QED
        BY <2>2, <2>3, <4>1 DEF Alike, ToSet
    <3>2. Solid(jar[i].value) # {} /\ "tab" \notin ToSet(TrimEnd(jar[i].value))
      BY <3>1, WritableFromEssence
    <3>3. Writable(jar[i])
      BY <3>2 DEF Writable
    <3> QED
      BY <3>1, <3>3, WritableFromEssence
  <2>6. ASSUME NEW f \in Formats, f \in {"auto", file.kind}
        PROVE  ParseCookies(file, f) \notin {None, <<>>}
    <3> DEFINE p == ParseCookies(file, f)
    <3>1. p # None
      BY <2>2, <2>5, <2>6, ParsedAlike
    <3>2. p \in Seq(BrowserCookie) /\ Alike(p, s)
      BY <2>2, <3>1, ParsedAlike
    <3> HIDE DEF p
    <3>3. p # <<>>
      BY <2>4, <3>2 DEF Alike
    <3> QED
      BY <3>1, <3>3 DEF p
  <2>7. format \in Formats /\ DetectFormatFromName(file.ext) \in Formats
    BY DEF DetectFormatFromName, Formats
  <2>8. outcome' = "ok"
    <3>1. /\ ParseCookies(file, format) \notin {None, <<>>}
          /\ ParseCookies(file, DetectFormatFromName(file.ext)) \notin {None, <<>>}
      BY <2>6, <2>7
    <3> QED
      BY <1>1, <3>1 DEF Import
  <2> QED
    BY <1>1, <2>8
<1> DEFINE Cause == \A format \in {"json", "netscape", "auto"} : Import(format) /\ outcome' = "refused" =>
                       \/ file.content \in {<<>>, <<Header>>}
                       \/ {format, DetectFormatFromName(file.ext)} \ {"auto", file.kind} # {}
                       \/ file.kind = "netscape" /\ \E c \in ToSet(jar) :
                            Solid(c.value) = {} \/ "tab" \in ToSet(Essence(c).value)
<1>2. IInv /\ [Next]_vars => [Cause]_vars
  BY <1>1, Zenon
<1> HIDE DEF Cause
<1>3. Spec => [][Cause]_vars
  BY EachHoldsTheCookies, <1>2, PTL DEF Spec
<1> QED
  BY <1>3 DEF RefusedForCause, Cause

\* A jar is always one that the browser takes as a whole, __Host- cookies included: a
\* create_session on the profile does not fail for its cookies (gateway.rs:676-706).
THEOREM JarsGoIn == Spec => JarInjectable
<1>1. ASSUME IInv, InjectCookies
      PROVE  outcome' = "ok"
  <2>1. jar \in Seq(BrowserCookie)
    BY <1>1 DEF IInv, JarHolds, Same
  <2>2. \A p \in ToSet(Map(CdpCookieParams, jar)) : Accepts(p)
    <3> SUFFICES ASSUME NEW i \in DOMAIN jar
                 PROVE  Accepts(CdpCookieParams(jar[i]))
      BY DEF ToSet, Map
    <3>1. jar[i] \in BrowserCookie
      BY <2>1
    <3>2. jar[i].name \in HostNames => jar[i].secure
      BY <3>1, CookieParts
    <3>3. jar[i] \in Cookie
      BY <3>1, CookieParts
    <3> QED
      BY <3>2, <3>3 DEF Accepts, CdpCookieParams, Cookie
  <2> QED
    BY <1>1, <2>2 DEF InjectCookies
<1>2. IInv /\ [Next]_vars => [InjectCookies => outcome' = "ok"]_vars
  BY <1>1
<1> QED
  BY EachHoldsTheCookies, <1>2, PTL DEF Spec, JarInjectable
=============================================================================
