--------------------------- MODULE AuditLogProofs ---------------------------
(****************************************************************************)
(* Theorems about AuditLog.                                                 *)
(****************************************************************************)
EXTENDS AuditLog, FiniteSets, SequenceTheorems, FunctionTheorems,
        FiniteSetTheorems, WellFoundedInduction, TLAPS

----------------------------------------------------------------------------
(* Sets of naturals: induction as a fact about sets.                        *)

\* A non-empty set of naturals has a least element.
LEMMA Least ==
  ASSUME NEW T \in SUBSET Nat, T # {}
  PROVE  \E x \in T : \A y \in T : x <= y
  <1>1. PICK x \in T : \A y \in T : ~(<<y, x>> \in OpToRel(<, Nat))
    BY NatLessThanWellFounded, WFMin, Zenon
  <1>2. \A y \in T : ~(y < x)
    BY <1>1 DEF OpToRel
  <1> QED
    BY <1>2

\* A set that has 0 and every successor has every natural.
LEMMA Inductive ==
  ASSUME NEW T, 0 \in T, \A n \in Nat : n \in T => n + 1 \in T
  PROVE  Nat \subseteq T
  <1> SUFFICES ASSUME Nat \ T # {} PROVE FALSE
    OBVIOUS
  <1>1. PICK x \in Nat \ T : \A y \in Nat \ T : x <= y
    BY Least
  <1>2. x - 1 \in Nat /\ x - 1 \in T
    BY <1>1
  <1> QED
    BY <1>1, <1>2

\* Concatenation as a named operator, so that the provers take the facts below
\* instead of expanding \o.
Cat(x, y) == x \o y

\* Concatenation is associative.
LEMMA Regroup ==
  ASSUME NEW T, NEW x \in Seq(T), NEW y \in Seq(T), NEW z \in Seq(T)
  PROVE  Cat(Cat(x, y), z) = Cat(x, Cat(y, z))
  BY DEF Cat

\* The empty sequence is neutral.
LEMMA CatEmpty ==
  ASSUME NEW T, NEW x \in Seq(T)
  PROVE  Cat(x, <<>>) = x /\ Cat(<<>>, x) = x
  BY DEF Cat

----------------------------------------------------------------------------
(* FlattenSeq: the lines of several files, one after the other.             *)

\* f[i] is what the first i sequences of s make.
Joins(s, n, f) ==
  f = [i \in 1..n |-> IF i = 1 THEN s[i] ELSE f[i - 1] \o s[i]]

\* The recursive function that FlattenSeq chooses exists.
LEMMA JoinsExists ==
  ASSUME NEW s, NEW n \in Nat
  PROVE  \E f : Joins(s, n, f)
  <1> DEFINE T == {m \in Nat : \E f : Joins(s, m, f)}
  <1>1. 0 \in T
    <2>1. Joins(s, 0, [i \in 1..0 |-> s[i]])
      BY DEF Joins
    <2> QED
      BY <2>1
  <1>2. ASSUME NEW m \in Nat, m \in T PROVE m + 1 \in T
    <2>1. PICK f : Joins(s, m, f)
      BY <1>2
    <2> DEFINE g == [i \in 1..m + 1 |-> IF i = 1 THEN s[i] ELSE f[i - 1] \o s[i]]
    <2>2. \A i \in 1..m : f[i] = IF i = 1 THEN s[i] ELSE f[i - 1] \o s[i]
      BY <2>1 DEF Joins
    <2>3. \A i \in 1..m : g[i] = f[i]
      BY <2>2
    <2>4. \A i \in 1..m + 1 : i # 1 => g[i - 1] = f[i - 1]
      <3> SUFFICES ASSUME NEW i \in 1..m + 1, i # 1 PROVE g[i - 1] = f[i - 1]
        OBVIOUS
      <3>1. i - 1 \in 1..m
        BY <1>2
      <3> HIDE DEF g
      <3> QED
        BY <2>3, <3>1
    <2>5. g = [i \in 1..m + 1 |-> IF i = 1 THEN s[i] ELSE g[i - 1] \o s[i]]
      BY <2>4
    <2> HIDE DEF g
    <2>6. Joins(s, m + 1, g)
      BY <2>5 DEF Joins
    <2> QED
      BY <2>6
  <1> HIDE DEF T
  <1>3. n \in T
    BY <1>1, <1>2, Inductive
  <1> QED
    BY <1>3 DEF T

\* f[i] is the concatenation of the first i sequences of s.
Piled(f, s, T) ==
  /\ f[1] = s[1]
  /\ \A i \in 2..Len(s) : f[i] = Cat(f[i - 1], s[i])
  /\ \A i \in 1..Len(s) : f[i] \in Seq(T)

\* What FlattenSeq computes, one file at a time.
LEMMA Flattened ==
  ASSUME NEW T, NEW s \in Seq(Seq(T)), s # <<>>
  PROVE  \E f : Piled(f, s, T) /\ FlattenSeq(s) = f[Len(s)]
  <1>1. Len(s) \in Nat \ {0} /\ \A i \in 1..Len(s) : s[i] \in Seq(T)
    BY EmptySeq
  <1> DEFINE f == CHOOSE f : Joins(s, Len(s), f)
  <1>2. Joins(s, Len(s), f)
    BY <1>1, JoinsExists
  <1>3. FlattenSeq(s) = f[Len(s)]
    BY <1>1 DEF FlattenSeq, Joins
  <1> HIDE DEF f
  <1>4. f[1] = s[1] /\ \A i \in 2..Len(s) : f[i] = f[i - 1] \o s[i]
    <2>1. \A i \in 1..Len(s) : f[i] = IF i = 1 THEN s[i] ELSE f[i - 1] \o s[i]
      BY <1>2 DEF Joins
    <2>2. 1 \in 1..Len(s)
      BY <1>1
    <2>3. f[1] = s[1]
      BY <2>1, <2>2
    <2>4. ASSUME NEW i \in 2..Len(s) PROVE f[i] = f[i - 1] \o s[i]
      <3>1. i \in 1..Len(s) /\ i # 1
        BY <1>1, <2>4
      <3> QED
        BY <2>1, <3>1
    <2> QED
      BY <2>3, <2>4
  <1>5. \A i \in 1..Len(s) : f[i] \in Seq(T)
    <2> DEFINE K == {m \in Nat : m \in 1..Len(s) => f[m] \in Seq(T)}
    <2>1. 0 \in K
      OBVIOUS
    <2>2. ASSUME NEW m \in Nat, m \in K PROVE m + 1 \in K
      <3>1. CASE m = 0
        BY <1>1, <1>4, <3>1
      <3>2. CASE m # 0 /\ m + 1 \in 1..Len(s)
        <4>1. f[m] \in Seq(T) /\ s[m + 1] \in Seq(T)
          BY <1>1, <2>2, <3>2
        <4>2. m + 1 \in 2..Len(s) /\ (m + 1) - 1 = m
          BY <1>1, <3>2
        <4>3. f[m + 1] = f[(m + 1) - 1] \o s[m + 1]
          BY <1>4, <4>2
        <4>4. f[m] \o s[m + 1] \in Seq(T)
          BY <4>1, ConcatProperties
        <4>5. f[m + 1] \in Seq(T)
          BY <4>2, <4>3, <4>4, Zenon
        <4> QED
          BY <4>5
      <3> QED
        BY <3>1, <3>2
    <2> HIDE DEF K
    <2>3. Nat \subseteq K
      BY <2>1, <2>2, Inductive
    <2> QED
      BY <1>1, <2>3 DEF K
  <1> QED
    BY <1>3, <1>4, <1>5 DEF Piled, Cat

\* f and g are the piles of two lists that agree after position a, where f has
\* x in front of what g has.
Meet(s, r, T, f, g, a, x) ==
  /\ s \in Seq(Seq(T)) /\ r \in Seq(Seq(T)) /\ Len(s) = Len(r)
  /\ Piled(f, s, T) /\ Piled(g, r, T)
  /\ a \in 1..Len(s) /\ x \in Seq(T) /\ f[a] = Cat(x, g[a])
  /\ \A j \in 1..Len(s) : j > a => s[j] = r[j]

\* What differs in front stays in front.
LEMMA SameTail ==
  ASSUME NEW T, NEW s, NEW r, NEW f, NEW g, NEW a, NEW x,
         Meet(s, r, T, f, g, a, x)
  PROVE  f[Len(s)] = Cat(x, g[Len(s)])
  <1> DEFINE K == {m \in Nat : a + m \in 1..Len(s) => f[a + m] = Cat(x, g[a + m])}
  <1>0. /\ s \in Seq(Seq(T)) /\ r \in Seq(Seq(T)) /\ Len(s) = Len(r)
        /\ Piled(f, s, T) /\ Piled(g, r, T)
        /\ a \in 1..Len(s) /\ x \in Seq(T) /\ f[a] = Cat(x, g[a])
        /\ \A j \in 1..Len(s) : j > a => s[j] = r[j]
    BY DEF Meet
  <1>1. 0 \in K
    BY <1>0
  <1>2. ASSUME NEW m \in Nat, m \in K PROVE m + 1 \in K
    <2> DEFINE j == a + (m + 1)
    <2> SUFFICES ASSUME j \in 1..Len(s) PROVE f[j] = Cat(x, g[j])
      OBVIOUS
    <2>1. j - 1 = a + m /\ j \in 2..Len(s) /\ j > a
          /\ j - 1 \in 1..Len(s)
      BY <1>0
    <2> HIDE DEF j
    <2>2. f[j - 1] = Cat(x, g[j - 1])
      BY <1>2, <2>1
    <2>3. f[j] = Cat(f[j - 1], s[j]) /\ g[j] = Cat(g[j - 1], r[j]) /\ s[j] = r[j]
      BY <1>0, <2>1 DEF Piled
    <2> DEFINE y == g[j - 1]
               z == r[j]
    <2>4. y \in Seq(T) /\ z \in Seq(T)
      BY <1>0, <2>1 DEF Piled
    <2> HIDE DEF y, z
    <2>5. Cat(Cat(x, y), z) = Cat(x, Cat(y, z))
      BY <1>0, <2>4, Regroup
    <2> USE DEF y, z
    <2> QED
      BY <2>2, <2>3, <2>5
  <1> HIDE DEF K
  <1>3. Nat \subseteq K
    BY <1>1, <1>2, Inductive
  <1>4. Len(s) - a \in Nat /\ a + (Len(s) - a) = Len(s) /\ Len(s) \in 1..Len(s)
    BY <1>0
  <1> QED
    BY <1>3, <1>4 DEF K

\* What is the same in front makes the same.
LEMMA SameFront ==
  ASSUME NEW T, NEW s \in Seq(Seq(T)), NEW r \in Seq(Seq(T)), Len(s) = Len(r),
         NEW f, NEW g, Piled(f, s, T), Piled(g, r, T),
         NEW a \in 1..Len(s), \A j \in 1..a : s[j] = r[j]
  PROVE  f[a] = g[a]
  <1> DEFINE K == {m \in Nat : m \in 1..a => f[m] = g[m]}
  <1>1. 0 \in K
    OBVIOUS
  <1>2. ASSUME NEW m \in Nat, m \in K PROVE m + 1 \in K
    <2> DEFINE j == m + 1
    <2> SUFFICES ASSUME j \in 1..a PROVE f[j] = g[j]
      OBVIOUS
    <2>1. CASE j = 1
      BY <2>1 DEF Piled
    <2>2. CASE j # 1
      <3>1. j - 1 = m /\ j \in 2..Len(s) /\ j - 1 \in 1..a
        BY <2>2
      <3> HIDE DEF j
      <3>2. f[j] = Cat(f[j - 1], s[j]) /\ g[j] = Cat(g[j - 1], r[j]) /\ s[j] = r[j]
        BY <3>1 DEF Piled
      <3> QED
        BY <1>2, <3>1, <3>2
    <2> QED
      BY <2>1, <2>2
  <1> HIDE DEF K
  <1>3. Nat \subseteq K
    BY <1>1, <1>2, Inductive
  <1> QED
    BY <1>3 DEF K

\* Two neighbours may be cut differently.
LEMMA FlattenSwap ==
  ASSUME NEW T, NEW s \in Seq(Seq(T)), NEW r \in Seq(Seq(T)), Len(s) = Len(r),
         NEW a \in 1..Len(s) - 1, Cat(s[a], s[a + 1]) = Cat(r[a], r[a + 1]),
         \A j \in 1..Len(s) : j \notin {a, a + 1} => s[j] = r[j]
  PROVE  FlattenSeq(s) = FlattenSeq(r)
  <1>1. s # <<>> /\ r # <<>> /\ Len(s) \in Nat
    OBVIOUS
  <1>2. PICK f : Piled(f, s, T) /\ FlattenSeq(s) = f[Len(s)]
    BY <1>1, Flattened
  <1>3. PICK g : Piled(g, r, T) /\ FlattenSeq(r) = g[Len(s)]
    BY <1>1, Flattened
  <1>4. /\ s[a] \in Seq(T) /\ s[a + 1] \in Seq(T)
        /\ r[a] \in Seq(T) /\ r[a + 1] \in Seq(T)
    BY <1>1
  <1>5. a + 1 \in 2..Len(s) /\ (a + 1) - 1 = a
    BY <1>1
  <1>6. f[a + 1] = Cat(f[a], s[a + 1]) /\ g[a + 1] = Cat(g[a], r[a + 1])
    BY <1>2, <1>3, <1>5 DEF Piled
  <1>7. f[a + 1] = g[a + 1]
    <2>1. CASE a = 1
      BY <1>2, <1>3, <1>6, <2>1 DEF Piled
    <2>2. CASE a # 1
      <3> DEFINE b == a - 1
      <3>1. b \in 1..Len(s) /\ a \in 2..Len(s)
            /\ \A j \in 1..b : j \in 1..Len(s) /\ j \notin {a, a + 1}
        BY <1>1, <2>2
      <3>2. f[a] = Cat(f[b], s[a]) /\ g[a] = Cat(g[b], r[a]) /\ f[b] \in Seq(T)
        BY <1>2, <1>3, <3>1 DEF Piled
      <3> HIDE DEF b
      <3>3. f[b] = g[b]
        BY <1>2, <1>3, <3>1, SameFront
      <3> DEFINE w == f[b]
                 s1 == s[a]
                 s2 == s[a + 1]
                 r1 == r[a]
                 r2 == r[a + 1]
      <3>4. /\ w \in Seq(T) /\ s1 \in Seq(T) /\ s2 \in Seq(T)
            /\ r1 \in Seq(T) /\ r2 \in Seq(T) /\ Cat(s1, s2) = Cat(r1, r2)
            /\ f[a + 1] = Cat(Cat(w, s1), s2) /\ g[a + 1] = Cat(Cat(w, r1), r2)
        BY <1>4, <1>6, <3>2, <3>3
      <3> HIDE DEF w, s1, s2, r1, r2
      <3>5. Cat(Cat(w, s1), s2) = Cat(w, Cat(s1, s2))
            /\ Cat(Cat(w, r1), r2) = Cat(w, Cat(r1, r2))
        BY <3>4, Regroup
      <3> QED
        BY <3>4, <3>5
    <2> QED
      BY <2>1, <2>2
  <1> DEFINE c == a + 1
             e == <<>>
  <1>8. e \in Seq(T) /\ g[c] \in Seq(T) /\ g[Len(s)] \in Seq(T)
    BY <1>1, <1>3, <1>5 DEF Piled
  <1>9. f[c] = Cat(e, g[c])
    BY <1>7, <1>8, CatEmpty
  <1>10. c \in 1..Len(s) /\ \A j \in 1..Len(s) : j > c => s[j] = r[j]
    BY <1>1
  <1> HIDE DEF c, e
  <1>11. Meet(s, r, T, f, g, c, e)
    BY <1>2, <1>3, <1>8, <1>9, <1>10 DEF Meet
  <1>12. f[Len(s)] = Cat(e, g[Len(s)])
    BY <1>11, SameTail
  <1> USE DEF e
  <1> QED
    BY <1>2, <1>3, <1>8, <1>12, CatEmpty

\* Emptying the first file drops its lines from the front.
LEMMA FlattenDrop ==
  ASSUME NEW T, NEW s \in Seq(Seq(T)), NEW r \in Seq(Seq(T)), Len(s) = Len(r),
         s # <<>>, r[1] = <<>>, \A j \in 2..Len(s) : s[j] = r[j]
  PROVE  FlattenSeq(s) = Cat(s[1], FlattenSeq(r))
  <1>1. r # <<>> /\ Len(s) \in Nat \ {0} /\ s[1] \in Seq(T)
    BY EmptySeq
  <1>2. PICK f : Piled(f, s, T) /\ FlattenSeq(s) = f[Len(s)]
    BY <1>1, Flattened
  <1>3. PICK g : Piled(g, r, T) /\ FlattenSeq(r) = g[Len(s)]
    BY <1>1, Flattened
  <1> DEFINE a == 1
             x == s[1]
  <1>4. f[a] = Cat(x, g[a]) /\ x \in Seq(T)
    BY <1>1, <1>2, <1>3, CatEmpty DEF Piled
  <1>5. a \in 1..Len(s) /\ \A j \in 1..Len(s) : j > a => s[j] = r[j]
    BY <1>1
  <1> HIDE DEF a, x
  <1>6. Meet(s, r, T, f, g, a, x)
    BY <1>2, <1>3, <1>4, <1>5 DEF Meet
  <1>7. f[Len(s)] = Cat(x, g[Len(s)])
    BY <1>6, SameTail
  <1> QED
    BY <1>2, <1>3, <1>7 DEF x

\* Extending the last file extends the whole.
LEMMA FlattenExtend ==
  ASSUME NEW T, NEW s \in Seq(Seq(T)), NEW r \in Seq(Seq(T)), Len(s) = Len(r),
         NEW y \in Seq(T), Len(s) > 1, r[Len(s)] = Cat(s[Len(s)], y),
         \A j \in 1..Len(s) - 1 : s[j] = r[j]
  PROVE  FlattenSeq(r) = Cat(FlattenSeq(s), y)
  <1> DEFINE m == Len(s)
             b == Len(s) - 1
  <1>1. /\ s # <<>> /\ r # <<>> /\ b \in 1..Len(s) /\ m \in 2..Len(s)
        /\ m - 1 = b /\ \A j \in 1..b : s[j] = r[j]
    OBVIOUS
  <1>2. PICK f : Piled(f, s, T) /\ FlattenSeq(s) = f[Len(s)]
    BY <1>1, Flattened
  <1>3. PICK g : Piled(g, r, T) /\ FlattenSeq(r) = g[Len(r)]
    BY <1>1, Flattened
  <1> DEFINE w == f[b]
             z == s[m]
  <1>4. w \in Seq(T) /\ z \in Seq(T)
    BY <1>1, <1>2 DEF Piled
  <1>5. FlattenSeq(s) = Cat(w, z)
    BY <1>1, <1>2 DEF Piled
  <1>6. FlattenSeq(r) = Cat(g[b], Cat(z, y))
    BY <1>1, <1>3 DEF Piled
  <1> HIDE DEF m, b
  <1>7. w = g[b]
    BY <1>1, <1>2, <1>3, SameFront
  <1> HIDE DEF w, z
  <1>8. Cat(Cat(w, z), y) = Cat(w, Cat(z, y))
    BY <1>4, Regroup
  <1> QED
    BY <1>5, <1>6, <1>7, <1>8

\* Moving a sequence to the place before it, which is the first one or empty:
\* only what the first one held is lost.
LEMMA FlattenMove ==
  ASSUME NEW T, NEW s \in Seq(Seq(T)), NEW r \in Seq(Seq(T)), Len(s) = Len(r),
         NEW a \in 1..Len(s) - 1, a = 1 \/ s[a] = <<>>,
         r[a] = s[a + 1], r[a + 1] = <<>>,
         \A j \in 1..Len(s) : j \notin {a, a + 1} => s[j] = r[j]
  PROVE  FlattenSeq(s) = Cat(s[a], FlattenSeq(r))
  <1> DEFINE e == <<>>
             h == [s EXCEPT ![a] = e]
             x == s[a]
             y == s[a + 1]
  <1>1. /\ Len(s) \in Nat /\ a \in 1..Len(s) /\ a + 1 \in 1..Len(s)
        /\ a # a + 1 /\ DOMAIN s = 1..Len(s) /\ x \in Seq(T) /\ y \in Seq(T)
        /\ e \in Seq(T)
    OBVIOUS
  <1>2. h \in Seq(Seq(T)) /\ Len(h) = Len(s)
    BY <1>1, ExceptSeq
  <1>3. h[a] = e /\ h[a + 1] = y /\ \A j \in 1..Len(s) : j # a => h[j] = s[j]
    BY <1>1
  <1>4. FlattenSeq(s) = Cat(x, FlattenSeq(h))
    <2>1. CASE a = 1
      <3>1. s # <<>> /\ h[1] = <<>> /\ \A j \in 2..Len(s) : s[j] = h[j]
        BY <1>1, <1>3, <2>1
      <3> HIDE DEF h
      <3> QED
        BY <1>2, <2>1, <3>1, FlattenDrop
    <2>2. CASE s[a] = <<>>
      <3>1. h = s
        BY <1>1, <2>2
      <3>2. s # <<>>
        BY <1>1
      <3>3. PICK f : Piled(f, s, T) /\ FlattenSeq(s) = f[Len(s)]
        BY <3>2, Flattened
      <3>4. FlattenSeq(s) \in Seq(T)
        BY <1>1, <3>3 DEF Piled
      <3>5. Cat(e, FlattenSeq(s)) = FlattenSeq(s)
        BY <3>4, CatEmpty
      <3> QED
        BY <2>2, <3>1, <3>5
    <2> QED
      BY <2>1, <2>2
  <1>5. FlattenSeq(h) = FlattenSeq(r)
    <2>1. h[a] = e /\ h[a + 1] = y /\ r[a] = y /\ r[a + 1] = e
      BY <1>3
    <2>2. Cat(e, y) = Cat(y, e)
      BY <1>1, CatEmpty
    <2>3. \A j \in 1..Len(h) : j \notin {a, a + 1} => h[j] = r[j]
      BY <1>2, <1>3
    <2> HIDE DEF h, e, y
    <2>4. Cat(h[a], h[a + 1]) = Cat(r[a], r[a + 1])
      BY <2>1, <2>2
    <2>5. Len(h) = Len(r) /\ a \in 1..Len(h) - 1
      BY <1>2
    <2> QED
      BY <1>2, <2>3, <2>4, <2>5, FlattenSwap
  <1> QED
    BY <1>4, <1>5

\* FlattenSeq makes a sequence of the same elements.
LEMMA FlattenType ==
  ASSUME NEW T, NEW s \in Seq(Seq(T)), s # <<>>
  PROVE  FlattenSeq(s) \in Seq(T)
  <1>1. PICK f : Piled(f, s, T) /\ FlattenSeq(s) = f[Len(s)]
    BY Flattened
  <1>2. Len(s) \in 1..Len(s)
    OBVIOUS
  <1> QED
    BY <1>1, <1>2 DEF Piled

\* One more file of at least M lines adds at least M lines.
LEMMA OneMore ==
  ASSUME NEW M \in Nat, NEW c \in Nat, NEW d \in Nat, NEW z \in Nat,
         NEW w \in Nat, NEW l \in Nat, w >= M * c, l = w + z,
         d = c \/ (d = c + 1 /\ z >= M)
  PROVE  l >= M * d
  <1>1. M * c \in Nat /\ M * (c + 1) = M * c + M
    OBVIOUS
  <1> DEFINE p == M * c
  <1>2. CASE d = c
    <2>1. w >= p /\ p \in Nat /\ M * d = p
      BY <1>1, <1>2
    <2> HIDE DEF p
    <2> QED
      BY <2>1
  <1>3. CASE d = c + 1 /\ z >= M
    <2>1. w >= p /\ p \in Nat /\ M * d = p + M
      BY <1>1, <1>3
    <2> HIDE DEF p
    <2> QED
      BY <1>3, <2>1
  <1> QED
    BY <1>2, <1>3

\* A list in which many sequences are long is long itself.
Long(s, M) == {i \in 1..Len(s) : Len(s[i]) >= M}

LEMMA FlattenLength ==
  ASSUME NEW T, NEW s \in Seq(Seq(T)), s # <<>>, NEW M \in Nat
  PROVE  Len(FlattenSeq(s)) >= M * Cardinality(Long(s, M))
  <1>1. PICK f : Piled(f, s, T) /\ FlattenSeq(s) = f[Len(s)]
    BY Flattened
  <1> DEFINE L(m) == {i \in Long(s, M) : i <= m}
             C == [m \in Nat |-> Cardinality(L(m))]
  <1>3. \A m \in Nat : IsFiniteSet(L(m)) /\ Cardinality(L(m)) \in Nat
    <2>1. \A m \in Nat : L(m) \subseteq 1..Len(s)
      BY DEF Long
    <2>2. IsFiniteSet(1..Len(s))
      BY FS_Interval
    <2> HIDE DEF L
    <2> QED
      BY <2>1, <2>2, FS_Subset, FS_CardinalityType
  <1>4. C \in [Nat -> Nat] /\ C[0] = 0
    <2>1. L(0) = {}
      BY DEF Long
    <2> HIDE DEF L
    <2> QED
      BY <1>3, <2>1, FS_EmptySet
  <1>5. ASSUME NEW m \in Nat, m + 1 \in 1..Len(s)
        PROVE  \/ C[m + 1] = C[m]
               \/ C[m + 1] = C[m] + 1 /\ Len(s[m + 1]) >= M
    <2>1. CASE Len(s[m + 1]) >= M
      <3>1. L(m + 1) = L(m) \cup {m + 1} /\ m + 1 \notin L(m)
        BY <1>5, <2>1 DEF Long
      <3> HIDE DEF L
      <3>2. Cardinality(L(m + 1)) = Cardinality(L(m)) + 1
        BY <1>3, <3>1, FS_AddElement
      <3> QED
        BY <2>1, <3>2
    <2>2. CASE ~(Len(s[m + 1]) >= M)
      <3>1. L(m + 1) = L(m)
        BY <1>5, <2>2 DEF Long
      <3> HIDE DEF L
      <3> QED
        BY <3>1
    <2> QED
      BY <2>1, <2>2
  <1>6. L(Len(s)) = Long(s, M)
    BY DEF Long
  <1>7. C[Len(s)] = Cardinality(Long(s, M))
    BY <1>6
  <1> HIDE DEF C
  <1>8. ASSUME NEW m \in Nat, m \in 1..Len(s) => Len(f[m]) >= M * C[m],
               m + 1 \in 1..Len(s)
        PROVE  Len(f[m + 1]) >= M * C[m + 1]
    <2> DEFINE j == m + 1
    <2>0. j \in Nat /\ j \in 1..Len(s)
      BY <1>8
    <2>1. C[m] \in Nat /\ C[j] \in Nat
      BY <1>4, <2>0
    <2>2. s[j] \in Seq(T) /\ f[j] \in Seq(T)
      BY <1>1, <2>0 DEF Piled
    <2>3. Len(s[j]) \in Nat /\ Len(f[j]) \in Nat
      BY <2>2
    <2>4. CASE m = 0
      <3>1. f[j] = s[j]
        BY <1>1, <2>4 DEF Piled
      <3>3. Len(f[j]) = 0 + Len(s[j]) /\ C[m] = 0 /\ 0 >= M * C[m]
        BY <1>4, <2>3, <2>4, <3>1
      <3>2. C[j] = C[m] \/ (C[j] = C[m] + 1 /\ Len(s[j]) >= M)
        BY <1>5, <2>0
      <3> DEFINE c == C[m]
                 d == C[j]
                 z == Len(s[j])
                 l == Len(f[j])
                 w == 0
      <3>4. /\ c \in Nat /\ d \in Nat /\ z \in Nat /\ w \in Nat /\ l \in Nat
            /\ w >= M * c /\ l = w + z
        BY <2>1, <2>3, <3>3
      <3>5. d = c \/ (d = c + 1 /\ z >= M)
        BY <3>2
      <3> HIDE DEF c, d, z, l, w
      <3>6. l >= M * d
        BY <3>4, <3>5, OneMore, Zenon
      <3> QED
        BY <3>6 DEF l, d
    <2>5. CASE m # 0
      <3>1. j - 1 = m /\ j \in 2..Len(s) /\ m \in 1..Len(s)
        BY <2>0, <2>5
      <3>2. C[j] = C[m] \/ (C[j] = C[m] + 1 /\ Len(s[j]) >= M)
        BY <1>5, <2>0
      <3> HIDE DEF j
      <3>3. f[j] = Cat(f[m], s[j]) /\ f[m] \in Seq(T)
        BY <1>1, <3>1 DEF Piled
      <3>4. Len(f[j]) = Len(f[m]) + Len(s[j]) /\ Len(f[m]) \in Nat
        BY <2>2, <3>3, ConcatProperties DEF Cat
      <3>5. Len(f[m]) >= M * C[m]
        BY <1>8, <3>1
      <3> DEFINE c == C[m]
                 d == C[j]
                 z == Len(s[j])
                 l == Len(f[j])
                 w == Len(f[m])
      <3>6. /\ c \in Nat /\ d \in Nat /\ z \in Nat /\ w \in Nat /\ l \in Nat
            /\ w >= M * c /\ l = w + z
        BY <2>1, <2>3, <3>4, <3>5
      <3>7. d = c \/ (d = c + 1 /\ z >= M)
        BY <3>2
      <3> HIDE DEF c, d, z, l, w
      <3>8. l >= M * d
        BY <3>6, <3>7, OneMore, Zenon
      <3> QED
        BY <3>8, Zenon DEF j, l, d
    <2> QED
      BY <2>4, <2>5
  <1> DEFINE K == {m \in Nat : m \in 1..Len(s) => Len(f[m]) >= M * C[m]}
  <1>2. 0 \in K
    OBVIOUS
  <1>11. ASSUME NEW m \in Nat, m \in K PROVE m + 1 \in K
    <2>1. m \in 1..Len(s) => Len(f[m]) >= M * C[m]
      BY <1>11
    <2>2. m + 1 \in 1..Len(s) => Len(f[m + 1]) >= M * C[m + 1]
      BY <1>8, <2>1
    <2> QED
      BY <2>2
  <1> HIDE DEF K
  <1>9. Nat \subseteq K
    BY <1>2, <1>11, Inductive
  <1>10. Len(s) \in Nat /\ Len(s) \in 1..Len(s)
    OBVIOUS
  <1> QED
    BY <1>1, <1>7, <1>9, <1>10 DEF K

----------------------------------------------------------------------------
(* The files of the log.                                                    *)

\* The files in reading order: oldest segment first, the active one last.
Files(a, sg) ==
  [i \in 1..Backups + 1 |-> IF i <= Backups THEN sg[Backups + 1 - i] ELSE a]

\* Each file is at its place in s.
Placed(s, a, sg, T) ==
  /\ s \in Seq(Seq(T)) /\ Len(s) = Backups + 1 /\ s # <<>>
  /\ s[Backups + 1] = a
  /\ \A i \in 1..Backups : s[i] = sg[Backups + 1 - i]

LEMMA FilesType ==
  ASSUME NEW T, NEW a \in Seq(T), NEW sg \in [1..Backups -> Seq(T)]
  PROVE  Placed(Files(a, sg), a, sg, T)
  <1>1. Backups \in Nat \ {0}
    BY AuditAssumption
  <1>2. \A i \in 1..Backups : Backups + 1 - i \in 1..Backups
    BY <1>1
  <1>3. \A i \in 1..Backups + 1 : i <= Backups => i \in 1..Backups
    BY <1>1
  <1>4. Files(a, sg) \in [1..Backups + 1 -> Seq(T)]
    BY <1>2, <1>3 DEF Files
  <1>5. Files(a, sg) \in Seq(Seq(T)) /\ Len(Files(a, sg)) = Backups + 1
    BY <1>1, <1>4
  <1>6. Files(a, sg)[Backups + 1] = a
    BY <1>1 DEF Files
  <1>7. \A i \in 1..Backups : Files(a, sg)[i] = sg[Backups + 1 - i]
    BY <1>1 DEF Files
  <1> QED
    BY <1>1, <1>5, <1>6, <1>7 DEF Placed

\* What AllLines reads.
All(a, sg) == FlattenSeq(Files(a, sg))

LEMMA AllType ==
  ASSUME NEW T, NEW a \in Seq(T), NEW sg \in [1..Backups -> Seq(T)]
  PROVE  All(a, sg) \in Seq(T)
  BY FilesType, FlattenType DEF All, Placed

\* A segment renamed over the oldest one or an empty place.
Shifted(sg, n) == [sg EXCEPT ![n + 1] = sg[n], ![n] = <<>>]

LEMMA ShiftLines ==
  ASSUME NEW T, NEW a \in Seq(T), NEW sg \in [1..Backups -> Seq(T)],
         NEW n \in 1..Backups - 1, n + 1 = Backups \/ sg[n + 1] = <<>>
  PROVE  All(a, sg) = Cat(sg[n + 1], All(a, Shifted(sg, n)))
  <1>1. Backups \in Nat \ {0} /\ n \in 1..Backups /\ n + 1 \in 1..Backups
    BY AuditAssumption
  <1> DEFINE g == Shifted(sg, n)
  <1>2. /\ g \in [1..Backups -> Seq(T)] /\ g[n + 1] = sg[n] /\ g[n] = <<>>
        /\ \A i \in 1..Backups : i \notin {n, n + 1} => g[i] = sg[i]
    <2> DEFINE x == sg[n]
               y == <<>>
               m == n + 1
    <2>1. x \in Seq(T) /\ y \in Seq(T) /\ m \in 1..Backups /\ m # n
          /\ g = [sg EXCEPT ![m] = x, ![n] = y]
      BY <1>1 DEF Shifted
    <2> HIDE DEF g, x, y, m
    <2>2. g \in [1..Backups -> Seq(T)] /\ g[m] = x /\ g[n] = y
          /\ \A i \in 1..Backups : i \notin {n, m} => g[i] = sg[i]
      BY <1>1, <2>1
    <2> QED
      BY <2>2 DEF x, y, m
  <1> DEFINE s == Files(a, sg)
             r == Files(a, g)
             p == Backups - n
  <1>3. /\ p \in 1..Backups + 1 - 1 /\ p \in 1..Backups /\ p + 1 \in 1..Backups
        /\ Backups + 1 - p = n + 1 /\ Backups + 1 - (p + 1) = n
        /\ (p = 1 <=> n + 1 = Backups)
    BY <1>1
  <1> HIDE DEF g
  <1>4. Placed(s, a, sg, T)
    BY FilesType
  <1>5. Placed(r, a, g, T)
    BY <1>2, FilesType
  <1>6. FlattenSeq(s) = All(a, sg) /\ FlattenSeq(r) = All(a, g)
    BY DEF All
  <1> HIDE DEF s, r
  <1>7. s[p] = sg[n + 1] /\ s[p + 1] = sg[n] /\ r[p] = sg[n] /\ r[p + 1] = <<>>
    BY <1>2, <1>3, <1>4, <1>5 DEF Placed
  <1>8. ASSUME NEW j \in 1..Len(s), j \notin {p, p + 1} PROVE s[j] = r[j]
    <2>1. CASE j = Backups + 1
      BY <1>4, <1>5, <2>1 DEF Placed
    <2>2. CASE j # Backups + 1
      <3> DEFINE i == Backups + 1 - j
      <3>1. j \in 1..Backups /\ i \in 1..Backups /\ i \notin {n, n + 1}
        BY <1>1, <1>4, <1>8, <2>2 DEF Placed
      <3>2. s[j] = sg[i] /\ r[j] = g[i]
        BY <1>4, <1>5, <3>1 DEF Placed
      <3> HIDE DEF i
      <3> QED
        BY <1>2, <3>1, <3>2
    <2> QED
      BY <2>1, <2>2
  <1> HIDE DEF p
  <1>9. Len(s) = Len(r) /\ p \in 1..Len(s) - 1 /\ (p = 1 \/ s[p] = <<>>)
        /\ r[p] = s[p + 1]
    <2>0. Len(s) = Backups + 1 /\ Len(r) = Backups + 1
      BY <1>4, <1>5 DEF Placed
    <2>1. Len(s) = Len(r) /\ p \in 1..Len(s) - 1
      BY <1>1, <1>3, <2>0
    <2>2. p = 1 \/ s[p] = <<>>
      BY <1>3, <1>7, Zenon
    <2>3. r[p] = s[p + 1]
      BY <1>7, Zenon
    <2> QED
      BY <2>1, <2>2, <2>3
  <1>10. FlattenSeq(s) = Cat(s[p], FlattenSeq(r))
    BY <1>4, <1>5, <1>7, <1>8, <1>9, FlattenMove DEF Placed
  <1> QED
    BY <1>6, <1>7, <1>10 DEF g

\* The active file renamed over the only segment or an empty place.
LEMMA RetireLines ==
  ASSUME NEW T, NEW a \in Seq(T), NEW sg \in [1..Backups -> Seq(T)],
         1 = Backups \/ sg[1] = <<>>
  PROVE  All(a, sg) = Cat(sg[1], All(<<>>, [sg EXCEPT ![1] = a]))
  <1>1. Backups \in Nat \ {0} /\ 1 \in 1..Backups /\ <<>> \in Seq(T)
    BY AuditAssumption
  <1> DEFINE g == [sg EXCEPT ![1] = a]
             e == <<>>
             s == Files(a, sg)
             r == Files(e, g)
             p == Backups
  <1>2. /\ g \in [1..Backups -> Seq(T)] /\ g[1] = a
        /\ \A i \in 1..Backups : i # 1 => g[i] = sg[i]
    BY <1>1
  <1>3. /\ p \in 1..Backups + 1 - 1 /\ p \in 1..Backups
        /\ Backups + 1 - p = 1
    BY <1>1
  <1> HIDE DEF g, e
  <1>4. Placed(s, a, sg, T)
    BY FilesType
  <1>5. Placed(r, e, g, T)
    BY <1>1, <1>2, FilesType DEF e
  <1>6. FlattenSeq(s) = All(a, sg) /\ FlattenSeq(r) = All(e, g)
    BY DEF All
  <1> HIDE DEF s, r
  <1>7. s[p] = sg[1] /\ s[p + 1] = a /\ r[p] = a /\ r[p + 1] = <<>>
    BY <1>2, <1>3, <1>4, <1>5 DEF Placed, e
  <1>8. ASSUME NEW j \in 1..Len(s), j \notin {p, p + 1} PROVE s[j] = r[j]
    <2> DEFINE i == Backups + 1 - j
    <2>1. j \in 1..Backups /\ i \in 1..Backups /\ i # 1
      BY <1>1, <1>4, <1>8 DEF Placed
    <2>2. s[j] = sg[i] /\ r[j] = g[i]
      BY <1>4, <1>5, <2>1 DEF Placed
    <2> HIDE DEF i
    <2> QED
      BY <1>2, <2>1, <2>2
  <1>9. Len(s) = Len(r) /\ p \in 1..Len(s) - 1 /\ (p = 1 \/ s[p] = <<>>)
        /\ r[p] = s[p + 1]
    BY <1>3, <1>4, <1>5, <1>7 DEF Placed
  <1> HIDE DEF p
  <1>10. FlattenSeq(s) = Cat(s[p], FlattenSeq(r))
    BY <1>4, <1>5, <1>7, <1>8, <1>9, FlattenMove DEF Placed
  <1> QED
    BY <1>6, <1>7, <1>10 DEF g, e

\* A line appended to the active file.
LEMMA AppendLines ==
  ASSUME NEW T, NEW a \in Seq(T), NEW sg \in [1..Backups -> Seq(T)],
         NEW l \in T
  PROVE  All(Append(a, l), sg) = Append(All(a, sg), l)
  <1>1. Backups \in Nat \ {0}
    BY AuditAssumption
  <1> DEFINE b == Append(a, l)
             y == <<l>>
             s == Files(a, sg)
             r == Files(b, sg)
  <1>2. y \in Seq(T) /\ b \in Seq(T) /\ b = Cat(a, y)
    BY AppendIsConcat, AppendProperties DEF Cat
  <1> HIDE DEF b, y
  <1>3. Placed(s, a, sg, T)
    BY FilesType
  <1>4. Placed(r, b, sg, T)
    BY <1>2, FilesType
  <1>5. FlattenSeq(s) = All(a, sg) /\ FlattenSeq(r) = All(b, sg)
    BY DEF All
  <1> HIDE DEF s, r
  <1>6. Len(s) = Len(r) /\ Len(s) > 1 /\ r[Len(s)] = Cat(s[Len(s)], y)
        /\ \A j \in 1..Len(s) - 1 : s[j] = r[j]
    BY <1>1, <1>2, <1>3, <1>4 DEF Placed
  <1>7. FlattenSeq(r) = Cat(FlattenSeq(s), y)
    BY <1>2, <1>3, <1>4, <1>6, FlattenExtend DEF Placed
  <1>8. All(a, sg) \in Seq(T)
    BY AllType
  <1>9. Cat(All(a, sg), y) = Append(All(a, sg), l)
    BY <1>8, AppendIsConcat DEF Cat, y
  <1> QED
    BY <1>5, <1>7, <1>9 DEF b

----------------------------------------------------------------------------
(* The types of the state.                                                  *)

\* Lines made by the first c writes.
LinesOf(c) == [torn : BOOLEAN, hash : 0..c, seq : 0..c, prev : 0..c]

Types ==
  /\ active \in Seq(LinesOf(calls)) /\ present \in BOOLEAN
  /\ segment \in [1..Backups -> Seq(LinesOf(calls))]
  /\ seq \in 0..calls /\ prev \in 0..calls
  /\ pc \in {"idle", "rotate", "append"}
  /\ cur \in LinesOf(calls)
  /\ k \in 0..Backups - 1
  /\ written \in Seq(LinesOf(calls))
  /\ calls \in 0..MaxWrites /\ kills \in 0..MaxKills /\ faults \in 0..MaxFaults

\* What the files are while one of them is missing or under rotation: the next
\* rename hits an empty place unless it is the one that drops the oldest
\* segment, and only a full file is rotated.
Rotating ==
  /\ ~present => active = <<>>
  /\ pc = "rotate" /\ k < Backups - 1 => segment[k + 1] = <<>>
  /\ pc = "rotate" /\ present => Len(active) >= MaxLines

\* AllLines, by its parts.
LEMMA AllLinesAre ==
  /\ AllLines = All(active, segment)
  /\ AllLines' = All(active', segment')
  BY DEF AllLines, All, Files

LEMMA AllLinesType ==
  ASSUME Types
  PROVE  AllLines \in Seq(LinesOf(calls))
  BY AllLinesAre, AllType DEF Types

\* Lines of the first c writes are lines of the first c + 1.
LEMMA MoreLines ==
  ASSUME NEW c \in Nat
  PROVE  /\ LinesOf(c) \subseteq LinesOf(c + 1)
         /\ Seq(LinesOf(c)) \subseteq Seq(LinesOf(c + 1))
         /\ TornLine \in LinesOf(c) /\ NoLine \in LinesOf(c)
  <1>1. LinesOf(c) \subseteq LinesOf(c + 1)
    <2>1. 0..c \subseteq 0..c + 1
      OBVIOUS
    <2> QED
      BY <2>1 DEF LinesOf
  <1>2. Seq(LinesOf(c)) \subseteq Seq(LinesOf(c + 1))
    <2> DEFINE A == LinesOf(c)
               B == LinesOf(c + 1)
    <2>1. A \subseteq B
      BY <1>1
    <2> HIDE DEF A, B
    <2>2. Seq(A) \subseteq Seq(B)
      BY <2>1
    <2> QED
      BY <2>2 DEF A, B
  <1>3. TornLine \in LinesOf(c) /\ NoLine \in LinesOf(c)
    <2>1. 0 \in 0..c
      OBVIOUS
    <2> QED
      BY <2>1 DEF LinesOf, TornLine, NoLine, Line
  <1> QED
    BY <1>1, <1>2, <1>3

\* Appending keeps the type and, to a torn line, changes nothing.
LEMMA AppendedType ==
  ASSUME NEW T, NEW a \in Seq(T), NEW l \in T
  PROVE  Appended(a, l) \in {a, Append(a, l)} /\ Appended(a, l) \in Seq(T)
  BY AppendProperties DEF Appended

\* The lines that are whole.
Whole(lines) == {n \in DOMAIN lines : ~lines[n].torn}

\* _load_chain_state finds a record of the highest number.
LEMMA LoadedIsHighest ==
  ASSUME Types
  PROVE  \/ Whole(AllLines) = {} /\ Loaded = NoLine
         \/ \E i \in Whole(AllLines) :
              /\ Loaded = AllLines[i]
              /\ \A j \in Whole(AllLines) : AllLines[j].seq <= AllLines[i].seq
  <1>1. AllLines \in Seq(LinesOf(calls)) /\ calls \in Nat
    BY AllLinesType DEF Types
  <1> DEFINE L == AllLines
             W == Whole(AllLines)
  <1>2. \A j \in W : L[j].seq \in 0..calls
    <2>1. \A j \in W : L[j] \in LinesOf(calls)
      BY <1>1 DEF Whole
    <2> HIDE DEF L, W
    <2> QED
      BY <2>1 DEF LinesOf
  <1>3. CASE W = {}
    BY <1>3 DEF Loaded, Whole
  <1>4. CASE W # {}
    <2> DEFINE D == {calls - L[j].seq : j \in W}
    <2>1. D \in SUBSET Nat /\ D # {}
      BY <1>1, <1>2, <1>4
    <2>2. PICK d \in D : \A e \in D : d <= e
      BY <2>1, Least
    <2>3. PICK i \in W : d = calls - L[i].seq
      BY <2>2
    <2>4. \A j \in W : L[j].seq <= L[i].seq
      <3> SUFFICES ASSUME NEW j \in W PROVE L[j].seq <= L[i].seq
        OBVIOUS
      <3>1. calls - L[i].seq <= calls - L[j].seq
        BY <2>2, <2>3
      <3> QED
        BY <1>1, <1>2, <3>1
    <2> DEFINE b == CHOOSE n \in W : \A m \in W : L[m].seq <= L[n].seq
    <2>5. b \in W /\ \A m \in W : L[m].seq <= L[b].seq
      BY <2>4
    <2>6. Loaded = L[b]
      BY <1>4 DEF Loaded, Whole
    <2> QED
      BY <2>5, <2>6
  <1> QED
    BY <1>3, <1>4

\* What is loaded is a line that was written.
LEMMA LoadedType ==
  ASSUME Types
  PROVE  Loaded \in LinesOf(calls)
  <1>1. AllLines \in Seq(LinesOf(calls)) /\ calls \in Nat
    BY AllLinesType DEF Types
  <1>2. \A i \in Whole(AllLines) : AllLines[i] \in LinesOf(calls)
    BY <1>1 DEF Whole
  <1> QED
    BY <1>1, <1>2, LoadedIsHighest, MoreLines

LEMMA TypesInit ==
  ASSUME Init
  PROVE  Types
  <1> USE AuditAssumption
  <1>1. calls = 0 /\ <<>> \in Seq(LinesOf(calls)) /\ NoLine \in LinesOf(calls)
    BY MoreLines DEF Init
  <1>2. segment \in [1..Backups -> Seq(LinesOf(calls))]
    BY <1>1 DEF Init
  <1>3. 0 \in 0..Backups - 1
    OBVIOUS
  <1>4. /\ seq \in 0..calls /\ prev \in 0..calls /\ calls \in 0..MaxWrites
        /\ kills \in 0..MaxKills /\ faults \in 0..MaxFaults
    BY DEF Init
  <1>5. /\ active \in Seq(LinesOf(calls)) /\ written \in Seq(LinesOf(calls))
        /\ cur \in LinesOf(calls) /\ k \in 0..Backups - 1
    BY <1>1, <1>3 DEF Init
  <1>6. present \in BOOLEAN /\ pc \in {"idle", "rotate", "append"}
    BY DEF Init
  <1> QED
    BY <1>2, <1>4, <1>5, <1>6, Zenon DEF Types

\* Every step keeps the types.
LEMMA TypesStep ==
  ASSUME Types, [Next]_vars
  PROVE  Types'
  <1> USE AuditAssumption
  <1>0. calls \in Nat /\ Backups \in Nat \ {0}
    BY DEF Types
  <1>1. ASSUME Begin PROVE Types'
    <2>1. /\ active \in Seq(LinesOf(calls + 1))
          /\ segment \in [1..Backups -> Seq(LinesOf(calls + 1))]
          /\ written \in Seq(LinesOf(calls + 1))
      <3> DEFINE S == Seq(LinesOf(calls))
                 R == Seq(LinesOf(calls + 1))
      <3>1. S \subseteq R /\ active \in S /\ written \in S
            /\ segment \in [1..Backups -> S]
        BY <1>0, MoreLines DEF Types
      <3> HIDE DEF S, R
      <3>2. active \in R /\ written \in R /\ segment \in [1..Backups -> R]
        BY <3>1
      <3> QED
        BY <3>2 DEF R
    <2>2. Line(calls + 1, seq + 1, prev) \in LinesOf(calls + 1)
      BY <1>0 DEF Types, LinesOf, Line
    <2>3. /\ calls' = calls + 1 /\ calls + 1 \in 0..MaxWrites
          /\ seq' \in 0..calls + 1 /\ prev' \in 0..calls + 1
          /\ k' \in 0..Backups - 1 /\ pc' \in {"idle", "rotate", "append"}
      BY <1>0, <1>1 DEF Begin, Types
    <2> QED
      BY <1>1, <2>1, <2>2, <2>3 DEF Begin, Types
  <1>2. ASSUME Shift PROVE Types'
    <2>1. segment' \in [1..Backups -> Seq(LinesOf(calls))]
      <3> DEFINE S == Seq(LinesOf(calls))
                 e == <<>>
      <3>1. segment \in [1..Backups -> S] /\ e \in S
            /\ k \in 1..Backups /\ k + 1 \in 1..Backups
        BY <1>0, <1>2 DEF Types, Shift
      <3>2. \/ segment' = segment
            \/ segment' = [segment EXCEPT ![k + 1] = segment[k], ![k] = e]
        BY <1>2 DEF Shift
      <3> HIDE DEF S, e
      <3> QED
        BY <3>1, <3>2 DEF S
    <2>2. k' \in 0..Backups - 1
      BY <1>0, <1>2 DEF Types, Shift
    <2> QED
      BY <1>2, <2>1, <2>2 DEF Shift, Types
  <1>3. ASSUME Retire PROVE Types'
    <2>1. segment' \in [1..Backups -> Seq(LinesOf(calls))]
      <3> DEFINE S == Seq(LinesOf(calls))
      <3>1. segment \in [1..Backups -> S] /\ active \in S
        BY DEF Types
      <3>2. segment' = segment \/ segment' = [segment EXCEPT ![1] = active]
        BY <1>3 DEF Retire
      <3> HIDE DEF S
      <3> QED
        BY <3>1, <3>2 DEF S
    <2>2. active' \in Seq(LinesOf(calls))
      BY <1>3 DEF Retire
    <2> QED
      BY <1>3, <2>1, <2>2 DEF Retire, Types
  <1>4. ASSUME Write PROVE Types'
    <2> DEFINE T == LinesOf(calls)
    <2>1. active \in Seq(T) /\ cur \in T /\ written \in Seq(T)
      BY DEF Types
    <2> HIDE DEF T
    <2>2. Appended(active, cur) \in Seq(T) /\ Append(written, cur) \in Seq(T)
      BY <2>1, AppendedType, AppendProperties
    <2>3. cur.hash \in 0..calls
      BY DEF Types, LinesOf
    <2> QED
      BY <1>0, <1>4, <2>2, <2>3, MoreLines DEF Write, Types, T
  <1>5. ASSUME Fail PROVE Types'
    <2> DEFINE T == LinesOf(calls)
    <2>1. active \in Seq(T) /\ TornLine \in T /\ NoLine \in T
      BY <1>0, MoreLines DEF Types
    <2> HIDE DEF T
    <2>2. Appended(active, TornLine) \in Seq(T)
      BY <2>1, AppendedType
    <2>3. active' \in Seq(T) /\ present' \in BOOLEAN
      BY <1>5, <2>1, <2>2 DEF Fail, Types
    <2>4. faults' \in 0..MaxFaults
      BY <1>5 DEF Fail, Types
    <2> QED
      BY <1>5, <2>1, <2>3, <2>4 DEF Fail, Types, T
  <1>6. ASSUME Kill PROVE Types'
    <2>1. Loaded.seq \in 0..calls /\ Loaded.hash \in 0..calls
      BY LoadedType DEF LinesOf
    <2>2. kills' \in 0..MaxKills
      BY <1>6 DEF Kill, Types
    <2> QED
      BY <1>0, <1>6, <2>1, <2>2, MoreLines DEF Kill, Types
  <1>7. ASSUME UNCHANGED vars PROVE Types'
    BY <1>7 DEF vars, Types
  <1> QED
    BY <1>1, <1>2, <1>3, <1>4, <1>5, <1>6, <1>7 DEF Next

\* A rotation never renames over a segment that is not the oldest one.
LEMMA RotatingStep ==
  ASSUME Types, Rotating, [Next]_vars
  PROVE  Rotating'
  <1> USE AuditAssumption
  <1>0. Backups \in Nat \ {0} /\ k \in 0..Backups - 1 /\ Len(active) \in Nat
    BY DEF Types
  <1>1. ASSUME Begin PROVE Rotating'
    BY <1>0, <1>1 DEF Begin, Rotating
  <1>2. ASSUME Shift PROVE Rotating'
    <2>1. k' + 1 = k /\ k' \in 0..Backups - 1 /\ k \in 1..Backups
          /\ k + 1 \in 1..Backups
      BY <1>0, <1>2 DEF Shift
    <2>2. segment'[k] = <<>>
      <3> DEFINE S == Seq(LinesOf(calls))
                 e == <<>>
      <3>1. segment \in [1..Backups -> S]
        BY DEF Types
      <3>2. \/ segment' = segment /\ segment[k] = e
            \/ segment' = [segment EXCEPT ![k + 1] = segment[k], ![k] = e]
        BY <1>2 DEF Shift
      <3> HIDE DEF S, e
      <3>3. segment'[k] = e
        BY <2>1, <3>1, <3>2
      <3> QED
        BY <3>3 DEF e
    <2> QED
      BY <1>2, <2>1, <2>2 DEF Shift, Rotating
  <1>3. ASSUME Retire PROVE Rotating'
    BY <1>3 DEF Retire, Rotating
  <1>4. ASSUME Write PROVE Rotating'
    BY <1>4 DEF Write, Rotating
  <1>5. ASSUME Fail PROVE Rotating'
    BY <1>5 DEF Fail, Rotating
  <1>6. ASSUME Kill PROVE Rotating'
    BY <1>6 DEF Kill, Rotating
  <1>7. ASSUME UNCHANGED vars PROVE Rotating'
    BY <1>7 DEF vars, Rotating
  <1> QED
    BY <1>1, <1>2, <1>3, <1>4, <1>5, <1>6, <1>7 DEF Next

----------------------------------------------------------------------------
(* What a step does to the retained lines.                                  *)

\* A rename loses the oldest segment when it overwrites that, else nothing.
LEMMA ShiftKeeps ==
  ASSUME Types, Rotating, Shift
  PROVE  \/ AllLines' = AllLines /\ UNCHANGED segment
         \/ /\ AllLines = Cat(segment[k + 1], AllLines')
            /\ segment[k] # <<>> /\ segment' = Shifted(segment, k)
            /\ k + 1 < Backups => segment[k + 1] = <<>>
  <1>1. k \in 1..Backups - 1 /\ UNCHANGED active
    BY AuditAssumption DEF Types, Shift
  <1>2. CASE segment[k] = <<>>
    BY <1>1, <1>2, AllLinesAre DEF Shift
  <1>3. CASE segment[k] # <<>>
    <2>1. segment' = Shifted(segment, k)
      BY <1>3 DEF Shift, Shifted
    <2>2. k + 1 = Backups \/ segment[k + 1] = <<>>
      BY <1>1, AuditAssumption DEF Rotating, Shift
    <2> DEFINE T == LinesOf(calls)
    <2>3. active \in Seq(T) /\ segment \in [1..Backups -> Seq(T)]
      BY DEF Types
    <2> HIDE DEF T
    <2>4. All(active, segment) = Cat(segment[k + 1], All(active, Shifted(segment, k)))
      BY <1>1, <2>2, <2>3, ShiftLines
    <2>5. k + 1 < Backups => segment[k + 1] = <<>>
      BY <1>1, <2>2, AuditAssumption
    <2> QED
      BY <1>1, <1>3, <2>1, <2>4, <2>5, AllLinesAre
  <1> QED
    BY <1>2, <1>3

\* Renaming the active file likewise.
LEMMA RetireKeeps ==
  ASSUME Types, Rotating, Retire
  PROVE  \/ AllLines' = AllLines /\ UNCHANGED segment /\ ~present
         \/ /\ AllLines = Cat(segment[1], AllLines') /\ present
            /\ segment' = [segment EXCEPT ![1] = active]
            /\ 1 < Backups => segment[1] = <<>>
  <1>1. CASE ~present
    <2>1. active = <<>> /\ active' = <<>> /\ segment' = segment
      BY <1>1 DEF Rotating, Retire
    <2> QED
      BY <1>1, <2>1, AllLinesAre
  <1>2. CASE present
    <2>1. segment' = [segment EXCEPT ![1] = active] /\ active' = <<>>
      BY <1>2 DEF Retire
    <2>2. 1 = Backups \/ segment[1] = <<>>
      BY AuditAssumption DEF Rotating, Retire
    <2> DEFINE T == LinesOf(calls)
    <2>3. active \in Seq(T) /\ segment \in [1..Backups -> Seq(T)]
      BY DEF Types
    <2> HIDE DEF T
    <2>4. All(active, segment)
            = Cat(segment[1], All(<<>>, [segment EXCEPT ![1] = active]))
      BY <2>2, <2>3, RetireLines
    <2>5. 1 < Backups => segment[1] = <<>>
      BY <2>2, AuditAssumption
    <2> QED
      BY <1>2, <2>1, <2>4, <2>5, AllLinesAre
  <1> QED
    BY <1>1, <1>2

\* A line reaches the end of the log, or is swallowed by a torn one.
LEMMA AppendKeeps ==
  ASSUME Types, NEW l \in LinesOf(calls), active' = Appended(active, l),
         UNCHANGED segment
  PROVE  \/ AllLines' = AllLines
         \/ AllLines' = Append(AllLines, l)
  <1> DEFINE T == LinesOf(calls)
  <1>1. active \in Seq(T) /\ segment \in [1..Backups -> Seq(T)] /\ l \in T
    BY DEF Types
  <1> HIDE DEF T
  <1>2. active' = active \/ active' = Append(active, l)
    BY <1>1, AppendedType
  <1>3. All(Append(active, l), segment) = Append(All(active, segment), l)
    BY <1>1, AppendLines
  <1> QED
    BY <1>2, <1>3, AllLinesAre

----------------------------------------------------------------------------
(* The numbers of the retained lines increase.                              *)

\* Whole lines are numbered in the order they stand in.
Ordered(lines) ==
  \A i, j \in Whole(lines) : i < j => lines[i].seq < lines[j].seq

\* Their numbers are taken, and the number of the write under way is new.
Increasing ==
  /\ Ordered(AllLines)
  /\ \A i \in Whole(AllLines) :
        AllLines[i].seq <= seq /\ (pc # "idle" => AllLines[i].seq < seq)
  /\ pc # "idle" => cur.seq = seq /\ ~cur.torn

\* Lines lost in front leave the order and the members of the rest.
LEMMA RestOrdered ==
  ASSUME NEW T, NEW x \in Seq(T), NEW y \in Seq(T), Ordered(Cat(x, y))
  PROVE  /\ Ordered(y)
         /\ \A i \in Whole(y) : \E j \in Whole(Cat(x, y)) : Cat(x, y)[j] = y[i]
  <1>1. ASSUME NEW i \in DOMAIN y
        PROVE  Len(x) + i \in DOMAIN Cat(x, y) /\ Cat(x, y)[Len(x) + i] = y[i]
    BY DEF Cat
  <1>2. ASSUME NEW i \in Whole(y)
        PROVE  Len(x) + i \in Whole(Cat(x, y)) /\ Cat(x, y)[Len(x) + i] = y[i]
    BY <1>1 DEF Whole
  <1>3. ASSUME NEW i \in Whole(y), NEW j \in Whole(y), i < j
        PROVE  y[i].seq < y[j].seq
    <2>1. Len(x) + i < Len(x) + j
      BY <1>3 DEF Whole
    <2> QED
      BY <1>2, <1>3, <2>1 DEF Ordered
  <1> QED
    BY <1>2, <1>3 DEF Ordered

\* A torn line, or one numbered above all.
Above(l, lines) == ~l.torn => \A i \in Whole(lines) : lines[i].seq < l.seq

\* A whole line of ys is one of xs, or l.
Kept(xs, ys, l) ==
  \A i \in Whole(ys) : \/ i \in Whole(xs) /\ ys[i] = xs[i]
                       \/ ~l.torn /\ ys[i] = l

\* A line of a higher number, or a torn one, may be appended.
LEMMA MoreOrdered ==
  ASSUME NEW T, NEW x \in Seq(T), NEW l \in T, Ordered(x),
         Above(l, x)
  PROVE  Ordered(Append(x, l)) /\ Kept(x, Append(x, l), l)
  <1> DEFINE y == Append(x, l)
             m == Len(x) + 1
  <1>1. /\ DOMAIN y = 1..m /\ DOMAIN x = 1..Len(x) /\ Len(x) \in Nat
        /\ y[m] = l /\ \A i \in 1..Len(x) : y[i] = x[i]
    BY AppendProperties
  <1> HIDE DEF y
  <1>2. \A i \in Whole(y) : \/ i \in Whole(x) /\ y[i] = x[i] /\ i < m
                            \/ i = m /\ ~l.torn /\ y[i] = l
    BY <1>1 DEF Whole
  <1>3. \A i \in Whole(y) : i \in 1..m
    BY <1>1 DEF Whole
  <1> HIDE DEF m
  <1>4. ASSUME NEW i \in Whole(y), NEW j \in Whole(y), i < j
        PROVE  y[i].seq < y[j].seq
    <2>1. i # m
      BY <1>1, <1>3, <1>4 DEF m
    <2>2. i \in Whole(x) /\ y[i] = x[i]
      BY <1>2, <2>1
    <2>3. CASE j = m
      <3>1. ~(j < m)
        BY <1>1, <2>3 DEF m
      <3>2. ~l.torn /\ y[j] = l
        BY <1>2, <3>1
      <3> QED
        BY <2>2, <3>2 DEF Above
    <2>4. CASE j # m
      BY <1>2, <1>4, <2>2, <2>4 DEF Ordered
    <2> QED
      BY <2>3, <2>4
  <1> QED
    BY <1>2, <1>4 DEF Ordered, Kept, y

\* Every step keeps the order, and a restart counts on from the highest number.
LEMMA IncreasingStep ==
  ASSUME Types, Rotating, Increasing, [Next]_vars
  PROVE  Increasing'
  <1> DEFINE T == LinesOf(calls)
             L == AllLines
             M == AllLines'
  <1>0. /\ L \in Seq(T) /\ seq \in Nat /\ \A i \in Whole(L) : L[i].seq \in Nat
    <2>1. L \in Seq(T)
      BY AllLinesType
    <2>2. \A i \in Whole(L) : L[i] \in T
      BY <2>1 DEF Whole
    <2> QED
      BY <2>1, <2>2 DEF Types, LinesOf
  <1>1. Ordered(L)
    BY DEF Increasing
  <1>2. ASSUME Begin PROVE Increasing'
    <2>1. M = L
      BY <1>2, AllLinesAre DEF Begin
    <2>2. seq' = seq + 1 /\ cur'.seq = seq + 1 /\ ~cur'.torn
      BY <1>2 DEF Begin, Line
    <2> HIDE DEF L, M
    <2>3. \A i \in Whole(M) : M[i].seq < seq'
      BY <1>0, <1>2, <2>1, <2>2 DEF Increasing, Begin, L
    <2>4. \A i \in Whole(M) : M[i].seq <= seq'
      BY <1>0, <2>1, <2>2, <2>3
    <2> QED
      BY <1>1, <2>1, <2>2, <2>3, <2>4 DEF Increasing, M
  <1>3. ASSUME Shift \/ Retire PROVE Increasing'
    <2>1. M = L \/ \E x \in Seq(T) : L = Cat(x, M)
      <3>1. CASE Shift
        <4>1. segment[k + 1] \in Seq(T)
          BY <3>1, AuditAssumption DEF Types, Shift
        <4> QED
          BY <3>1, <4>1, ShiftKeeps
      <3>2. CASE Retire
        <4>1. segment[1] \in Seq(T)
          BY <3>2, AuditAssumption DEF Types
        <4> QED
          BY <3>2, <4>1, RetireKeeps
      <3> QED
        BY <1>3, <3>1, <3>2
    <2>2. M \in Seq(T)
      <3>1. calls' = calls /\ Types'
        BY <1>3, TypesStep DEF Next, Shift, Retire
      <3>2. active' \in Seq(T) /\ segment' \in [1..Backups -> Seq(T)]
        BY <3>1 DEF Types
      <3> HIDE DEF T
      <3> QED
        BY <3>2, AllLinesAre, AllType
    <2>3. seq' = seq /\ cur' = cur /\ pc # "idle"
      BY <1>3 DEF Shift, Retire
    <2> HIDE DEF L, M, T
    <2>4. Ordered(M) /\ \A i \in Whole(M) : \E j \in Whole(L) : L[j] = M[i]
      BY <1>0, <1>1, <2>1, <2>2, RestOrdered
    <2>5. \A j \in Whole(L) : L[j].seq <= seq /\ L[j].seq < seq
      BY <2>3 DEF Increasing, L
    <2>6. cur.seq = seq /\ ~cur.torn
      BY <2>3 DEF Increasing
    <2> QED
      BY <2>3, <2>4, <2>5, <2>6 DEF Increasing, M
  <1>4. ASSUME Write PROVE Increasing'
    <2>1. cur \in T
      BY DEF Types
    <2>2. M = L \/ M = Append(L, cur)
      BY <1>4, <2>1, AppendKeeps DEF Write
    <2>3. cur.seq = seq /\ ~cur.torn /\ \A i \in Whole(L) : L[i].seq < seq
      BY <1>4 DEF Write, Increasing
    <2>4. seq' = seq /\ pc' = "idle"
      BY <1>4 DEF Write
    <2> HIDE DEF L, M, T
    <2>5. /\ Ordered(M)
          /\ \A i \in Whole(M) : (i \in Whole(L) /\ M[i] = L[i]) \/ M[i] = cur
      <3>1. CASE M = L
        BY <1>1, <3>1
      <3> DEFINE l == cur
      <3>0. l \in T /\ Above(l, L)
        BY <2>1, <2>3 DEF Above
      <3> HIDE DEF l
      <3>2. CASE M = Append(L, l)
        <4>1. Ordered(M) /\ Kept(L, M, l)
          BY <1>0, <1>1, <3>0, <3>2, MoreOrdered
        <4> QED
          BY <4>1, Zenon DEF Kept, l
      <3> QED
        BY <2>2, <3>1, <3>2 DEF l
    <2>6. \A i \in Whole(M) : M[i].seq <= seq
      BY <1>0, <2>3, <2>5
    <2> QED
      BY <2>4, <2>5, <2>6 DEF Increasing, M
  <1>5. ASSUME Fail PROVE Increasing'
    <2>1. TornLine \in T /\ TornLine.torn
      BY MoreLines DEF Types, TornLine
    <2>2. M = L \/ M = Append(L, TornLine)
      <3>1. UNCHANGED segment /\ active' \in {active, Appended(active, TornLine)}
        BY <1>5 DEF Fail
      <3>2. CASE active' = active
        BY <3>1, <3>2, AllLinesAre
      <3>3. CASE active' = Appended(active, TornLine)
        BY <2>1, <3>1, <3>3, AppendKeeps
      <3> QED
        BY <3>1, <3>2, <3>3
    <2>3. seq' = seq /\ pc' = "idle" /\ \A i \in Whole(L) : L[i].seq <= seq
      BY <1>5 DEF Fail, Increasing
    <2> HIDE DEF L, M, T
    <2>4. /\ Ordered(M)
          /\ \A i \in Whole(M) : i \in Whole(L) /\ M[i] = L[i]
      <3> DEFINE l == TornLine
      <3>1. l \in T /\ l.torn /\ Above(l, L)
        BY <2>1 DEF Above
      <3> HIDE DEF l
      <3>2. CASE M = L
        BY <1>1, <3>2
      <3>3. CASE M = Append(L, l)
        <4>1. Ordered(M) /\ Kept(L, M, l)
          BY <1>0, <1>1, <3>1, <3>3, MoreOrdered
        <4> QED
          BY <3>1, <4>1, Zenon DEF Kept
      <3> QED
        BY <2>2, <3>2, <3>3 DEF l
    <2> QED
      BY <2>3, <2>4 DEF Increasing, M
  <1>6. ASSUME Kill PROVE Increasing'
    <2>1. M = L
      BY <1>6, AllLinesAre DEF Kill
    <2>2. \A i \in Whole(L) : L[i].seq <= Loaded.seq
      BY LoadedIsHighest
    <2>3. seq' = Loaded.seq /\ pc' = "idle"
      BY <1>6 DEF Kill
    <2> HIDE DEF L, M
    <2> QED
      BY <1>1, <2>1, <2>2, <2>3 DEF Increasing, M
  <1>7. ASSUME UNCHANGED vars PROVE Increasing'
    BY <1>7, AllLinesAre DEF vars, Increasing
  <1> QED
    BY <1>2, <1>3, <1>4, <1>5, <1>6, <1>7 DEF Next

----------------------------------------------------------------------------
(* Types, and the detection of deletions.                                   *)

LogInv == Types /\ Rotating /\ Increasing

LEMMA LogInvHolds == Spec => []LogInv
  <1>1. ASSUME Init PROVE LogInv
    <2>1. Types
      BY <1>1, TypesInit
    <2>2. AllLines \in Seq(LinesOf(calls)) /\ Whole(AllLines) = {}
      <3>1. active = <<>> /\ segment = [i \in 1..Backups |-> <<>>]
        BY <1>1 DEF Init
      <3>2. active \in Seq({}) /\ segment \in [1..Backups -> Seq({})]
        BY <3>1
      <3>3. AllLines \in Seq({})
        BY <3>2, AllLinesAre, AllType
      <3>4. Whole(AllLines) = {}
        BY <3>3 DEF Whole
      <3> QED
        BY <2>1, <3>4, AllLinesType
    <2>3. Increasing
      BY <1>1, <2>2 DEF Increasing, Ordered, Init
    <2>4. Rotating
      BY <1>1 DEF Rotating, Init
    <2> QED
      BY <2>1, <2>3, <2>4 DEF LogInv
  <1>2. LogInv /\ [Next]_vars => LogInv'
    BY TypesStep, RotatingStep, IncreasingStep DEF LogInv
  <1> QED
    BY <1>1, <1>2, PTL DEF Spec

\* Type correctness.
THEOREM TypesHold == Spec => []TypeOK
  <1>1. ASSUME LogInv PROVE TypeOK
    <2>1. Types /\ calls \in 0..MaxWrites
      BY <1>1 DEF LogInv, Types
    <2>2. ASSUME NEW l \in LinesOf(calls) PROVE LineType(l)
      BY <2>1, AuditAssumption DEF LinesOf, LineType
    <2>3. AllLines \in Seq(LinesOf(calls)) /\ cur \in LinesOf(calls)
      BY <2>1, AllLinesType DEF Types
    <2>4. \A n \in DOMAIN AllLines : AllLines[n] \in LinesOf(calls)
      BY <2>3
    <2>5. /\ seq \in 0..MaxWrites /\ prev \in 0..MaxWrites /\ k \in 0..Backups
          /\ DOMAIN segment = 1..Backups
      BY <2>1, AuditAssumption DEF Types
    <2>6. \A n \in DOMAIN AllLines : LineType(AllLines[n])
      BY <2>2, <2>4
    <2>7. LineType(cur)
      BY <2>2, <2>3
    <2> QED
      BY <2>1, <2>5, <2>6, <2>7 DEF TypeOK, Types
  <1> QED
    BY <1>1, LogInvHolds, PTL

\* What stands where a line was removed.
LEMMA Removed ==
  ASSUME NEW T, NEW s \in Seq(T), NEW n \in 2..Len(s) - 1
  PROVE  /\ DOMAIN RemoveAt(s, n) = 1..Len(s) - 1
         /\ RemoveAt(s, n)[n - 1] = s[n - 1] /\ RemoveAt(s, n)[n] = s[n + 1]
  <1> DEFINE x == SubSeq(s, 1, n - 1)
             y == SubSeq(s, n + 1, Len(s))
  <1>1. /\ x \in Seq(T) /\ Len(x) = n - 1 /\ x[n - 1] = s[n - 1]
        /\ y \in Seq(T) /\ Len(y) = Len(s) - n /\ y[1] = s[n + 1]
    BY SubSeqProperties
  <1>2. RemoveAt(s, n) = x \o y
    BY DEF RemoveAt
  <1> HIDE DEF x, y
  <1>3. Len(s) \in Nat /\ Len(x) + Len(y) = Len(s) - 1
    BY <1>1
  <1> DEFINE r == x \o y
  <1>4. r \in Seq(T) /\ Len(r) = Len(s) - 1
    BY <1>1, <1>3, ConcatProperties
  <1>5. r[n - 1] = x[n - 1] /\ r[n] = y[1]
    BY <1>1, <1>3, ConcatProperties
  <1> HIDE DEF r
  <1>6. DOMAIN r = 1..Len(s) - 1
    BY <1>3, <1>4
  <1>7. RemoveAt(s, n) = r
    BY <1>2 DEF r
  <1> QED
    BY <1>1, <1>5, <1>6, <1>7

\* A record removed from the middle of the retained log leaves a gap in the
\* numbers of its neighbours, whatever failed and whatever was lost before.
THEOREM DeletionIsDetectedHolds == Spec => []DeletionIsDetected
  <1>1. ASSUME LogInv PROVE DeletionIsDetected
    <2> DEFINE L == AllLines
    <2>1. L \in Seq(LinesOf(calls)) /\ Ordered(L) /\ calls \in Nat
      BY <1>1, AllLinesType DEF LogInv, Increasing, Types
    <2> HIDE DEF L
    <2> SUFFICES ASSUME NEW n \in DOMAIN L \ {1, Len(L)}, ~L[n].torn,
                        Verifies(RemoveAt(L, n))
                 PROVE  FALSE
      BY DEF DeletionIsDetected, L
    <2> DEFINE R == RemoveAt(L, n)
    <2>2. n \in 2..Len(L) - 1 /\ Len(L) \in Nat
      BY <2>1
    <2>3. DOMAIN R = 1..Len(L) - 1 /\ R[n - 1] = L[n - 1] /\ R[n] = L[n + 1]
      BY <2>1, <2>2, Removed
    <2> HIDE DEF R
    <2>4. n - 1 \in DOMAIN R /\ n \in DOMAIN R \ {1}
      BY <2>2, <2>3
    <2>5. ~R[n - 1].torn /\ ~R[n].torn /\ R[n].seq = R[n - 1].seq + 1
      BY <2>4 DEF Verifies, R
    <2>6. /\ n - 1 \in Whole(L) /\ n \in Whole(L) /\ n + 1 \in Whole(L)
          /\ n - 1 < n /\ n < n + 1
      BY <2>1, <2>2, <2>3, <2>5 DEF Whole
    <2>7. L[n - 1].seq < L[n].seq /\ L[n].seq < L[n + 1].seq
      BY <2>1, <2>6 DEF Ordered
    <2>8. \A i \in 1..Len(L) : L[i].seq \in Nat
      <3>1. \A i \in 1..Len(L) : L[i] \in LinesOf(calls)
        BY <2>1
      <3>2. \A l \in LinesOf(calls) : l.seq \in Nat
        BY <2>1 DEF LinesOf
      <3> QED
        BY <3>1, <3>2
    <2>9. L[n - 1].seq \in Nat /\ L[n].seq \in Nat /\ L[n + 1].seq \in Nat
      BY <2>2, <2>8
    <2> QED
      BY <2>3, <2>5, <2>7, <2>9
  <1> QED
    BY <1>1, LogInvHolds, PTL

----------------------------------------------------------------------------
(* The chain, while no file operation fails.                                *)

\* The records written form a chain numbered from 1.
Numbered(w) ==
  \A n \in DOMAIN w : /\ ~w[n].torn /\ w[n].seq = n
                      /\ w[n].prev = IF n = 1 THEN 0 ELSE w[n - 1].hash

\* Lines are what follows the first n records of w, of which the last is kept.
Follow(lines, w, n) ==
  /\ n \in 0..Len(w)
  /\ lines = SubSeq(w, n + 1, Len(w))
  /\ w # <<>> => n < Len(w)

LastHash(w) == IF w = <<>> THEN 0 ELSE w[Len(w)].hash

\* The retained lines are a suffix of the records, nothing is lost before the
\* oldest place is taken, and the writer's state continues the chain.
Chained ==
  faults = 0 =>
    /\ Numbered(written)
    /\ \E n \in 0..Len(written) :
          /\ Follow(AllLines, written, n)
          /\ n > 0 => segment[Backups] # <<>>
    /\ prev = LastHash(written)
    /\ pc = "idle" => seq = Len(written)
    /\ pc # "idle" => seq = Len(written) + 1 /\ cur.prev = prev
    /\ \A n \in DOMAIN active : ~active[n].torn

\* The lines of a suffix.
LEMMA FollowLines ==
  ASSUME NEW T, NEW w \in Seq(T), NEW n, NEW lines, Follow(lines, w, n)
  PROVE  /\ lines \in Seq(T) /\ n \in Nat /\ Len(w) \in Nat /\ n <= Len(w)
         /\ Len(lines) = Len(w) - n
         /\ \A i \in 1..Len(w) - n : lines[i] = w[n + i]
  BY SubSeqProperties DEF Follow

\* Losing lines in front leaves a shorter suffix, unless nothing is left.
LEMMA FollowRest ==
  ASSUME NEW T, NEW w \in Seq(T), NEW n, NEW x \in Seq(T), NEW y \in Seq(T),
         Follow(Cat(x, y), w, n), y # <<>>
  PROVE  Follow(y, w, n + Len(x))
  <1> DEFINE l == Cat(x, y)
             m == n + Len(x)
             z == SubSeq(w, m + 1, Len(w))
  <1>1. /\ n \in Nat /\ Len(w) \in Nat /\ n <= Len(w) /\ Len(l) = Len(w) - n
        /\ \A i \in 1..Len(w) - n : l[i] = w[n + i]
    BY FollowLines
  <1>2. /\ Len(l) = Len(x) + Len(y) /\ Len(x) \in Nat /\ Len(y) \in Nat \ {0}
        /\ \A i \in 1..Len(y) : l[Len(x) + i] = y[i]
    BY EmptySeq DEF Cat
  <1>3. m \in Nat /\ m < Len(w) /\ Len(y) = Len(w) - m
    <2> DEFINE a == Len(x)
               b == Len(y)
               c == Len(w)
    <2>1. /\ a \in Nat /\ b \in Nat /\ b # 0 /\ c \in Nat /\ n \in Nat
          /\ a + b = c - n /\ m = n + a
      BY <1>1, <1>2
    <2> HIDE DEF a, b, c, m
    <2>2. m \in Nat /\ m < c /\ b = c - m
      BY <2>1
    <2> QED
      BY <2>2 DEF b, c
  <1>4. ASSUME NEW i \in 1..Len(y) PROVE y[i] = w[m + i]
    <2> DEFINE j == Len(x) + i
    <2>1. j \in 1..Len(w) - n /\ n + j = m + i
      BY <1>1, <1>2
    <2> HIDE DEF j, m
    <2>2. l[j] = w[n + j]
      BY <1>1, <2>1
    <2>3. l[j] = y[i]
      BY <1>2 DEF j
    <2> QED
      BY <2>1, <2>2, <2>3
  <1>5. z \in Seq(T) /\ Len(z) = Len(w) - m /\ \A i \in 1..Len(w) - m : z[i] = w[m + i]
    BY <1>3, SubSeqProperties
  <1> HIDE DEF z, m, l
  <1>6. y = z
    BY <1>3, <1>4, <1>5, SeqEqual
  <1>7. m \in 0..Len(w)
    BY <1>1, <1>3
  <1> QED
    BY <1>3, <1>6, <1>7 DEF Follow, z, m

\* One more record is one more line.
LEMMA FollowMore ==
  ASSUME NEW T, NEW w \in Seq(T), NEW n, NEW lines, NEW l \in T,
         Follow(lines, w, n)
  PROVE  Follow(Append(lines, l), Append(w, l), n)
  <1> DEFINE v == Append(w, l)
             y == Append(lines, l)
             z == SubSeq(v, n + 1, Len(w) + 1)
  <1>1. /\ lines \in Seq(T) /\ n \in Nat /\ Len(w) \in Nat /\ n <= Len(w)
        /\ Len(lines) = Len(w) - n
        /\ \A i \in 1..Len(w) - n : lines[i] = w[n + i]
    BY FollowLines
  <1>2. /\ v \in Seq(T) /\ Len(v) = Len(w) + 1 /\ v[Len(w) + 1] = l
        /\ \A i \in 1..Len(w) : v[i] = w[i]
    BY AppendProperties
  <1>3. /\ y \in Seq(T) /\ Len(y) = Len(w) + 1 - n /\ y[Len(w) + 1 - n] = l
        /\ \A i \in 1..Len(w) - n : y[i] = lines[i]
    BY <1>1, AppendProperties
  <1> HIDE DEF v, y
  <1>4. /\ z \in Seq(T) /\ Len(z) = Len(w) + 1 - n
        /\ \A i \in 1..Len(w) + 1 - n : z[i] = v[n + i]
    BY <1>1, <1>2, SubSeqProperties
  <1>5. ASSUME NEW i \in 1..Len(w) + 1 - n PROVE y[i] = v[n + i]
    <2>1. CASE i = Len(w) + 1 - n
      <3>1. n + i = Len(w) + 1
        BY <1>1, <2>1
      <3> QED
        BY <1>2, <1>3, <2>1, <3>1
    <2>2. CASE i # Len(w) + 1 - n
      <3>1. i \in 1..Len(w) - n /\ n + i \in 1..Len(w)
        BY <1>1, <2>2
      <3> QED
        BY <1>1, <1>2, <1>3, <3>1
    <2> QED
      BY <2>1, <2>2
  <1> HIDE DEF z
  <1>6. y = z
    BY <1>1, <1>3, <1>4, <1>5, SeqEqual
  <1>7. n \in 0..Len(v) /\ n < Len(v)
    BY <1>1, <1>2
  <1> QED
    BY <1>2, <1>6, <1>7 DEF Follow, v, y, z

\* What _load_chain_state finds in a suffix of the chain is its end.
LEMMA LoadedIsLast ==
  ASSUME Types, NEW n, Numbered(written), Follow(AllLines, written, n)
  PROVE  Loaded.seq = Len(written) /\ Loaded.hash = LastHash(written)
  <1> DEFINE T == LinesOf(calls)
             w == written
             L == AllLines
             m == Len(w) - n
  <1>1. w \in Seq(T)
    BY DEF Types
  <1>2. /\ L \in Seq(T) /\ n \in Nat /\ Len(w) \in Nat /\ n <= Len(w)
        /\ Len(L) = m /\ \A i \in 1..m : L[i] = w[n + i]
    BY <1>1, FollowLines
  <1>3. \A i \in 1..m : n + i \in DOMAIN w /\ i \in Whole(L) /\ L[i].seq = n + i
    <2> SUFFICES ASSUME NEW i \in 1..m
                 PROVE  n + i \in DOMAIN w /\ i \in Whole(L) /\ L[i].seq = n + i
      OBVIOUS
    <2>1. n + i \in DOMAIN w /\ i \in DOMAIN L /\ L[i] = w[n + i]
      BY <1>1, <1>2
    <2> QED
      BY <2>1 DEF Numbered, Whole
  <1>4. CASE w = <<>>
    <2>1. Whole(L) = {}
      BY <1>2, <1>4 DEF Whole
    <2>2. Loaded = NoLine
      BY <2>1, LoadedIsHighest
    <2> QED
      BY <1>4, <2>2 DEF NoLine, Line, LastHash
  <1>5. CASE w # <<>>
    <2>1. m \in 1..m /\ n + m = Len(w)
      BY <1>2, <1>5 DEF Follow
    <2>2. m \in Whole(L) /\ L[m].seq = Len(w) /\ L[m] = w[Len(w)]
      <3> HIDE DEF m, L, w
      <3> QED
        BY <1>2, <1>3, <2>1
    <2>3. PICK i \in Whole(L) : Loaded = L[i] /\ L[m].seq <= L[i].seq
      BY <2>2, LoadedIsHighest
    <2>4. i \in 1..m
      BY <1>2 DEF Whole
    <2>5. L[i].seq = n + i
      BY <1>3, <2>4
    <2>6. i = m
      <3>1. Len(w) <= n + i /\ m \in Nat
        BY <1>2, <2>2, <2>3, <2>5
      <3> HIDE DEF L, w
      <3> QED
        BY <1>2, <2>1, <2>4, <3>1
    <2> QED
      BY <1>5, <2>2, <2>3, <2>6 DEF LastHash
  <1> QED
    BY <1>4, <1>5

\* A log with a line in one of its files is not empty.
LEMMA SomeLine ==
  ASSUME NEW T, NEW a \in Seq(T), NEW sg \in [1..Backups -> Seq(T)],
         NEW i \in 1..Backups, sg[i] # <<>>
  PROVE  All(a, sg) # <<>>
  <1> DEFINE s == Files(a, sg)
             j == Backups + 1 - i
  <1>1. Backups \in Nat \ {0} /\ j \in 1..Backups /\ Backups + 1 - j = i
    BY AuditAssumption
  <1>2. Placed(s, a, sg, T)
    BY FilesType
  <1> HIDE DEF s, j
  <1>3. s[j] = sg[i] /\ s \in Seq(Seq(T)) /\ s # <<>> /\ Len(s) = Backups + 1
    BY <1>1, <1>2 DEF Placed
  <1>4. Len(s[j]) >= 1
    BY <1>3, EmptySeq
  <1>5. j \in Long(s, 1)
    BY <1>1, <1>3, <1>4 DEF Long
  <1> DEFINE G == Long(s, 1)
  <1>6. IsFiniteSet(G) /\ Cardinality(G) \in Nat
    <2>1. G \subseteq 1..Backups + 1
      BY <1>3 DEF Long
    <2>2. IsFiniteSet(1..Backups + 1)
      BY <1>1, FS_Interval
    <2> QED
      BY <2>1, <2>2, FS_Subset, FS_CardinalityType
  <1>7. Cardinality(G) # 0
    BY <1>5, <1>6, FS_EmptySet
  <1>8. Len(FlattenSeq(s)) >= 1 * Cardinality(G)
    BY <1>3, FlattenLength
  <1>9. Len(FlattenSeq(s)) # 0
    <2> HIDE DEF G
    <2> QED
      BY <1>6, <1>7, <1>8
  <1> QED
    BY <1>9 DEF All, s

\* A rename keeps a suffix: what it overwrites, if anything, is the oldest
\* place, which is not empty afterwards.
LEMMA RenameFollows ==
  ASSUME Types, Types', Rotating, Shift \/ Retire, NEW n,
         Follow(AllLines, written, n), n > 0 => segment[Backups] # <<>>
  PROVE  \E m : /\ Follow(AllLines', written, m)
                /\ m > 0 => segment'[Backups] # <<>>
  <1> USE AuditAssumption
  <1> DEFINE T == LinesOf(calls)
  <1>1. /\ active' \in Seq(T) /\ segment' \in [1..Backups -> Seq(T)]
        /\ segment \in [1..Backups -> Seq(T)] /\ written \in Seq(T)
        /\ active \in Seq(T) /\ AllLines \in Seq(T)
    <2>1. calls' = calls
      BY DEF Shift, Retire
    <2> QED
      BY <2>1, AllLinesType DEF Types
  <1> HIDE DEF T
  <1>2. ASSUME NEW i \in 1..Backups, AllLines = Cat(segment[i], AllLines'),
               segment'[i] # <<>>,
               i = Backups \/ (/\ segment[i] = <<>>
                               /\ segment'[Backups] = segment[Backups])
        PROVE  \E m : /\ Follow(AllLines', written, m)
                      /\ m > 0 => segment'[Backups] # <<>>
    <2> DEFINE x == segment[i]
               y == AllLines'
    <2>1. x \in Seq(T) /\ y \in Seq(T) /\ y # <<>>
      BY <1>1, <1>2, AllLinesAre, AllType, SomeLine
    <2>2. Follow(Cat(x, y), written, n) /\ written \in Seq(T)
      BY <1>1, <1>2
    <2> DEFINE m == n + Len(x)
    <2> HIDE DEF x, y
    <2>3. Follow(y, written, m)
      BY <2>1, <2>2, FollowRest
    <2>4. CASE i = Backups
      BY <1>2, <2>3, <2>4 DEF y
    <2>5. CASE i # Backups
      <3>1. x = <<>> /\ segment'[Backups] = segment[Backups]
        BY <1>2, <2>5 DEF x
      <3>2. n \in Nat
        BY <2>2 DEF Follow
      <3>3. m = n
        BY <3>1, <3>2
      <3> QED
        BY <2>3, <3>1, <3>3 DEF y
    <2> QED
      BY <2>4, <2>5
  <1>3. CASE Shift
    <2>1. k \in 1..Backups - 1 /\ k \in 1..Backups /\ k + 1 \in 1..Backups
      BY <1>3 DEF Types, Shift
    <2>2. CASE AllLines' = AllLines /\ UNCHANGED segment
      BY <2>2
    <2>3. CASE /\ AllLines = Cat(segment[k + 1], AllLines')
               /\ segment[k] # <<>> /\ segment' = Shifted(segment, k)
               /\ k + 1 < Backups => segment[k + 1] = <<>>
      <3> DEFINE i == k + 1
                 e == <<>>
      <3>1. /\ segment' = [segment EXCEPT ![i] = segment[k], ![k] = e]
            /\ i \in 1..Backups /\ k \in 1..Backups /\ i # k /\ Backups \in 1..Backups
            /\ k # Backups
        BY <2>1, <2>3 DEF Shifted
      <3> HIDE DEF i, e
      <3>2. segment'[i] = segment[k]
            /\ (i # Backups => segment'[Backups] = segment[Backups])
        BY <1>1, <3>1
      <3> USE DEF i
      <3>3. segment'[k + 1] # <<>>
        BY <2>3, <3>2
      <3>4. k + 1 = Backups \/ (/\ segment[k + 1] = <<>>
                                /\ segment'[Backups] = segment[Backups])
        BY <2>1, <2>3, <3>2
      <3> QED
        BY <1>2, <2>1, <2>3, <3>3, <3>4
    <2> QED
      BY <1>3, <2>2, <2>3, ShiftKeeps
  <1>4. CASE Retire
    <2>1. CASE AllLines' = AllLines /\ UNCHANGED segment
      BY <2>1
    <2>2. CASE /\ AllLines = Cat(segment[1], AllLines') /\ present
               /\ segment' = [segment EXCEPT ![1] = active]
               /\ 1 < Backups => segment[1] = <<>>
      <3>1. active # <<>> /\ 1 \in 1..Backups /\ Backups \in 1..Backups
        BY <1>4, <2>2 DEF Rotating, Retire
      <3>2. segment'[1] = active
            /\ (1 # Backups => segment'[Backups] = segment[Backups])
        BY <1>1, <2>2, <3>1
      <3>3. segment'[1] # <<>>
        BY <3>1, <3>2
      <3>4. 1 = Backups \/ (/\ segment[1] = <<>>
                            /\ segment'[Backups] = segment[Backups])
        BY <2>2, <3>2
      <3> QED
        BY <1>2, <2>2, <3>1, <3>3, <3>4
    <2> QED
      BY <1>4, <2>1, <2>2, RetireKeeps
  <1> QED
    BY <1>3, <1>4

\* The chain continues, through rotations and restarts.
LEMMA ChainedStep ==
  ASSUME LogInv, LogInv', Chained, [Next]_vars
  PROVE  Chained'
  <1> USE DEF LogInv
  <1>0. Types /\ Types' /\ Rotating
    OBVIOUS
  <1> SUFFICES ASSUME faults' = 0 PROVE Chained'
    BY DEF Chained
  <1>1. faults \in Nat /\ faults = 0
    BY DEF Types, Next, vars, Begin, Shift, Retire, Write, Fail, Kill
  <1>2. PICK n \in 0..Len(written) :
          /\ Follow(AllLines, written, n)
          /\ n > 0 => segment[Backups] # <<>>
    BY <1>1 DEF Chained
  <1>3. /\ Numbered(written) /\ prev = LastHash(written)
        /\ pc = "idle" => seq = Len(written)
        /\ pc # "idle" => seq = Len(written) + 1 /\ cur.prev = prev
        /\ \A i \in DOMAIN active : ~active[i].torn
    BY <1>1 DEF Chained
  <1>4. CASE Begin
    <2>1. AllLines' = AllLines /\ UNCHANGED <<written, segment, active, prev>>
      BY <1>4, AllLinesAre DEF Begin
    <2>2. seq' = Len(written) + 1 /\ cur'.prev = prev /\ pc' # "idle"
      BY <1>3, <1>4 DEF Begin, Line
    <2> QED
      BY <1>2, <1>3, <2>1, <2>2 DEF Chained
  <1>5. CASE Shift \/ Retire
    <2>1. PICK m : Follow(AllLines', written, m)
                   /\ (m > 0 => segment'[Backups] # <<>>)
      BY <1>0, <1>2, <1>5, RenameFollows
    <2>2. UNCHANGED <<written, prev, seq, cur>> /\ pc # "idle" /\ pc' # "idle"
      BY <1>5 DEF Shift, Retire
    <2>3. active' \in {active, <<>>}
      BY <1>5 DEF Shift, Retire
    <2>4. m \in 0..Len(written)
      BY <2>1 DEF Follow
    <2>5. \A i \in DOMAIN active' : ~active'[i].torn
      BY <1>3, <2>3
    <2> QED
      BY <1>3, <2>1, <2>2, <2>4, <2>5 DEF Chained
  <1>6. CASE Write
    <2> DEFINE T == LinesOf(calls)
    <2>1. /\ active \in Seq(T) /\ segment \in [1..Backups -> Seq(T)]
          /\ written \in Seq(T) /\ cur \in T
      BY <1>0 DEF Types
    <2>2. /\ cur.seq = seq /\ ~cur.torn /\ seq = Len(written) + 1
          /\ cur.prev = LastHash(written)
      BY <1>3, <1>6 DEF Increasing, Write
    <2> HIDE DEF T
    <2>3. active' = Append(active, cur)
      BY <1>3, <1>6, <2>1 DEF Write, Appended
    <2>4. AllLines' = Append(AllLines, cur)
      BY <1>6, <2>1, <2>3, AllLinesAre, AppendLines DEF Write
    <2>5. written' = Append(written, cur)
      BY <1>6 DEF Write
    <2>6. Follow(AllLines', written', n)
      BY <1>2, <2>1, <2>4, <2>5, FollowMore
    <2>7. /\ Len(written') = Len(written) + 1 /\ written' # <<>>
          /\ DOMAIN written' = 1..Len(written) + 1
          /\ Len(written) \in Nat /\ DOMAIN written = 1..Len(written)
          /\ written'[Len(written) + 1] = cur
          /\ \A i \in 1..Len(written) : written'[i] = written[i]
      BY <2>1, <2>5, AppendProperties
    <2>8. Numbered(written')
      <3> SUFFICES ASSUME NEW i \in DOMAIN written'
                   PROVE  /\ ~written'[i].torn /\ written'[i].seq = i
                          /\ written'[i].prev = IF i = 1 THEN 0
                                                ELSE written'[i - 1].hash
        BY DEF Numbered
      <3>1. CASE i \in 1..Len(written)
        <4>1. written'[i] = written[i]
              /\ (i # 1 => written'[i - 1] = written[i - 1])
          BY <2>7, <3>1
        <4> QED
          BY <1>3, <2>7, <3>1, <4>1 DEF Numbered
      <3>2. CASE i = Len(written) + 1
        <4>1. written'[i] = cur
          BY <2>7, <3>2
        <4>2. CASE i = 1
          <5>1. written = <<>>
            BY <2>1, <2>7, <3>2, <4>2, EmptySeq
          <5> QED
            BY <2>2, <3>2, <4>1, <4>2, <5>1 DEF LastHash
        <4>3. CASE i # 1
          <5>1. written # <<>> /\ i - 1 = Len(written)
                /\ written'[i - 1] = written[Len(written)]
            BY <2>7, <3>2, <4>3
          <5> QED
            BY <2>2, <3>2, <4>1, <4>3, <5>1 DEF LastHash
        <4> QED
          BY <4>2, <4>3
      <3> QED
        BY <2>7, <3>1, <3>2
    <2>9. prev' = LastHash(written')
      BY <1>6, <2>7 DEF Write, LastHash
    <2>10. \A i \in DOMAIN active' : ~active'[i].torn
      <3>1. \A i \in DOMAIN active' : active'[i] = cur
                                      \/ (i \in DOMAIN active /\ active'[i] = active[i])
        BY <2>1, <2>3, AppendProperties
      <3> QED
        BY <1>3, <2>2, <3>1
    <2>11. seq' = Len(written') /\ pc' = "idle" /\ segment' = segment
           /\ n \in 0..Len(written')
      BY <1>6, <2>2, <2>7 DEF Write
    <2> QED
      BY <1>2, <2>6, <2>8, <2>9, <2>10, <2>11 DEF Chained
  <1>7. CASE Fail
    BY <1>1, <1>7 DEF Fail
  <1>8. CASE Kill
    <2>1. AllLines' = AllLines /\ UNCHANGED <<written, segment, active>>
      BY <1>8, AllLinesAre DEF Kill
    <2>2. Loaded.seq = Len(written) /\ Loaded.hash = LastHash(written)
      BY <1>0, <1>2, <1>3, LoadedIsLast
    <2>3. seq' = Len(written) /\ prev' = LastHash(written) /\ pc' = "idle"
      BY <1>8, <2>2 DEF Kill
    <2> QED
      BY <1>2, <1>3, <2>1, <2>3 DEF Chained
  <1>9. CASE UNCHANGED vars
    BY <1>9, <1>2, <1>3, AllLinesAre DEF vars, Chained
  <1> QED
    BY <1>4, <1>5, <1>6, <1>7, <1>8, <1>9 DEF Next

LEMMA EmptyLog ==
  ASSUME Init
  PROVE  AllLines = <<>>
  <1>1. active = <<>> /\ segment = [i \in 1..Backups |-> <<>>]
    BY DEF Init
  <1>2. active \in Seq({}) /\ segment \in [1..Backups -> Seq({})]
    BY <1>1
  <1>3. AllLines \in Seq({})
    BY <1>2, AllLinesAre, AllType
  <1> QED
    BY <1>3

LEMMA ChainedInit ==
  ASSUME Init
  PROVE  Chained
  <1>1. AllLines = <<>> /\ written = <<>> /\ active = <<>>
    BY EmptyLog DEF Init
  <1>2. SubSeq(written, 0 + 1, Len(written)) = <<>> /\ 0 \in 0..Len(written)
    BY <1>1
  <1>3. Follow(AllLines, written, 0)
    BY <1>1, <1>2 DEF Follow
  <1>4. Numbered(written) /\ LastHash(written) = 0
    BY <1>1 DEF Numbered, LastHash
  <1>5. prev = 0 /\ seq = 0 /\ pc = "idle" /\ Len(written) = 0
    BY <1>1 DEF Init
  <1>6. \E n \in 0..Len(written) : /\ Follow(AllLines, written, n)
                                   /\ n > 0 => segment[Backups] # <<>>
    BY <1>2, <1>3
  <1>7. \A n \in DOMAIN active : ~active[n].torn
    BY <1>1
  <1> QED
    BY <1>4, <1>5, <1>6, <1>7 DEF Chained

LEMMA ChainedHolds == Spec => []Chained
  <1>1. Init => Chained
    BY ChainedInit
  <1>2. LogInv /\ LogInv' /\ Chained /\ [Next]_vars => Chained'
    BY ChainedStep
  <1> QED
    BY <1>1, <1>2, LogInvHolds, PTL DEF Spec

\* While no file operation fails, the chain verifies in every state, whatever
\* steps of rotations kills interrupt, and ends in the last completed write.
THEOREM ChainSurvivesHolds == Spec => []ChainSurvives
  <1>1. ASSUME LogInv, Chained PROVE ChainSurvives
    <2> SUFFICES ASSUME faults = 0
                 PROVE  /\ Verifies(AllLines)
                        /\ written # <<>> =>
                             LastSeq(AllLines) = written[Len(written)].seq
      BY DEF ChainSurvives
    <2> DEFINE w == written
               L == AllLines
    <2>1. PICK n \in 0..Len(w) : Follow(L, w, n)
      BY <1>1 DEF Chained
    <2> DEFINE T == LinesOf(calls)
    <2>2. Numbered(w) /\ w \in Seq(T)
      BY <1>1 DEF Chained, LogInv, Types
    <2> HIDE DEF w, L, T
    <2>3. /\ L \in Seq(T) /\ n \in Nat /\ Len(w) \in Nat
          /\ n <= Len(w) /\ Len(L) = Len(w) - n
          /\ \A i \in 1..Len(w) - n : L[i] = w[n + i]
      BY <2>1, <2>2, FollowLines
    <2>4. DOMAIN L = 1..Len(w) - n /\ DOMAIN w = 1..Len(w)
      BY <2>2, <2>3
    <2>5. \A i \in DOMAIN L : n + i \in DOMAIN w /\ L[i] = w[n + i]
      BY <2>3, <2>4
    <2>6. \A i \in DOMAIN L : ~L[i].torn /\ L[i].seq = n + i
      BY <2>2, <2>5 DEF Numbered
    <2>7. ASSUME NEW i \in DOMAIN L \ {1}
          PROVE  L[i].prev = L[i - 1].hash /\ L[i].seq = L[i - 1].seq + 1
      <3>1. i - 1 \in DOMAIN L /\ n + i # 1 /\ n + (i - 1) = (n + i) - 1
            /\ n + i \in DOMAIN w /\ n + i = n + (i - 1) + 1
        BY <2>3, <2>4
      <3>2. L[i] = w[n + i] /\ L[i - 1] = w[(n + i) - 1]
        BY <2>5, <3>1
      <3>3. w[n + i].prev = w[(n + i) - 1].hash
        BY <2>2, <3>1 DEF Numbered
      <3> QED
        BY <2>6, <3>1, <3>2, <3>3
    <2>8. Verifies(L)
      BY <2>6, <2>7 DEF Verifies
    <2>9. ASSUME w # <<>> PROVE LastSeq(L) = w[Len(w)].seq
      <3>1. n < Len(w)
        BY <2>1, <2>9 DEF Follow
      <3> DEFINE m == Len(w) - n
      <3>2. m \in DOMAIN L /\ Len(L) = m /\ n + m = Len(w)
        BY <2>3, <2>4, <3>1
      <3> HIDE DEF m
      <3>3. L[m] = w[Len(w)] /\ L # <<>>
        BY <2>5, <3>2
      <3> QED
        BY <3>2, <3>3 DEF LastSeq
    <2> QED
      BY <2>8, <2>9 DEF w, L
  <1> QED
    BY <1>1, LogInvHolds, ChainedHolds, PTL

----------------------------------------------------------------------------
(* How much is retained.                                                    *)

\* Empty places in front of which an older segment is left.
Gap(sg, i) == sg[i] = <<>> /\ \E j \in i + 1..Backups : sg[j] # <<>>
Holes(sg) == {i \in 1..Backups : Gap(sg, i)}

\* The holes, but for the one the rotation under way is about to fill.
Settled == Holes(segment) \ (IF pc = "rotate" THEN {k + 1} ELSE {})

\* Every segment was full when it was renamed; a hole is what a kill left, and
\* a kill is left to pay for the hole that a missing active file will make.
Sized ==
  faults = 0 =>
    /\ \A i \in 1..Backups : segment[i] # <<>> => Len(segment[i]) >= MaxLines
    /\ Cardinality(Settled) <= kills
    /\ ~present /\ pc # "append" =>
         \/ \A i \in 1..Backups : segment[i] = <<>>
         \/ Cardinality(Settled) < kills

LEMMA HolesFinite ==
  ASSUME NEW sg
  PROVE  /\ Holes(sg) \subseteq 1..Backups /\ IsFiniteSet(Holes(sg))
         /\ \A S \in SUBSET Holes(sg) : /\ IsFiniteSet(S)
                                        /\ Cardinality(S) \in Nat
                                        /\ Cardinality(S) <= Cardinality(Holes(sg))
  <1>1. IsFiniteSet(1..Backups)
    BY AuditAssumption, FS_Interval
  <1>2. Holes(sg) \subseteq 1..Backups
    BY DEF Holes
  <1>3. IsFiniteSet(Holes(sg))
    BY <1>1, <1>2, FS_Subset
  <1> HIDE DEF Holes
  <1>4. ASSUME NEW S \in SUBSET Holes(sg)
        PROVE  /\ IsFiniteSet(S) /\ Cardinality(S) \in Nat
               /\ Cardinality(S) <= Cardinality(Holes(sg))
    BY <1>3, FS_Subset, FS_CardinalityType
  <1> QED
    BY <1>2, <1>3, <1>4

\* Leaving one element out costs at most one.
LEMMA AllButOne ==
  ASSUME NEW S, IsFiniteSet(S), NEW x
  PROVE  /\ IsFiniteSet(S \ {x}) /\ Cardinality(S) \in Nat
         /\ Cardinality(S \ {x}) \in Nat
         /\ Cardinality(S) = Cardinality(S \ {x}) + (IF x \in S THEN 1 ELSE 0)
  <1>1. IsFiniteSet(S \ {x}) /\ Cardinality(S) \in Nat
        /\ Cardinality(S \ {x}) \in Nat
    BY FS_Subset, FS_CardinalityType
  <1>2. CASE x \in S
    BY <1>1, <1>2, FS_RemoveElement
  <1>3. CASE x \notin S
    <2>1. S \ {x} = S
      BY <1>3
    <2> DEFINE c == Cardinality(S)
               d == Cardinality(S \ {x})
    <2>2. d = c /\ c \in Nat
      BY <1>1, <2>1
    <2> HIDE DEF c, d
    <2>3. c = d + (IF x \in S THEN 1 ELSE 0)
      BY <1>3, <2>2
    <2> QED
      BY <1>1, <2>3 DEF c, d
  <1> QED
    BY <1>2, <1>3

\* The rename of a segment moves no hole: it makes one where the next rename
\* will put a segment.
LEMMA ShiftHoles ==
  ASSUME NEW T, NEW sg \in [1..Backups -> Seq(T)], NEW n \in 1..Backups - 1,
         sg[n] # <<>>
  PROVE  Holes(Shifted(sg, n)) \ {n} = Holes(sg) \ {n + 1}
  <1> USE AuditAssumption
  <1>1. n \in 1..Backups /\ n + 1 \in 1..Backups /\ n # n + 1
    OBVIOUS
  <1>2. Holes(Shifted(sg, n)) \ {n} = Holes(sg) \ {n + 1}
    <2> DEFINE g == Shifted(sg, n)
               e == <<>>
               m == n + 1
    <2>1. g = [sg EXCEPT ![m] = sg[n], ![n] = e]
      BY DEF Shifted
    <2>2. m \in 1..Backups /\ n \in 1..Backups /\ m # n /\ e \in Seq(T)
      BY <1>1
    <2> HIDE DEF g, e, m
    <2>3. g[m] = sg[n] /\ g[n] = e
          /\ \A i \in 1..Backups : i \notin {n, m} => g[i] = sg[i]
      BY <2>1, <2>2
    <2>4. sg[n] # e /\ g[m] # e
      BY <2>3 DEF e
    <2>5. ASSUME NEW i \in 1..Backups, i # n
          PROVE  Gap(g, i) <=> Gap(sg, i) /\ i # m
      <3>1. CASE i = m
        BY <2>4, <3>1 DEF Gap, e
      <3>2. CASE i < n
        <4>1. n \in i + 1..Backups /\ m \in i + 1..Backups /\ i \notin {n, m}
          BY <1>1, <3>2 DEF m
        <4> QED
          BY <2>3, <2>4, <4>1 DEF Gap, e
      <3>3. CASE i > m
        <4>1. \A j \in i..Backups : j \in 1..Backups /\ j \notin {n, m}
          BY <1>1, <3>3 DEF m
        <4>2. g[i] = sg[i] /\ \A j \in i + 1..Backups : g[j] = sg[j]
          BY <2>3, <4>1
        <4>3. i # m
          BY <1>1, <3>3 DEF m
        <4> QED
          BY <4>2, <4>3 DEF Gap
      <3> QED
        BY <1>1, <2>5, <3>1, <3>2, <3>3 DEF m
    <2>6. n \notin Holes(sg)
      BY DEF Holes, Gap
    <2>7. Holes(g) \ {n} = Holes(sg) \ {m}
      BY <2>5, <2>6 DEF Holes
    <2> QED
      BY <2>7 DEF g, m
  <1> QED
    BY <1>2

\* Where nothing is renamed the hole the next rename fills is one place down.
LEMMA StayHoles ==
  ASSUME NEW sg, NEW n \in 1..Backups - 1, sg[n] = <<>>
  PROVE  Cardinality(Holes(sg) \ {n}) <= Cardinality(Holes(sg) \ {n + 1})
  <1> USE AuditAssumption
  <1>1. n \in 1..Backups /\ n + 1 \in 1..Backups /\ n # n + 1
    OBVIOUS
  <1>2. Cardinality(Holes(sg) \ {n}) <= Cardinality(Holes(sg) \ {n + 1})
    <2> DEFINE H == Holes(sg)
    <2>1. n + 1 \in H => n \in H
      <3>1. ASSUME NEW j \in n + 1 + 1..Backups PROVE j \in n + 1..Backups
        BY <1>1
      <3> QED
        BY <1>1, <3>1 DEF Holes, Gap
    <2>2. IsFiniteSet(H)
      BY HolesFinite
    <2> HIDE DEF H
    <2>3. Cardinality(H) = Cardinality(H \ {n}) + (IF n \in H THEN 1 ELSE 0)
          /\ Cardinality(H \ {n}) \in Nat
      BY <2>2, AllButOne
    <2> DEFINE m == n + 1
    <2>4. Cardinality(H) = Cardinality(H \ {m}) + (IF m \in H THEN 1 ELSE 0)
          /\ Cardinality(H \ {m}) \in Nat
      <3> HIDE DEF m
      <3> QED
        BY <2>2, AllButOne
    <2>5. m \in H => n \in H
      BY <2>1
    <2> HIDE DEF m
    <2>6. Cardinality(H \ {n}) <= Cardinality(H \ {m})
      BY <2>3, <2>4, <2>5
    <2> QED
      BY <2>6 DEF H, m
  <1> QED
    BY <1>2

\* Every step keeps the account of the holes.
LEMMA SizedStep ==
  ASSUME LogInv, LogInv', Sized, [Next]_vars
  PROVE  Sized'
  <1> USE DEF LogInv
  <1> SUFFICES ASSUME faults' = 0 PROVE Sized'
    BY DEF Sized
  <1>1. faults = 0 /\ kills \in Nat /\ MaxLines \in Nat \ {0}
        /\ Backups \in Nat \ {0}
    BY AuditAssumption DEF Types, Next, vars, Begin, Shift, Retire, Write, Fail, Kill
  <1> DEFINE T == LinesOf(calls)
             H == Holes(segment)
             c == Cardinality(Settled)
             Full(sg) == \A i \in 1..Backups : sg[i] # <<>> => Len(sg[i]) >= MaxLines
             Bare(sg) == \A i \in 1..Backups : sg[i] = <<>>
  <1>2. /\ Full(segment) /\ c <= kills
        /\ ~present /\ pc # "append" => Bare(segment) \/ c < kills
    BY <1>1 DEF Sized
  <1>3. active \in Seq(T) /\ segment \in [1..Backups -> Seq(T)]
    BY DEF Types
  <1>4. /\ IsFiniteSet(H) /\ Cardinality(H) \in Nat
        /\ \A S \in SUBSET H : Cardinality(S) \in Nat /\ Cardinality(S) <= Cardinality(H)
    BY HolesFinite
  <1>5. /\ pc = "rotate" => Settled = H \ {k + 1}
        /\ pc # "rotate" => Settled = H
    BY DEF Settled
  <1>6. /\ pc' = "rotate" => Settled' = Holes(segment') \ {k' + 1}
        /\ pc' # "rotate" => Settled' = Holes(segment')
    BY DEF Settled
  <1>7. c \in Nat
    BY <1>4, <1>5
  <1> HIDE DEF T, H, Full, Bare
  <1>8. ASSUME Full(segment'), Cardinality(Settled') <= kills',
               ~present' /\ pc' # "append" =>
                 Bare(segment') \/ Cardinality(Settled') < kills'
        PROVE  Sized'
    BY <1>8 DEF Sized, Full, Bare
  <1>9. CASE Begin
    <2>1. segment' = segment /\ present' = present /\ kills' = kills /\ pc = "idle"
      BY <1>9 DEF Begin
    <2>2. Settled = H /\ Settled' \in SUBSET H
      BY <1>5, <1>6, <2>1 DEF H
    <2>3. Cardinality(Settled') \in Nat /\ Cardinality(Settled') <= c
      BY <1>4, <2>2
    <2> HIDE DEF c
    <2> QED
      BY <1>1, <1>2, <1>7, <1>8, <2>1, <2>3
  <1>10. CASE Shift
    <2>1. k \in 1..Backups - 1 /\ pc = "rotate" /\ pc' = "rotate" /\ k' + 1 = k
          /\ present' = present /\ kills' = kills
          /\ (k + 1 < Backups => segment[k + 1] = <<>>)
      BY <1>1, <1>10 DEF Types, Shift, Rotating
    <2>2. Settled = H \ {k + 1} /\ Settled' = Holes(segment') \ {k}
      BY <1>5, <1>6, <2>1
    <2>3. CASE segment[k] = <<>>
      <3>1. segment' = segment
        BY <1>10, <2>3 DEF Shift
      <3>2. Cardinality(Settled') <= c
        BY <2>1, <2>2, <2>3, <3>1, StayHoles DEF H
      <3>3. Cardinality(Settled') \in Nat
        BY <1>4, <2>2, <3>1 DEF H
      <3> HIDE DEF c
      <3> QED
        BY <1>1, <1>2, <1>7, <1>8, <2>1, <3>1, <3>2, <3>3
    <2>4. CASE segment[k] # <<>>
      <3>1. segment' = Shifted(segment, k)
        BY <1>10, <2>4 DEF Shift, Shifted
      <3>2. Settled' = Settled
        <4>1. Holes(Shifted(segment, k)) \ {k} = Holes(segment) \ {k + 1}
          BY <1>3, <2>1, <2>4, ShiftHoles
        <4> QED
          BY <2>2, <3>1, <4>1, Zenon DEF H
      <3>3. Cardinality(Settled') = c
        BY <3>2
      <3>4. Full(segment')
        <4> DEFINE e == <<>>
                   m == k + 1
        <4>1. segment' = [segment EXCEPT ![m] = segment[k], ![k] = e]
              /\ m \in 1..Backups /\ k \in 1..Backups /\ m # k
          BY <1>1, <2>1, <3>1 DEF Shifted
        <4> HIDE DEF m, e
        <4>2. \A i \in 1..Backups : segment'[i] \in {segment[i], segment[k], e}
          BY <1>3, <4>1
        <4> QED
          BY <1>2, <4>1, <4>2 DEF Full, e
      <3>5. ~Bare(segment)
        BY <1>1, <2>1, <2>4 DEF Bare
      <3> HIDE DEF c
      <3> QED
        BY <1>2, <1>8, <2>1, <3>3, <3>4, <3>5
    <2> QED
      BY <2>3, <2>4
  <1>11. CASE Retire
    <2>1. k = 0 /\ pc = "rotate" /\ pc' = "append" /\ kills' = kills
      BY <1>11 DEF Retire
    <2>2. Settled = H \ {1} /\ Settled' = Holes(segment')
      BY <1>5, <1>6, <2>1
    <2>3. CASE present
      <3>1. segment' = [segment EXCEPT ![1] = active] /\ Len(active) >= MaxLines
        BY <1>11, <2>3 DEF Retire, Rotating
      <3>2. segment'[1] = active /\ active # <<>>
            /\ \A i \in 1..Backups : i # 1 => segment'[i] = segment[i]
        BY <1>1, <1>3, <3>1
      <3>3. Full(segment')
        BY <1>2, <3>1, <3>2 DEF Full
      <3>4. Settled' = Settled
        <4>1. ASSUME NEW i \in 1..Backups
              PROVE  Gap(segment', i) <=> Gap(segment, i) /\ i # 1
          <5>1. \A j \in i + 1..Backups : j \in 1..Backups /\ j # 1
            OBVIOUS
          <5>2. \A j \in i + 1..Backups : segment'[j] = segment[j]
            BY <3>2, <5>1
          <5> QED
            BY <3>2, <5>2 DEF Gap
        <4> QED
          BY <2>2, <4>1 DEF Holes, H
      <3>5. Cardinality(Settled') = c
        BY <3>4
      <3> HIDE DEF c
      <3> QED
        BY <1>2, <1>8, <2>1, <3>3, <3>5
    <2>4. CASE ~present
      <3>1. segment' = segment /\ (Bare(segment) \/ c < kills)
        BY <1>2, <1>11, <2>1, <2>4 DEF Retire
      <3>2. Settled' = H
        BY <2>2, <3>1 DEF H
      <3>3. CASE Bare(segment)
        <4>1. H = {}
          <5>1. \A i \in 1..Backups : ~Gap(segment, i)
            <6>1. \A i \in 1..Backups : \A j \in i + 1..Backups : j \in 1..Backups
              OBVIOUS
            <6> QED
              BY <3>3, <6>1 DEF Bare, Gap
          <5> QED
            BY <5>1 DEF H, Holes
        <4>2. Cardinality(Settled') = 0
          BY <3>2, <4>1, FS_EmptySet
        <4> QED
          BY <1>1, <1>2, <1>8, <2>1, <3>1, <4>2
      <3>4. CASE c < kills
        <4>0. Cardinality(H) = Cardinality(H \ {1}) + (IF 1 \in H THEN 1 ELSE 0)
          BY <1>4, AllButOne
        <4>1. Cardinality(H) <= c + 1
          BY <1>4, <1>7, <2>2, <4>0
        <4>2. Cardinality(Settled') = Cardinality(H)
          BY <3>2
        <4> HIDE DEF c
        <4>3. Cardinality(Settled') <= kills'
          BY <1>1, <1>4, <1>7, <2>1, <3>4, <4>1, <4>2
        <4> QED
          BY <1>2, <1>8, <2>1, <3>1, <4>3
      <3> QED
        BY <3>1, <3>3, <3>4
    <2> QED
      BY <2>3, <2>4
  <1>12. CASE Write
    <2>1. segment' = segment /\ present' /\ kills' = kills
          /\ pc = "append" /\ pc' = "idle"
      BY <1>12 DEF Write
    <2>2. Settled' = Settled
      BY <1>5, <1>6, <2>1 DEF H
    <2>3. Cardinality(Settled') = c
      BY <2>2
    <2> HIDE DEF c
    <2> QED
      BY <1>2, <1>8, <2>1, <2>3
  <1>13. CASE Fail
    BY <1>1, <1>13 DEF Fail
  <1>14. CASE Kill
    <2>1. segment' = segment /\ present' = present /\ kills' = kills + 1
          /\ pc' = "idle"
      BY <1>14 DEF Kill
    <2>2. Settled' = H
      BY <1>6, <2>1 DEF H
    <2>3. Cardinality(Settled') = Cardinality(H)
      BY <2>2
    <2>4. Cardinality(H) <= c + 1
      BY <1>4, <1>5, <1>7, AllButOne
    <2>5. ~present => Bare(segment) \/ Cardinality(H) <= kills
      <3>1. CASE pc = "append"
        <4>1. Settled = H
          BY <1>5, <3>1
        <4>2. Cardinality(H) = c
          BY <4>1
        <4> QED
          BY <1>2, <4>2
      <3>2. CASE pc # "append"
        <4> HIDE DEF c
        <4> QED
          BY <1>1, <1>2, <1>4, <1>7, <2>4, <3>2
      <3> QED
        BY <3>1, <3>2
    <2> HIDE DEF c
    <2>6. Cardinality(Settled') <= kills'
      BY <1>1, <1>2, <1>4, <1>7, <2>1, <2>3, <2>4
    <2>7. ~present' => Bare(segment') \/ Cardinality(Settled') < kills'
      BY <1>1, <1>4, <2>1, <2>3, <2>5
    <2> QED
      BY <1>2, <1>8, <2>1, <2>6, <2>7
  <1>15. CASE UNCHANGED vars
    <2>1. segment' = segment /\ present' = present /\ kills' = kills /\ pc' = pc
          /\ Settled' = Settled
      BY <1>15 DEF vars, Settled
    <2>2. Cardinality(Settled') = c
      BY <2>1
    <2> HIDE DEF c
    <2> QED
      BY <1>2, <1>8, <2>1, <2>2
  <1> QED
    BY <1>9, <1>10, <1>11, <1>12, <1>13, <1>14, <1>15 DEF Next

LEMMA SizedInit ==
  ASSUME Init
  PROVE  Sized
  <1>1. segment = [i \in 1..Backups |-> <<>>] /\ pc = "idle" /\ kills = 0
    BY DEF Init
  <1>2. \A i \in 1..Backups : segment[i] = <<>>
    BY <1>1
  <1>3. Settled = {}
    <2>1. \A i \in 1..Backups : \A j \in i + 1..Backups : j \in 1..Backups
      BY AuditAssumption
    <2> QED
      BY <1>2, <2>1 DEF Settled, Holes, Gap
  <1>4. Cardinality(Settled) = 0
    BY <1>3, FS_EmptySet
  <1> QED
    BY <1>1, <1>2, <1>4 DEF Sized

LEMMA SizedHolds == Spec => []Sized
  <1>1. Init => Sized
    BY SizedInit
  <1>2. LogInv /\ LogInv' /\ Sized /\ [Next]_vars => Sized'
    BY SizedStep
  <1> QED
    BY <1>1, <1>2, LogInvHolds, PTL DEF Spec

\* The places of the files that hold less than a full segment.
LEMMA ManyFull ==
  ASSUME NEW T, NEW a \in Seq(T), NEW sg \in [1..Backups -> Seq(T)],
         NEW M \in Nat, sg[Backups] # <<>>,
         \A i \in 1..Backups : sg[i] # <<>> => Len(sg[i]) >= M
  PROVE  LET G == Long(Files(a, sg), M)
             h == Cardinality(Holes(sg))
         IN  /\ Cardinality(G) \in Nat /\ h \in Nat
             /\ Cardinality(G) + h >= Backups + (IF Len(a) >= M THEN 1 ELSE 0)
  <1> DEFINE s == Files(a, sg)
             G == Long(s, M)
             H == Holes(sg)
             f == [i \in H |-> Backups + 1 - i]
             F == {Backups + 1 - i : i \in H}
             B == 1..Backups
             P == B \ F
             b == Backups + 1
             Q == IF Len(a) >= M THEN P \cup {b} ELSE P
  <1>1. Backups \in Nat \ {0}
    BY AuditAssumption
  <1>2. Placed(s, a, sg, T)
    BY FilesType
  <1>3. /\ IsFiniteSet(H) /\ H \subseteq B /\ Cardinality(H) \in Nat
    BY HolesFinite
  <1>4. IsFiniteSet(B) /\ Cardinality(B) = Backups
    BY <1>1, FS_Interval
  <1>5. IsFiniteSet(F) /\ Cardinality(F) <= Cardinality(H) /\ Cardinality(F) \in Nat
    <2>1. f \in [H -> F] /\ \A y \in F : \E x \in H : f[x] = y
      OBVIOUS
    <2> HIDE DEF f, F, H
    <2>2. f \in Surjection(H, F)
      BY <2>1, Fun_IsSurj
    <2> QED
      BY <1>3, <2>2, FS_Surjection, FS_CardinalityType
  <1>6. P \subseteq G
    <2> SUFFICES ASSUME NEW p \in B, p \notin F PROVE p \in G
      OBVIOUS
    <2> DEFINE i == Backups + 1 - p
    <2>1. i \in 1..Backups /\ p = Backups + 1 - i
      BY <1>1
    <2>2. i \notin H
      BY <2>1
    <2>3. sg[i] # <<>>
      <3>1. CASE i = Backups
        BY <3>1
      <3>2. CASE i # Backups
        <4>1. Backups \in i + 1..Backups
          BY <1>1, <2>1, <3>2
        <4> QED
          BY <2>1, <2>2, <4>1 DEF Holes, Gap
      <3> QED
        BY <3>1, <3>2
    <2>4. s[p] = sg[i] /\ Len(s) = Backups + 1
      BY <1>2 DEF Placed
    <2> HIDE DEF i, s
    <2>5. Len(s[p]) >= M
      BY <2>1, <2>3, <2>4
    <2> QED
      BY <1>1, <2>4, <2>5 DEF Long
  <1>7. Len(a) >= M => b \in G
    <2>1. s[b] = a /\ Len(s) = b
      BY <1>2 DEF Placed
    <2> HIDE DEF s
    <2> QED
      BY <1>1, <2>1 DEF Long
  <1>8. IsFiniteSet(G) /\ Cardinality(G) \in Nat
    <2>1. G \subseteq 1..b
      <3>1. Len(s) = b
        BY <1>2 DEF Placed
      <3> QED
        BY <3>1 DEF Long
    <2>2. IsFiniteSet(1..b)
      BY <1>1, FS_Interval
    <2> HIDE DEF G
    <2> QED
      BY <2>1, <2>2, FS_Subset, FS_CardinalityType
  <1>9. Q \subseteq G /\ b \notin P
    BY <1>1, <1>6, <1>7
  <1> HIDE DEF G, H, F, B
  <1>10. /\ IsFiniteSet(P) /\ Cardinality(P) \in Nat
         /\ Cardinality(P) >= Backups - Cardinality(H)
    <2>1. IsFiniteSet(P) /\ Cardinality(P) = Backups - Cardinality(B \cap F)
      BY <1>4, FS_Difference
    <2>2. Cardinality(B \cap F) <= Cardinality(F) /\ Cardinality(B \cap F) \in Nat
      <3>1. B \cap F \subseteq F
        OBVIOUS
      <3>2. IsFiniteSet(B \cap F) /\ Cardinality(B \cap F) <= Cardinality(F)
        BY <1>5, <3>1, FS_Subset
      <3> QED
        BY <3>2, FS_CardinalityType
    <2>3. Cardinality(P) \in Nat
      BY <2>1, FS_CardinalityType
    <2> HIDE DEF P
    <2> QED
      BY <1>1, <1>3, <1>5, <2>1, <2>2, <2>3
  <1> HIDE DEF P, b
  <1>11. Cardinality(Q) = Cardinality(P) + (IF Len(a) >= M THEN 1 ELSE 0)
    <2>1. CASE Len(a) >= M
      <3>1. Q = P \cup {b}
        BY <2>1
      <3> HIDE DEF Q
      <3>2. Cardinality(Q) = Cardinality(P) + 1
        BY <1>9, <1>10, <3>1, FS_AddElement
      <3> QED
        BY <2>1, <3>2
    <2>2. CASE ~(Len(a) >= M)
      <3>1. Q = P
        BY <2>2
      <3>2. Cardinality(Q) = Cardinality(P)
        BY <3>1
      <3> HIDE DEF Q
      <3> QED
        BY <1>10, <2>2, <3>2
    <2> QED
      BY <2>1, <2>2
  <1>12. Cardinality(Q) <= Cardinality(G)
    BY <1>8, <1>9, FS_Subset
  <1> HIDE DEF Q
  <1>13. Cardinality(G) + Cardinality(H)
           >= Backups + (IF Len(a) >= M THEN 1 ELSE 0)
    BY <1>1, <1>3, <1>8, <1>10, <1>11, <1>12
  <1> QED
    BY <1>3, <1>8, <1>13 DEF G, H

\* Multiplication is monotone.
LEMMA Times ==
  ASSUME NEW M \in Nat, NEW x \in Nat, NEW y \in Nat, x <= y
  PROVE  x * M <= M * y
  <1>1. PICK d \in Nat : y = x + d
    BY y = x + (y - x)
  <1>2. M * (x + d) = x * M + M * d /\ M * d \in Nat /\ x * M \in Nat
    OBVIOUS
  <1> QED
    BY <1>1, <1>2

\* The retained log is a suffix of what was written, without a gap, and lacks
\* no more than one segment per kill of what fills the backups.
THEOREM RetainedIsSuffixHolds == Spec => []RetainedIsSuffix
  <1>1. ASSUME LogInv, Chained, Sized PROVE RetainedIsSuffix
    <2> DEFINE M == MaxLines
               w == written
               e == Backups - kills
    <2> SUFFICES ASSUME faults = 0
                 PROVE  \E n \in 0..Len(w) :
                          /\ AllLines = SubSeq(w, n + 1, Len(w))
                          /\ kills < Backups => n = 0 \/ Len(w) - n >= e * M
      BY DEF RetainedIsSuffix
    <2>1. PICK n \in 0..Len(w) : /\ Follow(AllLines, w, n)
                                 /\ n > 0 => segment[Backups] # <<>>
      BY <1>1 DEF Chained
    <2> SUFFICES ASSUME kills < Backups, n # 0 PROVE Len(w) - n >= e * M
      BY <2>1 DEF Follow
    <2> DEFINE T == LinesOf(calls)
               s == Files(active, segment)
               G == Long(s, M)
               g == Cardinality(G)
               h == Cardinality(Holes(segment))
               c == Cardinality(Settled)
               l == IF Len(active) >= M THEN 1 ELSE 0
    <2>2. /\ active \in Seq(T) /\ segment \in [1..Backups -> Seq(T)]
          /\ w \in Seq(T) /\ kills \in Nat /\ M \in Nat \ {0}
          /\ Backups \in Nat \ {0}
      BY <1>1, AuditAssumption DEF LogInv, Types
    <2>3. /\ \A i \in 1..Backups : segment[i] # <<>> => Len(segment[i]) >= M
          /\ c <= kills
          /\ ~present /\ pc # "append" =>
               \/ \A i \in 1..Backups : segment[i] = <<>>
               \/ c < kills
      BY <1>1 DEF Sized
    <2>4. segment[Backups] # <<>>
      BY <2>1
    <2>5. g \in Nat /\ h \in Nat /\ g + h >= Backups + l
      <3> HIDE DEF T
      <3> QED
        BY <2>2, <2>3, <2>4, ManyFull
    <2>6. h <= kills \/ (h <= kills + 1 /\ l = 1)
      <3>1. CASE pc # "rotate"
        <4>1. Settled = Holes(segment)
          BY <3>1 DEF Settled
        <4> QED
          BY <2>3, <4>1
      <3>2. CASE pc = "rotate"
        <4> DEFINE m == k + 1
        <4>1. Settled = Holes(segment) \ {m}
          BY <3>2 DEF Settled
        <4>2. IsFiniteSet(Holes(segment))
          BY HolesFinite
        <4> HIDE DEF m
        <4>3. Cardinality(Holes(segment) \ {m}) \in Nat
              /\ Cardinality(Holes(segment))
                   = Cardinality(Holes(segment) \ {m})
                       + (IF m \in Holes(segment) THEN 1 ELSE 0)
          BY <4>2, AllButOne
        <4>4. c \in Nat /\ h <= c + 1
          BY <4>1, <4>3
        <4>5. present => l = 1
          BY <1>1, <3>2 DEF LogInv, Rotating
        <4>6. ~present => c < kills
          BY <2>2, <2>3, <2>4, <3>2
        <4> HIDE DEF c, h, l
        <4> QED
          BY <2>2, <2>3, <2>5, <4>4, <4>5, <4>6
      <3> QED
        BY <3>1, <3>2
    <2>7. e \in Nat /\ e <= g
      <3>1. l \in {0, 1}
        OBVIOUS
      <3> HIDE DEF g, h, l
      <3> QED
        BY <2>2, <2>5, <2>6, <3>1
    <2>8. Len(AllLines) >= M * g
      <3>1. s \in Seq(Seq(T)) /\ s # <<>>
        BY <2>2, FilesType DEF Placed
      <3>2. AllLines = FlattenSeq(s)
        BY AllLinesAre DEF All
      <3> HIDE DEF s
      <3> QED
        BY <2>2, <3>1, <3>2, FlattenLength
    <2>9. Len(AllLines) = Len(w) - n
      BY <2>1, <2>2, FollowLines
    <2> HIDE DEF e, g
    <2>10. e * M <= M * g
      BY <2>2, <2>5, <2>7, Times
    <2> DEFINE x == e * M
               y == M * g
               z == Len(w) - n
    <2>11. x \in Nat /\ y \in Nat /\ z \in Int /\ x <= y /\ z >= y
      BY <2>1, <2>2, <2>5, <2>7, <2>8, <2>9, <2>10
    <2> HIDE DEF x, y, z
    <2>12. z >= x
      BY <2>11
    <2> QED
      BY <2>12 DEF x, z
  <1> QED
    BY <1>1, LogInvHolds, ChainedHolds, SizedHolds, PTL

=============================================================================
