-------------------------- MODULE SmsIngestProofs --------------------------
(***************************************************************************)
(* What is proved of the messages received: that what the agent takes off  *)
(* a module was queued before, that a message with a part missing has      *)
(* waited out the grace period, and that a fragment is queued once for     *)
(* each time the network delivered it.                                     *)
(***************************************************************************)
EXTENDS SmsIngest, FiniteSetTheorems, SequenceTheorems, WellFoundedInduction, TLAPS

-----------------------------------------------------------------------------
(* Putting a set in order *)

\* The library's induction theorems take an operator, which the provers cannot
\* instantiate: induction here is on the least counterexample.
LEMMA LeastOf ==
  ASSUME NEW S \in SUBSET Nat, S # {}
  PROVE  \E x \in S : \A y \in S : x <= y
  <1>1. PICK x \in S : \A y \in S : ~(<<y, x>> \in OpToRel(<, Nat))
    BY WFMin, NatLessThanWellFounded
  <1>2. \A y \in S : ~(y < x)
    BY <1>1 DEF OpToRel
  <1> QED
    BY <1>2

\* R orders S: of two members one comes first, and first is first of all.
Orders(R, S) ==
    /\ \A x, y \in S : x # y => <<x, y>> \in R \/ <<y, x>> \in R
    /\ \A x, y, z \in S : <<x, y>> \in R /\ <<y, z>> \in R => <<x, z>> \in R

LEMMA FirstOf ==
  ASSUME NEW S, IsFiniteSet(S), S # {}, NEW R, Orders(R, S)
  PROVE  \E x \in S : \A y \in S \ {x} : <<x, y>> \in R
  <1> DEFINE HasFirst(T) == \E x \in T : \A y \in T \ {x} : <<x, y>> \in R
             Bad == {n \in Nat : \E T \in SUBSET S : T # {} /\ Cardinality(T) = n /\ ~HasFirst(T)}
  <1>1. SUFFICES ASSUME ~HasFirst(S) PROVE FALSE
    OBVIOUS
  <1>2. Cardinality(S) \in Bad
    BY <1>1, FS_CardinalityType
  <1>3. PICK n \in Bad : \A k \in Bad : n <= k
    BY <1>2, LeastOf
  <1>4. PICK T \in SUBSET S : T # {} /\ Cardinality(T) = n /\ ~HasFirst(T)
    BY <1>3
  <1>5. PICK c \in T : TRUE
    BY <1>4
  <1>6. IsFiniteSet(T) /\ n \in Nat
    BY <1>3, <1>4, FS_Subset
  <1>7. Cardinality(T \ {c}) = n - 1 /\ IsFiniteSet(T \ {c})
    BY <1>4, <1>5, <1>6, FS_RemoveElement
  <1>8. n - 1 \in Nat
    BY <1>7, FS_CardinalityType
  <1>9. T \ {c} # {} => HasFirst(T \ {c})
    <2>1. ~(n - 1 \in Bad)
      BY <1>3, <1>6, <1>8
    <2> HIDE DEF HasFirst
    <2> QED
      BY <1>7, <1>8, <2>1
  <1>10. CASE T \ {c} = {}
    BY <1>4, <1>5, <1>10
  <1>11. CASE T \ {c} # {}
    <2>1. PICK x \in T \ {c} : \A y \in (T \ {c}) \ {x} : <<x, y>> \in R
      BY <1>9, <1>11
    <2>2. CASE <<x, c>> \in R
      BY <1>4, <2>1, <2>2
    <2>3. CASE <<c, x>> \in R
      <3>1. \A y \in T \ {c} : <<c, y>> \in R
        BY <1>5, <2>1, <2>3 DEF Orders
      <3> QED
        BY <1>4, <1>5, <3>1
    <2> QED
      BY <1>5, <2>1, <2>2, <2>3 DEF Orders
  <1> QED
    BY <1>10, <1>11

\* s is the members of S, each once, in the order R.
IsInOrder(s, S, R) ==
    /\ s \in SetToSeqs(S)
    /\ \A i, j \in DOMAIN s : i < j => <<s[i], s[j]>> \in R

LEMMA OrderExists ==
  ASSUME NEW S, IsFiniteSet(S), NEW R, Orders(R, S)
  PROVE  \E s : IsInOrder(s, S, R)
  <1> DEFINE Sorts(T) == \E s : IsInOrder(s, T, R)
             Bad == {n \in Nat : \E T \in SUBSET S : Cardinality(T) = n /\ ~Sorts(T)}
  <1>1. SUFFICES ASSUME ~Sorts(S) PROVE FALSE
    OBVIOUS
  <1> HIDE DEF Sorts
  <1>2. Cardinality(S) \in Bad
    BY <1>1, FS_CardinalityType
  <1>3. PICK n \in Bad : \A k \in Bad : n <= k
    BY <1>2, LeastOf
  <1>4. PICK T \in SUBSET S : Cardinality(T) = n /\ ~Sorts(T)
    BY <1>3
  <1>5. IsFiniteSet(T) /\ n \in Nat
    BY <1>3, <1>4, FS_Subset
  <1>6. CASE T = {}
    <2>1. n = 0
      BY <1>4, <1>6, FS_EmptySet
    <2>2. IsInOrder([i \in 1 .. 0 |-> i], T, R)
      BY <1>4, <1>6, <2>1 DEF IsInOrder, SetToSeqs
    <2> QED
      BY <1>4, <2>2 DEF Sorts
  <1>7. CASE T # {}
    <2>1. Orders(R, T)
      BY DEF Orders
    <2>2. PICK x \in T : \A y \in T \ {x} : <<x, y>> \in R
      BY <1>5, <1>7, <2>1, FirstOf
    <2>3. Cardinality(T \ {x}) = n - 1 /\ IsFiniteSet(T \ {x})
      BY <1>4, <1>5, <2>2, FS_RemoveElement
    <2>4. n - 1 \in Nat
      BY <2>3, FS_CardinalityType
    <2>5. Sorts(T \ {x})
      BY <1>3, <1>5, <2>3, <2>4
    <2>6. PICK s : IsInOrder(s, T \ {x}, R)
      BY <2>5 DEF Sorts
    <2> DEFINE r == [i \in 1 .. n |-> IF i = 1 THEN x ELSE s[i - 1]]
    <2>7. s \in [1 .. n - 1 -> T \ {x}] /\ (\A i, j \in 1 .. n - 1 : i # j => s[i] # s[j])
          /\ (\A i, j \in 1 .. n - 1 : i < j => <<s[i], s[j]>> \in R)
      BY <2>3, <2>6 DEF IsInOrder, SetToSeqs
    <2>8. \A i \in 1 .. n : i # 1 => i - 1 \in 1 .. n - 1
      BY <1>5
    <2>9. \A i \in 1 .. n : i # 1 => r[i] \in T \ {x} /\ r[i] = s[i - 1]
      BY <2>7, <2>8
    <2>10. r \in [1 .. n -> T]
      BY <2>2, <2>9
    <2>11. \A i, j \in 1 .. n : i # j => r[i] # r[j]
      <3> SUFFICES ASSUME NEW i \in 1 .. n, NEW j \in 1 .. n, i # j PROVE r[i] # r[j]
        OBVIOUS
      <3>1. CASE i = 1
        BY <2>9, <3>1
      <3>2. CASE j = 1
        BY <2>9, <3>2
      <3>3. CASE i # 1 /\ j # 1
        BY <2>7, <2>8, <2>9, <3>3
      <3> QED
        BY <3>1, <3>2, <3>3
    <2>12. \A i, j \in 1 .. n : i < j => <<r[i], r[j]>> \in R
      <3> SUFFICES ASSUME NEW i \in 1 .. n, NEW j \in 1 .. n, i < j PROVE <<r[i], r[j]>> \in R
        OBVIOUS
      <3>0. j # 1
        BY <1>5
      <3>1. CASE i = 1
        BY <2>2, <2>9, <3>0, <3>1
      <3>2. CASE i # 1
        BY <2>7, <2>8, <2>9, <3>0, <3>2
      <3> QED
        BY <3>1, <3>2
    <2> HIDE DEF r
    <2>13. DOMAIN r = 1 .. n
      BY <2>10
    <2>14. r \in SetToSeqs(T)
      BY <1>4, <2>10, <2>11 DEF SetToSeqs
    <2>15. IsInOrder(r, T, R)
      BY <2>12, <2>13, <2>14 DEF IsInOrder
    <2> QED
      BY <1>4, <2>15 DEF Sorts
  <1> QED
    BY <1>6, <1>7

\* A set put in order is a sequence of its members, each once.
LEMMA SeqOfSet ==
  ASSUME NEW S, IsFiniteSet(S), NEW s \in SetToSeqs(S)
  PROVE  /\ s \in Seq(S) /\ ToSet(s) = S /\ DOMAIN s = 1 .. Len(s)
         /\ \A i, j \in DOMAIN s : i # j => s[i] # s[j]
  <1>1. PICK n \in Nat : n = Cardinality(S)
    BY FS_CardinalityType
  <1>2. s \in [1 .. n -> S] /\ \A i, j \in 1 .. n : i # j => s[i] # s[j]
    BY <1>1 DEF SetToSeqs
  <1>3. s \in Injection(1 .. n, S)
    BY <1>2 DEF Injection, IsInjective
  <1>4. Cardinality(1 .. n) = n
    BY <1>1, FS_Interval
  <1>5. s \in Surjection(1 .. n, S)
    BY <1>1, <1>3, <1>4, FS_Injection
  <1>6. \A x \in S : \E i \in 1 .. n : s[i] = x
    BY <1>5 DEF Surjection
  <1>7. DOMAIN s = 1 .. n
    BY <1>2
  <1>8. ToSet(s) = S
    BY <1>2, <1>6, <1>7 DEF ToSet
  <1>9. s \in Seq(S) /\ Len(s) = n
    BY <1>1, <1>2
  <1> QED
    BY <1>2, <1>7, <1>8, <1>9

LEMMA AscendingIs ==
  ASSUME NEW S, S \subseteq Int, IsFiniteSet(S)
  PROVE  Ascending(S) \in SetToSeqs(S)
  <1> DEFINE R == {x \in S \X S : x[1] < x[2]}
  <1>0. \A x, y \in S : <<x, y>> \in R <=> x < y
    OBVIOUS
  <1>1. Orders(R, S)
    <2> HIDE DEF R
    <2> QED
      BY <1>0 DEF Orders
  <1>2. PICK s : IsInOrder(s, S, R)
    BY <1>1, OrderExists
  <1>3. s \in SetToSeqs(S) /\ \A i, j \in DOMAIN s : i < j => s[i] < s[j]
    BY <1>2 DEF IsInOrder
  <1> QED
    BY <1>3 DEF Ascending, InOrder

-----------------------------------------------------------------------------
(* Sequences put together *)

\* f joins the first n of ss.
Joins(f, ss, n) ==
    f = [i \in 1 .. n |-> IF i = 1 THEN ss[i] ELSE f[i - 1] \o ss[i]]

LEMMA JoinsExist ==
  ASSUME NEW ss, NEW n \in Nat PROVE \E f : Joins(f, ss, n)
  <1> DEFINE Bad == {k \in Nat : ~\E f : Joins(f, ss, k)}
  <1>1. SUFFICES ASSUME n \in Bad PROVE FALSE
    OBVIOUS
  <1>2. PICK k \in Bad : \A j \in Bad : k <= j
    BY <1>1, LeastOf
  <1>3. CASE k = 0
    <2>1. Joins([i \in 1 .. 0 |-> i], ss, k)
      BY <1>3 DEF Joins
    <2> QED
      BY <1>2, <2>1
  <1>4. CASE k # 0
    <2>1. k - 1 \in Nat /\ k - 1 \notin Bad
      BY <1>2, <1>4
    <2>2. PICK g : Joins(g, ss, k - 1)
      BY <2>1
    <2> DEFINE last == IF k = 1 THEN ss[k] ELSE g[k - 1] \o ss[k]
               f == [i \in 1 .. k |-> IF i = k THEN last ELSE g[i]]
    <2>3. \A i \in 1 .. k - 1 : f[i] = g[i]
      BY <2>1
    <2>4. f[k] = last
      BY <2>1
    <2>5. ASSUME NEW i \in 1 .. k PROVE f[i] = IF i = 1 THEN ss[i] ELSE f[i - 1] \o ss[i]
      <3>1. CASE i = k
        <4>1. k # 1 => f[k - 1] = g[k - 1]
          BY <2>1, <2>3
        <4> QED
          BY <2>4, <3>1, <4>1
      <3>2. CASE i # k
        <4>1. i \in 1 .. k - 1 /\ (i # 1 => i - 1 \in 1 .. k - 1)
          BY <2>1, <3>2
        <4>2. g[i] = IF i = 1 THEN ss[i] ELSE g[i - 1] \o ss[i]
          BY <2>2, <4>1 DEF Joins
        <4> QED
          BY <2>3, <4>1, <4>2
      <3> QED
        BY <3>1, <3>2
    <2>6. DOMAIN f = 1 .. k /\ f = [i \in 1 .. k |-> f[i]]
      OBVIOUS
    <2> HIDE DEF f
    <2>7. Joins(f, ss, k)
      BY <2>5, <2>6, Zenon DEF Joins
    <2> QED
      BY <1>2, <2>7
  <1> QED
    BY <1>3, <1>4

\* What is joined from sequences over X is one.
LEMMA FlattenType ==
  ASSUME NEW X, NEW ss \in Seq(Seq(X)) PROVE FlattenSeq(ss) \in Seq(X)
  <1>1. PICK n \in Nat : n = Len(ss)
    OBVIOUS
  <1>2. CASE n = 0
    <2>1. FlattenSeq(ss) = ss
      BY <1>1, <1>2, Zenon DEF FlattenSeq
    <2>2. ss \in Seq(X)
      <3>1. ss = <<>>
        BY <1>1, <1>2, EmptySeq
      <3> QED
        BY <3>1
    <2> QED
      BY <2>1, <2>2
  <1>3. CASE n # 0
    <2> DEFINE f == CHOOSE f : f = [i \in 1 .. Len(ss) |-> IF i = 1 THEN ss[i] ELSE f[i - 1] \o ss[i]]
    <2>1. FlattenSeq(ss) = f[n]
      BY <1>1, <1>3, Zenon DEF FlattenSeq
    <2>2. Joins(f, ss, n)
      <3>1. \E g : g = [i \in 1 .. Len(ss) |-> IF i = 1 THEN ss[i] ELSE g[i - 1] \o ss[i]]
        BY <1>1, JoinsExist, Zenon DEF Joins
      <3> QED
        BY <1>1, <3>1, Zenon DEF Joins
    <2> HIDE DEF f
    <2>3. \A i \in 1 .. n : f[i] = IF i = 1 THEN ss[i] ELSE f[i - 1] \o ss[i]
      BY <2>2, Zenon DEF Joins
    <2>4. \A i \in 1 .. n : ss[i] \in Seq(X)
      BY <1>1
    <2> DEFINE Bad == {i \in Nat : i \in 1 .. n /\ f[i] \notin Seq(X)}
    <2>5. SUFFICES ASSUME n \in Bad PROVE FALSE
      BY <1>3, <2>1
    <2>6. PICK i \in Bad : \A j \in Bad : i <= j
      BY <2>5, LeastOf
    <2>7. i # 1
      BY <2>3, <2>4, <2>6
    <2>8. i - 1 \in 1 .. n /\ i - 1 \notin Bad
      BY <2>6, <2>7
    <2>9. i \in 1 .. n /\ f[i] \notin Seq(X)
      BY <2>6
    <2>10. f[i] = f[i - 1] \o ss[i]
      BY <2>3, <2>7, <2>9
    <2>11. f[i - 1] \in Seq(X)
      BY <2>8
    <2>12. \A r, s \in Seq(X) : r \o s \in Seq(X)
      OBVIOUS
    <2> QED
      BY <2>4, <2>9, <2>10, <2>11, <2>12, Zenon
  <1> QED
    BY <1>2, <1>3

-----------------------------------------------------------------------------
(* A position is in one message only, and there once *)

Apart(ms) ==
    \A i, j \in DOMAIN ms : \A x \in DOMAIN ms[i].sources, y \in DOMAIN ms[j].sources :
        ms[i].sources[x] = ms[j].sources[y] => i = j /\ x = y

\* s is one of the positions the messages are made of.
UsedIn(ms, s) == \E i \in DOMAIN ms : \E x \in DOMAIN ms[i].sources : ms[i].sources[x] = s

LEMMA ApartAt ==
  ASSUME NEW ms, Apart(ms), NEW i \in DOMAIN ms, NEW j \in DOMAIN ms,
         NEW x \in DOMAIN ms[i].sources, NEW y \in DOMAIN ms[j].sources,
         ms[i].sources[x] = ms[j].sources[y]
  PROVE  i = j /\ x = y
  BY Zenon DEF Apart

LEMMA ApartJoined ==
  ASSUME NEW X, NEW u \in Seq(X), NEW v \in Seq(X), Apart(u), Apart(v),
         \A s : ~(UsedIn(u, s) /\ UsedIn(v, s))
  PROVE  Apart(u \o v) /\ \A s : UsedIn(u \o v, s) => UsedIn(u, s) \/ UsedIn(v, s)
  <1>1. PICK n \in Nat : Len(u) = n /\ DOMAIN u = 1 .. n
    OBVIOUS
  <1>2. PICK l \in Nat : Len(v) = l /\ DOMAIN v = 1 .. l
    OBVIOUS
  <1>3. PICK w : w = u \o v
    OBVIOUS
  <1>4. DOMAIN w = 1 .. n + l
    <2>1. w \in Seq(X) /\ Len(w) = Len(u) + Len(v)
      BY <1>3
    <2> QED
      BY <1>1, <1>2, <2>1
  <1>5. \A i \in 1 .. n + l : /\ i <= n => w[i] = u[i] /\ i \in DOMAIN u
                              /\ ~(i <= n) => w[i] = v[i - n] /\ i - n \in DOMAIN v
    BY <1>1, <1>2, <1>3
  <1>6. ASSUME NEW i \in DOMAIN w, NEW j \in DOMAIN w,
               NEW x \in DOMAIN w[i].sources, NEW y \in DOMAIN w[j].sources,
               w[i].sources[x] = w[j].sources[y]
        PROVE  i = j /\ x = y
    <2>0. i \in 1 .. n + l /\ j \in 1 .. n + l
      BY <1>4
    <2>1. CASE i <= n /\ j <= n
      <3>1. w[i] = u[i] /\ w[j] = u[j] /\ i \in DOMAIN u /\ j \in DOMAIN u
        BY <1>5, <2>0, <2>1
      <3>2. x \in DOMAIN u[i].sources /\ y \in DOMAIN u[j].sources /\ u[i].sources[x] = u[j].sources[y]
        BY <1>6, <3>1, Zenon
      <3> QED
        BY <3>1, <3>2, ApartAt
    <2>2. CASE ~(i <= n) /\ ~(j <= n)
      <3>1. w[i] = v[i - n] /\ w[j] = v[j - n] /\ i - n \in DOMAIN v /\ j - n \in DOMAIN v
        BY <1>5, <2>0, <2>2
      <3>2. PICK k \in DOMAIN v : k = i - n
        BY <3>1
      <3>3. PICK k2 \in DOMAIN v : k2 = j - n
        BY <3>1
      <3>4. w[i] = v[k] /\ w[j] = v[k2]
        BY <3>1, <3>2, <3>3
      <3>5. x \in DOMAIN v[k].sources /\ y \in DOMAIN v[k2].sources /\ v[k].sources[x] = v[k2].sources[y]
        BY <1>6, <3>4, Zenon
      <3>6. k = k2 /\ x = y
        BY <3>5, ApartAt
      <3> QED
        BY <2>0, <3>2, <3>3, <3>6
    <2>3. CASE i <= n /\ ~(j <= n)
      <3>1. w[i] = u[i] /\ w[j] = v[j - n] /\ i \in DOMAIN u /\ j - n \in DOMAIN v
        BY <1>5, <2>0, <2>3
      <3>2. UsedIn(u, w[i].sources[x]) /\ UsedIn(v, w[j].sources[y])
        BY <3>1, Zenon DEF UsedIn
      <3> QED
        BY <1>6, <3>2
    <2>4. CASE ~(i <= n) /\ j <= n
      <3>1. w[i] = v[i - n] /\ w[j] = u[j] /\ i - n \in DOMAIN v /\ j \in DOMAIN u
        BY <1>5, <2>0, <2>4
      <3>2. UsedIn(v, w[i].sources[x]) /\ UsedIn(u, w[j].sources[y])
        BY <3>1, Zenon DEF UsedIn
      <3> QED
        BY <1>6, <3>2
    <2> QED
      BY <2>1, <2>2, <2>3, <2>4
  <1>7. ASSUME NEW s, UsedIn(w, s) PROVE UsedIn(u, s) \/ UsedIn(v, s)
    <2>1. PICK i \in DOMAIN w : \E x \in DOMAIN w[i].sources : w[i].sources[x] = s
      BY <1>7 DEF UsedIn
    <2>2. i \in 1 .. n + l
      BY <1>4
    <2>3. CASE i <= n
      <3>1. w[i] = u[i] /\ i \in DOMAIN u
        BY <1>5, <2>2, <2>3
      <3> QED
        BY <2>1, <3>1, Zenon DEF UsedIn
    <2>4. CASE ~(i <= n)
      <3>1. w[i] = v[i - n] /\ i - n \in DOMAIN v
        BY <1>5, <2>2, <2>4
      <3> QED
        BY <2>1, <3>1, Zenon DEF UsedIn
    <2> QED
      BY <2>3, <2>4
  <1>8. Apart(w)
    BY <1>6 DEF Apart
  <1> QED
    BY <1>3, <1>7, <1>8

LEMMA ApartFlattened ==
  ASSUME NEW X, NEW ss \in Seq(Seq(X)), \A i \in DOMAIN ss : Apart(ss[i]),
         \A i, j \in DOMAIN ss : \A s : UsedIn(ss[i], s) /\ UsedIn(ss[j], s) => i = j
  PROVE  /\ Apart(FlattenSeq(ss))
         /\ \A s : UsedIn(FlattenSeq(ss), s) => \E i \in DOMAIN ss : UsedIn(ss[i], s)
  <1>1. PICK n \in Nat : n = Len(ss) /\ DOMAIN ss = 1 .. n
    OBVIOUS
  <1>2. CASE n = 0
    <2>1. FlattenSeq(ss) = ss
      BY <1>1, <1>2, Zenon DEF FlattenSeq
    <2>2. DOMAIN ss = {}
      BY <1>1, <1>2
    <2> QED
      BY <2>1, <2>2 DEF Apart, UsedIn
  <1>3. CASE n # 0
    <2> DEFINE f == CHOOSE f : f = [i \in 1 .. Len(ss) |-> IF i = 1 THEN ss[i] ELSE f[i - 1] \o ss[i]]
    <2>1. FlattenSeq(ss) = f[n]
      BY <1>1, <1>3, Zenon DEF FlattenSeq
    <2>2. Joins(f, ss, n)
      <3>1. \E g : g = [i \in 1 .. Len(ss) |-> IF i = 1 THEN ss[i] ELSE g[i - 1] \o ss[i]]
        BY <1>1, JoinsExist, Zenon DEF Joins
      <3> QED
        BY <1>1, <3>1, Zenon DEF Joins
    <2> HIDE DEF f
    <2>3. \A i \in 1 .. n : f[i] = IF i = 1 THEN ss[i] ELSE f[i - 1] \o ss[i]
      BY <2>2, Zenon DEF Joins
    <2>4. \A i \in 1 .. n : ss[i] \in Seq(X)
      BY <1>1
    <2> DEFINE Good(i) == /\ f[i] \in Seq(X) /\ Apart(f[i])
                          /\ \A s : UsedIn(f[i], s) => \E j \in 1 .. i : UsedIn(ss[j], s)
               Bad == {i \in Nat : i \in 1 .. n /\ ~Good(i)}
    <2>5. Good(n)
      <3> SUFFICES ASSUME n \in Bad PROVE FALSE
        BY <1>3
      <3>1. PICK i \in Bad : \A j \in Bad : i <= j
        <4> HIDE DEF Good
        <4> QED
          BY LeastOf
      <3>2. i \in 1 .. n /\ ~Good(i)
        BY <3>1
      <3>3. i # 1
        <4>1. f[1] = ss[1]
          BY <1>3, <2>3
        <4>2. 1 \in 1 .. n /\ 1 \in 1 .. 1
          BY <1>3
        <4>3. f[1] \in Seq(X) /\ Apart(f[1])
          BY <1>1, <2>4, <4>1, <4>2
        <4>4. \A s : UsedIn(f[1], s) => \E j \in 1 .. 1 : UsedIn(ss[j], s)
          BY <4>1, <4>2, Zenon
        <4> QED
          BY <3>2, <4>3, <4>4
      <3>4. i - 1 \in 1 .. n /\ i - 1 \notin Bad
        BY <3>1, <3>2, <3>3
      <3>5. Good(i - 1)
        <4> HIDE DEF Good
        <4> QED
          BY <3>4
      <3>6. PICK u \in Seq(X) : u = f[i - 1] /\ Apart(u)
                                /\ \A s : UsedIn(u, s) => \E j \in 1 .. i - 1 : UsedIn(ss[j], s)
        BY <3>5
      <3>7. PICK v \in Seq(X) : v = ss[i]
        BY <2>4, <3>2
      <3>8. Apart(v)
        BY <1>1, <3>2, <3>7
      <3>9. \A s : ~(UsedIn(u, s) /\ UsedIn(v, s))
        <4> SUFFICES ASSUME NEW s, UsedIn(u, s), UsedIn(v, s) PROVE FALSE
          OBVIOUS
        <4>1. PICK j \in 1 .. i - 1 : UsedIn(ss[j], s)
          BY <3>6
        <4>2. j \in DOMAIN ss /\ i \in DOMAIN ss /\ j # i
          BY <1>1, <3>2, <3>4
        <4> QED
          BY <3>7, <4>1, <4>2, Zenon
      <3>10. Apart(u \o v) /\ \A s : UsedIn(u \o v, s) => UsedIn(u, s) \/ UsedIn(v, s)
        BY <3>6, <3>8, <3>9, ApartJoined
      <3>11. f[i] = u \o v
        BY <2>3, <3>2, <3>3, <3>6, <3>7
      <3>12. u \o v \in Seq(X)
        OBVIOUS
      <3>13. \A s : UsedIn(f[i], s) => \E j \in 1 .. i : UsedIn(ss[j], s)
        <4> SUFFICES ASSUME NEW s, UsedIn(u \o v, s) PROVE \E j \in 1 .. i : UsedIn(ss[j], s)
          BY <3>11
        <4>1. CASE UsedIn(u, s)
          <5>1. PICK j \in 1 .. i - 1 : UsedIn(ss[j], s)
            BY <3>6, <4>1
          <5>2. j \in 1 .. i
            BY <3>2
          <5> QED
            BY <5>1, <5>2
        <4>2. CASE UsedIn(v, s)
          <5>1. i \in 1 .. i
            BY <3>2
          <5> QED
            BY <3>7, <4>2, <5>1, Zenon
        <4> QED
          BY <3>10, <4>1, <4>2
      <3> QED
        BY <3>2, <3>10, <3>11, <3>12, <3>13, Zenon
    <2> QED
      BY <1>1, <2>1, <2>5
  <1> QED
    BY <1>2, <1>3
-----------------------------------------------------------------------------
(* What a pass has listed, and the messages made of it *)

ReceivedRow == [a : Arrivals, at : -1 .. MaxTime]
Entry == [slot : Index, row : ReceivedRow]

\* A pass is rows the network delivered, each from a slot of its own.
PassOK ==
    /\ pass \in Seq(Entry)
    /\ \A p \in DOMAIN pass : IsReceived(pass[p].row)
    /\ \A p, q \in DOMAIN pass : p # q => pass[p].slot # pass[q].slot

\* Something of the message has a stamp, and all that has is past the grace
\* period.
Waited(m) ==
    LET stamps == {Stamp(m.sources[s]) : s \in DOMAIN m.sources} \ {NoStamp}
    IN  stamps # {} /\ \A s \in stamps : t - s > Grace

\* Messages that may be made of the positions P: nothing is missing, or it was
\* waited for.
Message(P) ==
    {m \in [sources : Seq(P), missing : SUBSET Nat] : m.missing # {} => Waited(m)}

LEMMA PositionFacts ==
  ASSUME PassOK, NEW P \in SUBSET DOMAIN pass
  PROVE  /\ IsFiniteSet(P) /\ P \subseteq Nat
         /\ \A p \in P : /\ Stamp(p) \in Int /\ Piece(p).group \in Nat
                         /\ Piece(p).total \in Nat /\ Piece(p).seq \in Nat
  <1>1. PICK n \in Nat : DOMAIN pass = 1 .. n
    BY DEF PassOK
  <1>2. IsFiniteSet(P)
    BY <1>1, FS_Interval, FS_Subset
  <1>3. \A p \in DOMAIN pass : pass[p].row \in ReceivedRow
    <2>1. \A p \in DOMAIN pass : pass[p] \in Entry
      BY DEF PassOK
    <2> QED
      BY <2>1 DEF Entry
  <1>4. \A p \in P : pass[p].row.a \in Arrivals /\ pass[p].row.at \in Int
    BY <1>3, SmsAssumption DEF ReceivedRow
  <1> QED
    BY <1>1, <1>2, <1>4, SmsAssumption DEF Stamp, Piece

\* The fragments of one place in a group.
PlaceOf(P, g, s) == {p \in P : ~Alone(p) /\ GroupOf(p) = g /\ Piece(p).seq = s}

LEMMA QueueIs ==
  ASSUME PassOK, NEW P \in SUBSET DOMAIN pass, NEW g, NEW s
  PROVE  /\ Queue(P, g, s) \in SetToSeqs(PlaceOf(P, g, s))
         /\ Queue(P, g, s) \in Seq(P)
  <1> DEFINE S == PlaceOf(P, g, s)
             R == {x \in S \X S : \/ Stamp(x[1]) < Stamp(x[2])
                                  \/ Stamp(x[1]) = Stamp(x[2]) /\ x[1] < x[2]}
  <1>1. S \in SUBSET P /\ S \in SUBSET DOMAIN pass
    BY DEF PlaceOf
  <1>2. IsFiniteSet(S) /\ S \subseteq Nat /\ \A p \in S : Stamp(p) \in Int
    BY <1>1, PositionFacts
  <1> HIDE DEF S
  <1>3. \A x, y \in S : <<x, y>> \in R <=> \/ Stamp(x) < Stamp(y)
                                           \/ Stamp(x) = Stamp(y) /\ x < y
    OBVIOUS
  <1>4. Orders(R, S)
    <2> HIDE DEF R
    <2>1. \A x, y \in S : x # y => <<x, y>> \in R \/ <<y, x>> \in R
      BY <1>2, <1>3
    <2>2. \A x, y, z \in S : <<x, y>> \in R /\ <<y, z>> \in R => <<x, z>> \in R
      BY <1>2, <1>3
    <2> QED
      BY <2>1, <2>2 DEF Orders
  <1>5. PICK r : IsInOrder(r, S, R)
    BY <1>2, <1>4, OrderExists
  <1>6. /\ r \in SetToSeqs(S)
        /\ \A i, j \in DOMAIN r :
              i < j => (Stamp(r[i]) < Stamp(r[j]) \/ (Stamp(r[i]) = Stamp(r[j]) /\ r[i] < r[j]))
    BY <1>5 DEF IsInOrder
  <1>7. Queue(P, g, s) \in SetToSeqs(S)
    BY <1>6 DEF Queue, InOrder, S, PlaceOf
  <1>8. Queue(P, g, s) \in Seq(S)
    BY <1>2, <1>7, SeqOfSet
  <1>9. Queue(P, g, s) \in Seq(P)
    BY <1>1, <1>8
  <1> QED
    BY <1>7, <1>9 DEF S

\* No whole message is short of a fragment.
LEMMA RoundsFit ==
  ASSUME PassOK, NEW P \in SUBSET DOMAIN pass, NEW g, g[2] \in Nat \ {0}
  PROVE  Rounds(P, g) \in Nat /\ \A s \in 1 .. g[2] : Rounds(P, g) <= Len(Queue(P, g, s))
  <1> DEFINE Lengths == {Len(Queue(P, g, s)) : s \in 1 .. g[2]}
  <1>1. \A s \in 1 .. g[2] : Queue(P, g, s) \in Seq(P)
    BY QueueIs
  <1>2. Lengths \in SUBSET Nat /\ Lengths # {}
    <2>1. \A s \in 1 .. g[2] : Len(Queue(P, g, s)) \in Nat
      BY <1>1
    <2>2. 1 \in 1 .. g[2]
      OBVIOUS
    <2> QED
      BY <2>1, <2>2
  <1>3. \E n \in Lengths : \A k \in Lengths : n <= k
    BY <1>2, LeastOf
  <1>4. Rounds(P, g) \in Lengths /\ \A k \in Lengths : Rounds(P, g) <= k
    BY <1>3 DEF Rounds
  <1> QED
    BY <1>2, <1>4

LEMMA WholesAre ==
  ASSUME PassOK, NEW P \in SUBSET DOMAIN pass, NEW g, g[2] \in Nat \ {0}
  PROVE  Wholes(P, g) \in Seq(Message(P))
  <1>1. \A s \in 1 .. g[2] : Queue(P, g, s) \in Seq(P)
    BY QueueIs
  <1>2. Rounds(P, g) \in Nat /\ \A s \in 1 .. g[2] : Rounds(P, g) <= Len(Queue(P, g, s))
    BY RoundsFit
  <1>3. ASSUME NEW r \in 1 .. Rounds(P, g)
        PROVE  [sources |-> [s \in 1 .. g[2] |-> Queue(P, g, s)[r]], missing |-> {}] \in Message(P)
    <2>1. \A s \in 1 .. g[2] : r \in 1 .. Len(Queue(P, g, s))
      BY <1>1, <1>2
    <2>2. \A s \in 1 .. g[2] : Queue(P, g, s)[r] \in P
      BY <1>1, <2>1, ElementOfSeq
    <2>3. [s \in 1 .. g[2] |-> Queue(P, g, s)[r]] \in Seq(P)
      BY <2>2
    <2> QED
      BY <2>3 DEF Message
  <1>4. Wholes(P, g) \in [1 .. Rounds(P, g) -> Message(P)]
    BY <1>3 DEF Wholes
  <1> QED
    BY <1>2, <1>4

LEMMA ReleasedIs ==
  ASSUME PassOK, NEW P \in SUBSET DOMAIN pass, NEW g, g[2] \in Nat
  PROVE  Released(P, g) \in Seq(Message(P))
  <1> DEFINE L == Leftovers(P, g)
             m == [sources |-> Ascending(L), missing |-> (1 .. g[2]) \ {Piece(p).seq : p \in L}]
  <1>1. L \in SUBSET P
    BY DEF Leftovers
  <1>2. IsFiniteSet(L) /\ L \subseteq Int
    <2> HIDE DEF L
    <2>1. L \in SUBSET DOMAIN pass
      BY <1>1
    <2> QED
      BY <2>1, PositionFacts
  <1>3. Ascending(L) \in Seq(L) /\ ToSet(Ascending(L)) = L
    BY <1>2, AscendingIs, SeqOfSet
  <1>4. Expired(P, g) => Waited(m)
    <2>1. {Stamp(m.sources[s]) : s \in DOMAIN m.sources} = {Stamp(p) : p \in L}
      <3> HIDE DEF L
      <3> QED
        BY <1>3 DEF ToSet
    <2> QED
      BY <2>1 DEF Expired, Waited
  <1>5. Expired(P, g) => m \in Message(P)
    <2>1. Ascending(L) \in Seq(P)
      BY <1>1, <1>3
    <2>2. m \in [sources : Seq(P), missing : SUBSET Nat]
      BY <2>1
    <2> HIDE DEF m
    <2> QED
      BY <1>4, <2>2 DEF Message
  <1>6. Released(P, g) = IF L # {} /\ Expired(P, g) THEN <<m>> ELSE <<>>
    BY DEF Released
  <1> HIDE DEF m
  <1>7. Expired(P, g) => <<m>> \in Seq(Message(P))
    BY <1>5
  <1>8. <<>> \in Seq(Message(P))
    BY EmptySeq
  <1> QED
    BY <1>6, <1>7, <1>8

\* Assemble by its parts: the messages of one fragment, and those of each group.
GroupsIn(P) == {GroupOf(p) : p \in {q \in P : ~Alone(q)}}
GroupOrder(P) ==
    InOrder(GroupsIn(P), LAMBDA g, h : g[1] < h[1] \/ (g[1] = h[1] /\ g[2] < h[2]))
Singles(P) ==
    [i \in DOMAIN Ascending({p \in P : Alone(p)}) |->
        [sources |-> <<Ascending({p \in P : Alone(p)})[i]>>, missing |-> {}]]
Grouped(P) ==
    [i \in DOMAIN GroupOrder(P) |-> Wholes(P, GroupOrder(P)[i]) \o Released(P, GroupOrder(P)[i])]

LEMMA GroupsAre ==
  ASSUME PassOK, NEW P \in SUBSET DOMAIN pass
  PROVE  /\ IsFiniteSet(GroupsIn(P)) /\ GroupOrder(P) \in SetToSeqs(GroupsIn(P))
         /\ GroupOrder(P) \in Seq(GroupsIn(P))
         /\ \A g \in GroupsIn(P) : g[2] \in Nat \ {0}
  <1> DEFINE N == {q \in P : ~Alone(q)}
             G == GroupsIn(P)
  <1>1. N \in SUBSET DOMAIN pass
    OBVIOUS
  <1>2. G \subseteq Nat \X Nat
    BY <1>1, PositionFacts DEF GroupOf, GroupsIn
  <1>3. IsFiniteSet(G)
    <2> DEFINE f == [p \in N |-> GroupOf(p)]
    <2>1. f \in Surjection(N, G)
      BY DEF Surjection, GroupsIn
    <2>2. IsFiniteSet(N)
      <3> HIDE DEF N
      <3> QED
        BY <1>1, PositionFacts
    <2> HIDE DEF f, N, G
    <2> QED
      BY <2>1, <2>2, FS_Surjection
  <1>4. \A g \in G : g[2] \in Nat \ {0}
    <2>1. \A p \in N : Piece(p).total \in Nat /\ ~(Piece(p).total <= 1)
      BY PositionFacts DEF Alone
    <2> QED
      BY <2>1 DEF GroupOf, GroupsIn
  <1>5. GroupOrder(P) = InOrder(G, LAMBDA g, h : g[1] < h[1] \/ (g[1] = h[1] /\ g[2] < h[2]))
    BY DEF GroupOrder
  <1> HIDE DEF G
  <1> DEFINE R == {x \in G \X G : \/ x[1][1] < x[2][1]
                                  \/ x[1][1] = x[2][1] /\ x[1][2] < x[2][2]}
  <1>6. \A x, y \in G : <<x, y>> \in R <=> (x[1] < y[1] \/ (x[1] = y[1] /\ x[2] < y[2]))
    OBVIOUS
  <1>7. \A x \in G : x[1] \in Nat /\ x[2] \in Nat /\ x = <<x[1], x[2]>>
    BY <1>2
  <1>8. Orders(R, G)
    <2> HIDE DEF R
    <2>1. \A x, y \in G : x # y => <<x, y>> \in R \/ <<y, x>> \in R
      <3> SUFFICES ASSUME NEW x \in G, NEW y \in G, x # y PROVE <<x, y>> \in R \/ <<y, x>> \in R
        OBVIOUS
      <3>1. x[1] # y[1] \/ x[2] # y[2]
        BY <1>7
      <3> QED
        BY <1>6, <1>7, <3>1
    <2>2. \A x, y, z \in G : <<x, y>> \in R /\ <<y, z>> \in R => <<x, z>> \in R
      BY <1>6, <1>7
    <2> QED
      BY <2>1, <2>2 DEF Orders
  <1>9. PICK s : IsInOrder(s, G, R)
    BY <1>3, <1>8, OrderExists
  <1>10. /\ s \in SetToSeqs(G)
         /\ \A i, j \in DOMAIN s :
               i < j => (s[i][1] < s[j][1] \/ (s[i][1] = s[j][1] /\ s[i][2] < s[j][2]))
    BY <1>9 DEF IsInOrder
  <1>11. GroupOrder(P) \in SetToSeqs(G)
    BY <1>5, <1>10 DEF InOrder
  <1>12. GroupOrder(P) \in Seq(G)
    BY <1>3, <1>11, SeqOfSet
  <1> QED
    BY <1>3, <1>4, <1>11, <1>12 DEF G

LEMMA PartsAre ==
  ASSUME PassOK, NEW P \in SUBSET DOMAIN pass
  PROVE  /\ Assemble(P) = Singles(P) \o FlattenSeq(Grouped(P))
         /\ Singles(P) \in Seq(Message(P)) /\ Grouped(P) \in Seq(Seq(Message(P)))
  <1>1. Assemble(P) = Singles(P) \o FlattenSeq(Grouped(P))
    BY DEF Assemble, Singles, Grouped, GroupOrder, GroupsIn
  <1>2. Singles(P) \in Seq(Message(P))
    <2> DEFINE A == {p \in P : Alone(p)}
               singles == Ascending(A)
    <2>0. Singles(P) = [i \in DOMAIN singles |-> [sources |-> <<singles[i]>>, missing |-> {}]]
      BY DEF Singles
    <2>1. A \in SUBSET P /\ A \in SUBSET DOMAIN pass
      OBVIOUS
    <2> HIDE DEF A
    <2>2. IsFiniteSet(A) /\ A \subseteq Int
      BY <2>1, PositionFacts
    <2>3. singles \in Seq(A)
      BY <2>2, AscendingIs, SeqOfSet
    <2> HIDE DEF singles
    <2>4. \A i \in DOMAIN singles : singles[i] \in P
      BY <2>1, <2>3
    <2>5. \A p \in P : [sources |-> <<p>>, missing |-> {}] \in Message(P)
      BY DEF Message
    <2>6. \A i \in DOMAIN singles : [sources |-> <<singles[i]>>, missing |-> {}] \in Message(P)
      BY <2>4, <2>5
    <2>7. PICK n \in Nat : DOMAIN singles = 1 .. n
      BY <2>3
    <2> QED
      BY <2>0, <2>6, <2>7
  <1>3. \A g \in GroupsIn(P) : Wholes(P, g) \o Released(P, g) \in Seq(Message(P))
    <2> SUFFICES ASSUME NEW g \in GroupsIn(P) PROVE Wholes(P, g) \o Released(P, g) \in Seq(Message(P))
      OBVIOUS
    <2>1. Wholes(P, g) \in Seq(Message(P)) /\ Released(P, g) \in Seq(Message(P))
      BY GroupsAre, WholesAre, ReleasedIs
    <2> QED
      BY <2>1
  <1>4. Grouped(P) \in Seq(Seq(Message(P)))
    <2>1. GroupOrder(P) \in Seq(GroupsIn(P))
      BY GroupsAre
    <2>2. PICK n \in Nat : DOMAIN GroupOrder(P) = 1 .. n
      BY <2>1
    <2>3. \A i \in DOMAIN GroupOrder(P) : GroupOrder(P)[i] \in GroupsIn(P)
      BY <2>1
    <2>4. \A i \in 1 .. n : Wholes(P, GroupOrder(P)[i]) \o Released(P, GroupOrder(P)[i]) \in Seq(Message(P))
      BY <1>3, <2>2, <2>3
    <2> QED
      BY <2>2, <2>4 DEF Grouped
  <1> QED
    BY <1>1, <1>2, <1>4

\* Every message made of the positions P is made of them, and none with a part
\* missing came too early.
LEMMA AssembleIs ==
  ASSUME PassOK, NEW P \in SUBSET DOMAIN pass
  PROVE  Assemble(P) \in Seq(Message(P))
  <1>1. /\ Assemble(P) = Singles(P) \o FlattenSeq(Grouped(P))
        /\ Singles(P) \in Seq(Message(P)) /\ Grouped(P) \in Seq(Seq(Message(P)))
    BY PartsAre
  <1>2. PICK ss \in Seq(Seq(Message(P))) : ss = Grouped(P)
    BY <1>1
  <1>3. FlattenSeq(Grouped(P)) \in Seq(Message(P))
    BY <1>2, FlattenType
  <1> QED
    BY <1>1, <1>3

\* A fragment is in one whole message of its group, and in its own place.
LEMMA WholesApart ==
  ASSUME PassOK, NEW P \in SUBSET DOMAIN pass, NEW g, g[2] \in Nat \ {0}
  PROVE  /\ Apart(Wholes(P, g))
         /\ \A p : UsedIn(Wholes(P, g), p) => p \in P /\ ~Alone(p) /\ GroupOf(p) = g
  <1> DEFINE Q(s) == Queue(P, g, s)
  <1>1. ASSUME NEW s \in 1 .. g[2]
        PROVE  /\ \A i \in DOMAIN Q(s) : Q(s)[i] \in PlaceOf(P, g, s)
               /\ \A i, j \in DOMAIN Q(s) : Q(s)[i] = Q(s)[j] => i = j
               /\ DOMAIN Q(s) = 1 .. Len(Q(s)) /\ Len(Q(s)) \in Nat
    <2>1. PlaceOf(P, g, s) \in SUBSET DOMAIN pass
      BY DEF PlaceOf
    <2>2. IsFiniteSet(PlaceOf(P, g, s))
      BY <2>1, PositionFacts
    <2>3. PICK S : S = PlaceOf(P, g, s)
      OBVIOUS
    <2>4. PICK q \in SetToSeqs(S) : q = Q(s)
      BY <2>3, QueueIs
    <2>5. /\ q \in Seq(S) /\ ToSet(q) = S /\ DOMAIN q = 1 .. Len(q)
          /\ \A i, j \in DOMAIN q : i # j => q[i] # q[j]
      BY <2>2, <2>3, SeqOfSet
    <2> HIDE DEF Q
    <2> QED
      BY <2>3, <2>4, <2>5
  <1>2. Rounds(P, g) \in Nat /\ \A s \in 1 .. g[2] : Rounds(P, g) <= Len(Q(s))
    BY RoundsFit
  <1>3. PICK w : w = Wholes(P, g)
    OBVIOUS
  <1>4. /\ DOMAIN w = 1 .. Rounds(P, g)
        /\ \A r \in DOMAIN w : /\ DOMAIN w[r].sources = 1 .. g[2]
                               /\ \A s \in 1 .. g[2] : w[r].sources[s] = Q(s)[r]
    BY <1>3 DEF Wholes
  <1> HIDE DEF Q
  <1>5. \A r \in DOMAIN w : \A s \in 1 .. g[2] : r \in DOMAIN Q(s)
    BY <1>1, <1>2, <1>4
  <1>6. ASSUME NEW r \in DOMAIN w, NEW s \in 1 .. g[2]
        PROVE  w[r].sources[s] \in PlaceOf(P, g, s)
    BY <1>1, <1>4, <1>5
  <1>7. ASSUME NEW r \in DOMAIN w, NEW k \in DOMAIN w,
               NEW x \in DOMAIN w[r].sources, NEW y \in DOMAIN w[k].sources,
               w[r].sources[x] = w[k].sources[y]
        PROVE  r = k /\ x = y
    <2>1. x \in 1 .. g[2] /\ y \in 1 .. g[2]
      BY <1>4
    <2>2. w[r].sources[x] \in PlaceOf(P, g, x) /\ w[k].sources[y] \in PlaceOf(P, g, y)
      BY <1>6, <2>1
    <2>3. x = y
      BY <1>7, <2>2 DEF PlaceOf
    <2>4. Q(x)[r] = Q(x)[k] /\ r \in DOMAIN Q(x) /\ k \in DOMAIN Q(x)
      BY <1>4, <1>5, <1>7, <2>1, <2>3
    <2> QED
      BY <1>1, <2>1, <2>3, <2>4
  <1>8. Apart(w)
    BY <1>7 DEF Apart
  <1>9. ASSUME NEW p, UsedIn(w, p) PROVE p \in P /\ ~Alone(p) /\ GroupOf(p) = g
    <2>1. PICK r \in DOMAIN w : \E x \in DOMAIN w[r].sources : w[r].sources[x] = p
      BY <1>9 DEF UsedIn
    <2>2. PICK x \in 1 .. g[2] : w[r].sources[x] = p
      BY <1>4, <2>1
    <2>3. p \in PlaceOf(P, g, x)
      BY <1>6, <2>2
    <2> QED
      BY <2>3 DEF PlaceOf
  <1> QED
    BY <1>3, <1>8, <1>9

\* What is released is what no whole message took.
LEMMA ReleasedApart ==
  ASSUME PassOK, NEW P \in SUBSET DOMAIN pass, NEW g
  PROVE  /\ Apart(Released(P, g))
         /\ \A p : UsedIn(Released(P, g), p) => p \in Leftovers(P, g)
  <1>1. PICK L : L = Leftovers(P, g)
    OBVIOUS
  <1>2. L \in SUBSET DOMAIN pass
    BY <1>1 DEF Leftovers
  <1>3. IsFiniteSet(L) /\ L \subseteq Int
    BY <1>2, PositionFacts
  <1>4. PICK q \in SetToSeqs(L) : q = Ascending(L)
    BY <1>3, AscendingIs
  <1>5. /\ q \in Seq(L)
        /\ \A i, j \in DOMAIN q : i # j => q[i] # q[j]
    BY <1>3, SeqOfSet
  <1>6. PICK w : w = Released(P, g)
    OBVIOUS
  <1>7. \A i \in DOMAIN w : i = 1 /\ w[i].sources = q
    BY <1>1, <1>4, <1>6 DEF Released
  <1>8. Apart(w)
    BY <1>5, <1>7 DEF Apart
  <1>9. \A p : UsedIn(w, p) => p \in L
    BY <1>5, <1>7 DEF UsedIn
  <1> QED
    BY <1>1, <1>6, <1>8, <1>9

LEMMA GroupApart ==
  ASSUME PassOK, NEW P \in SUBSET DOMAIN pass, NEW g, g[2] \in Nat \ {0}
  PROVE  /\ Apart(Wholes(P, g) \o Released(P, g))
         /\ \A p : UsedIn(Wholes(P, g) \o Released(P, g), p) => p \in P /\ ~Alone(p) /\ GroupOf(p) = g
  <1>1. PICK X : X = Message(P)
    OBVIOUS
  <1>2. PICK u \in Seq(X) : u = Wholes(P, g)
    BY <1>1, WholesAre
  <1>3. PICK v \in Seq(X) : v = Released(P, g)
    BY <1>1, ReleasedIs
  <1>4. Apart(u) /\ \A p : UsedIn(u, p) => p \in P /\ ~Alone(p) /\ GroupOf(p) = g
    BY <1>2, WholesApart
  <1>5. Apart(v) /\ \A p : UsedIn(v, p) => p \in Leftovers(P, g)
    BY <1>3, ReleasedApart
  <1>6. \A p : ~(UsedIn(u, p) /\ UsedIn(v, p))
    <2> SUFFICES ASSUME NEW p, UsedIn(u, p), p \in Leftovers(P, g) PROVE FALSE
      BY <1>5
    <2>1. PICK r \in DOMAIN u : \E x \in DOMAIN u[r].sources : u[r].sources[x] = p
      BY DEF UsedIn
    <2>2. p \in ToSet(u[r].sources)
      BY <2>1 DEF ToSet
    <2> QED
      BY <1>2, <2>2 DEF Leftovers
  <1>7. Apart(u \o v) /\ \A p : UsedIn(u \o v, p) => UsedIn(u, p) \/ UsedIn(v, p)
    BY <1>4, <1>5, <1>6, ApartJoined
  <1>8. \A p : p \in Leftovers(P, g) => p \in P /\ ~Alone(p) /\ GroupOf(p) = g
    BY DEF Leftovers
  <1> QED
    BY <1>2, <1>3, <1>4, <1>5, <1>7, <1>8

\* A position is in one message only, whatever the messages are.
LEMMA AssembleApart ==
  ASSUME PassOK, NEW P \in SUBSET DOMAIN pass
  PROVE  Apart(Assemble(P)) /\ \A p : UsedIn(Assemble(P), p) => p \in P
  <1>1. PICK X : X = Message(P)
    OBVIOUS
  <1>2. PICK u \in Seq(X) : u = Singles(P)
    BY <1>1, PartsAre
  <1>3. PICK ss \in Seq(Seq(X)) : ss = Grouped(P)
    BY <1>1, PartsAre
  <1>4. Apart(u) /\ \A p : UsedIn(u, p) => p \in P /\ Alone(p)
    <2>1. PICK A : A = {p \in P : Alone(p)}
      OBVIOUS
    <2>2. A \in SUBSET DOMAIN pass
      BY <2>1
    <2>3. IsFiniteSet(A) /\ A \subseteq Int
      <3>1. IsFiniteSet(A) /\ A \subseteq Nat
        BY <2>2, PositionFacts, Zenon
      <3> QED
        BY <3>1
    <2>4. PICK q \in SetToSeqs(A) : q = Ascending(A)
      BY <2>3, AscendingIs
    <2>5. q \in Seq(A) /\ \A i, j \in DOMAIN q : i # j => q[i] # q[j]
      BY <2>3, SeqOfSet
    <2>6. DOMAIN u = DOMAIN q /\ \A i \in DOMAIN u : u[i].sources = <<q[i]>>
      BY <1>2, <2>1, <2>4 DEF Singles
    <2>7. \A i \in DOMAIN u : \A x \in DOMAIN u[i].sources : x = 1 /\ u[i].sources[x] = q[i] /\ q[i] \in A
      BY <2>5, <2>6
    <2>8. Apart(u)
      BY <2>5, <2>6, <2>7 DEF Apart
    <2>9. \A p : UsedIn(u, p) => p \in A
      BY <2>7 DEF UsedIn
    <2> QED
      BY <2>1, <2>8, <2>9
  <1>5. PICK o : o = GroupOrder(P)
    OBVIOUS
  <1>6. PICK G : G = GroupsIn(P)
    OBVIOUS
  <1>7. /\ o \in Seq(G) /\ \A i, j \in DOMAIN o : i # j => o[i] # o[j]
        /\ \A i \in DOMAIN o : o[i][2] \in Nat \ {0}
    <2>1. IsFiniteSet(G) /\ o \in SetToSeqs(G) /\ \A g \in G : g[2] \in Nat \ {0}
      BY <1>5, <1>6, GroupsAre
    <2>2. o \in Seq(G) /\ \A i, j \in DOMAIN o : i # j => o[i] # o[j]
      BY <2>1, SeqOfSet
    <2> QED
      BY <2>1, <2>2
  <1>8. DOMAIN ss = DOMAIN o /\ \A i \in DOMAIN o : ss[i] = Wholes(P, o[i]) \o Released(P, o[i])
    BY <1>3, <1>5 DEF Grouped
  <1>9. ASSUME NEW i \in DOMAIN ss
        PROVE  Apart(ss[i]) /\ \A p : UsedIn(ss[i], p) => p \in P /\ ~Alone(p) /\ GroupOf(p) = o[i]
    <2>1. PICK g : g = o[i]
      OBVIOUS
    <2>2. g[2] \in Nat \ {0}
      BY <1>7, <1>8, <2>1
    <2>3. ss[i] = Wholes(P, g) \o Released(P, g)
      BY <1>8, <2>1
    <2>4. /\ Apart(Wholes(P, g) \o Released(P, g))
          /\ \A p : UsedIn(Wholes(P, g) \o Released(P, g), p) => p \in P /\ ~Alone(p) /\ GroupOf(p) = g
      BY <2>2, GroupApart
    <2> QED
      BY <2>1, <2>3, <2>4, Zenon
  <1>10. \A i, j \in DOMAIN ss : \A p : UsedIn(ss[i], p) /\ UsedIn(ss[j], p) => i = j
    BY <1>7, <1>8, <1>9
  <1>11. PICK v \in Seq(X) : v = FlattenSeq(ss)
    BY FlattenType
  <1>12. Apart(v) /\ \A p : UsedIn(v, p) => \E i \in DOMAIN ss : UsedIn(ss[i], p)
    BY <1>9, <1>10, <1>11, ApartFlattened
  <1>13. \A p : UsedIn(v, p) => p \in P /\ ~Alone(p)
    BY <1>9, <1>12
  <1>14. \A p : ~(UsedIn(u, p) /\ UsedIn(v, p))
    BY <1>4, <1>13
  <1>15. Apart(u \o v) /\ \A p : UsedIn(u \o v, p) => UsedIn(u, p) \/ UsedIn(v, p)
    BY <1>4, <1>12, <1>14, ApartJoined
  <1>16. Assemble(P) = u \o v
    BY <1>2, <1>3, <1>11, PartsAre
  <1> QED
    BY <1>4, <1>13, <1>15, <1>16

-----------------------------------------------------------------------------
(* The invariant *)

\* A fragment like this was queued for the cloud.
IsQueued(fp) == \E q \in queued : \E s \in DOMAIN q.rows : Fingerprint(q.rows[s]) = fp

\* What was listed at p is still there, unless the console emptied the slot.
InPlace(p) == pass[p].slot \in reused \/ slots[turn][pass[p].slot] = pass[p].row

\* The rows of the ledger: each of a fragment that was queued.
LedgerRow == [fp : {Fingerprint(r) : r \in ReceivedRow}, copies : Nat, last : Int]
QueuedRow == {r \in LedgerRow : IsQueued(r.fp)}

SmsTypes ==
    /\ slots \in [M -> [Index -> ReceivedRow \cup {NoRow}]]
    /\ read \in [M -> SUBSET Index]
    /\ pending \subseteq Arrivals
    /\ arrived \in [DOMAIN arrived -> -1 .. MaxTime] /\ IsFiniteSet(DOMAIN arrived)
    /\ DOMAIN arrived \subseteq Arrivals \ pending
    /\ now \in 0 .. MaxTime /\ began \in 0 .. MaxTime /\ t \in 0 .. MaxTime
    /\ cursor \in 0 .. Windows - 1
    /\ turn \in M
    /\ pc \in {"next", "listed", "keep", "enqueue", "prune", "delete"}
    /\ faults \in 0 .. MaxFaults /\ consoled \in 0 .. MaxConsole

\* What is to be entered into the ledger or deleted was queued, and what is to
\* be deleted, or may be after it is queued, is where it was listed.
PassWork ==
    /\ fps \in Seq(DOMAIN pass) /\ gone \in Seq(DOMAIN pass)
    /\ \A p \in ToSet(fps) : IsQueued(Fingerprint(pass[p].row))
    /\ \A p \in ToSet(gone) : IsQueued(Fingerprint(pass[p].row)) /\ InPlace(p)
    /\ \E P \in SUBSET DOMAIN pass : ready \in Seq(Message(P)) /\ \A p \in P : InPlace(p)
    /\ pc = "next" => pass = <<>> /\ ready = <<>>
    /\ pc = "listed" => ready = <<>> /\ fps = <<>> /\ gone = <<>> /\ \A p \in DOMAIN pass : InPlace(p)
    /\ pc = "enqueue" => ready # <<>>

\* What was deleted was queued, or a copy of it was.
DeletedQueued == \A d \in deleted : d.excused \/ IsQueued(d.fp)

SmsWorkInv ==
    /\ SmsTypes
    /\ PassOK
    /\ PassWork
    /\ ledger \in [M -> Seq(QueuedRow)]
    /\ DeletedQueued
    /\ WaitsForAll

\* The bounds by themselves: a step that needs one should not see the rest of
\* the assumption.
LEMMA SmsBounds ==
  /\ MaxTime \in Nat /\ MaxFaults \in Nat /\ MaxConsole \in Nat
  /\ Len(Modems) \in Nat \ {0}
  /\ \A x \in Arrivals : Part[x].to \in M
  BY SmsAssumption DEF M

LEMMA FirstTurn == 1 \in M /\ 0 \in 0 .. Windows - 1
  <1>1. Slots \in Nat /\ Window \in Nat \ {0} /\ Window <= Slots
    BY SmsAssumption
  <1>2. Slots \div Window \in Nat /\ Slots \div Window >= 1
    BY <1>1
  <1> QED
    BY <1>2, SmsBounds DEF M, Windows

LEMMA FaultsCounted == ASSUME faults \in 0 .. MaxFaults, Fault PROVE faults' \in 0 .. MaxFaults
  BY SmsBounds DEF Fault

\* It includes the types of SmsInv.
LEMMA WorkImpliesTypes == SmsWorkInv => SmsTypeOK
  <1> SUFFICES ASSUME SmsWorkInv PROVE SmsTypeOK
    OBVIOUS
  <1>1. slots \in [M -> [Index -> [a : Arrivals \cup {"none"}, at : -2 .. MaxTime]]]
    <2>1. ReceivedRow \cup {NoRow} \subseteq [a : Arrivals \cup {"none"}, at : -2 .. MaxTime]
      BY SmsAssumption DEF ReceivedRow, NoRow
    <2>2. \A m \in M : \A i \in Index : slots[m][i] \in [a : Arrivals \cup {"none"}, at : -2 .. MaxTime]
      BY <2>1 DEF SmsWorkInv, SmsTypes
    <2>3. slots = [m \in M |-> slots[m]] /\ \A m \in M : slots[m] = [i \in Index |-> slots[m][i]]
      BY DEF SmsWorkInv, SmsTypes
    <2> QED
      BY <2>2, <2>3
  <1>2. \A p \in DOMAIN pass : pass[p].slot \in Index /\ IsReceived(pass[p].row)
    <2>1. \A p \in DOMAIN pass : pass[p] \in Entry
      BY DEF SmsWorkInv, PassOK
    <2> QED
      BY <2>1 DEF SmsWorkInv, PassOK, Entry
  <1>3. ToSet(fps) \cup ToSet(gone) \subseteq DOMAIN pass
    BY DEF SmsWorkInv, PassWork, ToSet
  <1> QED
    BY <1>1, <1>2, <1>3 DEF SmsWorkInv, SmsTypes, SmsTypeOK

LEMMA SmsInitially == SmsInit => SmsWorkInv
  <1> SUFFICES ASSUME SmsInit PROVE SmsWorkInv
    OBVIOUS
  <1>1. 1 \in M /\ 0 \in 0 .. Windows - 1
    BY FirstTurn
  <1>2. SmsTypes
    <2>1. slots \in [M -> [Index -> ReceivedRow \cup {NoRow}]] /\ read \in [M -> SUBSET Index]
      BY DEF SmsInit
    <2>2. pending \subseteq Arrivals
      BY SmsAssumption DEF SmsInit
    <2>3. DOMAIN arrived = {} /\ arrived \in [DOMAIN arrived -> -1 .. MaxTime]
      BY DEF SmsInit
    <2>4. IsFiniteSet(DOMAIN arrived)
      BY <2>3, FS_EmptySet
    <2> QED
      BY <1>1, <2>1, <2>2, <2>3, <2>4, SmsBounds DEF SmsInit, SmsTypes
  <1>3. PassOK
    BY DEF SmsInit, PassOK
  <1>4. PassWork
    <2>1. \A S : <<>> \in Seq(S)
      BY EmptySeq
    <2>2. fps \in Seq(DOMAIN pass) /\ gone \in Seq(DOMAIN pass) /\ ToSet(fps) = {} /\ ToSet(gone) = {}
          /\ ready \in Seq(Message({})) /\ pass = <<>> /\ ready = <<>> /\ pc = "next"
      BY <2>1 DEF SmsInit, ToSet
    <2>3. {} \in SUBSET DOMAIN pass
      OBVIOUS
    <2> QED
      BY <2>2, <2>3 DEF PassWork
  <1>5. ledger \in [M -> Seq(QueuedRow)]
    BY EmptySeq DEF SmsInit
  <1>6. DeletedQueued /\ WaitsForAll
    BY DEF SmsInit, DeletedQueued, WaitsForAll
  <1> QED
    BY <1>2, <1>3, <1>4, <1>5, <1>6 DEF SmsWorkInv

\* What was queued stays queued.
LEMMA QueuedStays ==
  ASSUME queued \subseteq queued'
  PROVE  /\ \A fp : IsQueued(fp) => IsQueued(fp)'
         /\ QueuedRow \subseteq QueuedRow'
         /\ DeletedQueued /\ deleted' = deleted => DeletedQueued'
         /\ ledger \in [M -> Seq(QueuedRow)] /\ ledger' = ledger => (ledger \in [M -> Seq(QueuedRow)])'
  <1>1. \A fp : IsQueued(fp) => IsQueued(fp)'
    BY DEF IsQueued, Fingerprint
  <1>2. QueuedRow \subseteq QueuedRow'
    BY <1>1 DEF QueuedRow, LedgerRow, ReceivedRow, Fingerprint
  <1>3. DeletedQueued /\ deleted' = deleted => DeletedQueued'
    BY <1>1 DEF DeletedQueued, IsQueued
  <1>4. Seq(QueuedRow) \subseteq Seq(QueuedRow')
    BY <1>2
  <1> QED
    BY <1>1, <1>2, <1>3, <1>4

-----------------------------------------------------------------------------
(* Steps that leave the pass alone, and steps that end it *)

LEMMA WorkStays ==
  ASSUME PassOK, PassWork, UNCHANGED <<pass, t, ready, fps, gone, pc>>, queued \subseteq queued',
         \A p \in DOMAIN pass : InPlace(p) => InPlace(p)'
  PROVE  PassOK' /\ PassWork'
  <1>1. PassOK'
    BY DEF PassOK, IsReceived, NoRow
  <1>2. \A fp : IsQueued(fp) => IsQueued(fp)'
    BY QueuedStays
  <1>3. \A p \in DOMAIN pass : Fingerprint(pass[p].row) = Fingerprint(pass[p].row)'
    BY DEF Fingerprint
  <1>4. \A P : Message(P)' = Message(P)
    BY DEF Message, Waited, Stamp, NoStamp
  <1>5. /\ \A p \in ToSet(fps) : IsQueued(Fingerprint(pass[p].row))'
        /\ \A p \in ToSet(gone) : IsQueued(Fingerprint(pass[p].row))' /\ InPlace(p)'
    <2>1. ToSet(fps) \subseteq DOMAIN pass /\ ToSet(gone) \subseteq DOMAIN pass
      BY DEF PassWork, ToSet
    <2> QED
      BY <1>2, <1>3, <2>1 DEF PassWork, Fingerprint
  <1>6. PICK P \in SUBSET DOMAIN pass : ready \in Seq(Message(P)) /\ \A p \in P : InPlace(p)
    BY DEF PassWork
  <1>7. (\E Q \in SUBSET DOMAIN pass : ready \in Seq(Message(Q)) /\ \A p \in Q : InPlace(p))'
    <2>1. ready' \in Seq(Message(P)') /\ (\A p \in P : InPlace(p)') /\ P \in SUBSET DOMAIN pass'
      BY <1>4, <1>6
    <2> QED
      BY <2>1
  <1>8. ToSet(fps)' = ToSet(fps) /\ ToSet(gone)' = ToSet(gone)
    BY DEF ToSet
  <1> QED
    BY <1>1, <1>5, <1>7, <1>8 DEF PassWork

LEMMA PassEnds ==
  ASSUME pass' = <<>>, ready' = <<>>, fps' = <<>>, gone' = <<>>, pc' = "next"
  PROVE  PassOK' /\ PassWork'
  <1>1. PassOK'
    BY DEF PassOK
  <1>2. \A S : <<>> \in Seq(S)
    BY EmptySeq
  <1>3. ToSet(<<>>) = {}
    BY DEF ToSet
  <1>4. (\E P \in SUBSET DOMAIN pass : ready \in Seq(Message(P)) /\ \A p \in P : InPlace(p))'
    <2>1. ready' \in Seq(Message({})') /\ (\A p \in {} : InPlace(p)') /\ {} \in SUBSET DOMAIN pass'
      BY <1>2
    <2> QED
      BY <2>1
  <1> QED
    BY <1>1, <1>2, <1>3, <1>4 DEF PassWork

\* The next turn.
LEMMA NextTurn ==
  ASSUME SmsTypes, EndPass
  PROVE  /\ turn' \in M /\ began' \in 0 .. MaxTime /\ t' \in 0 .. MaxTime /\ pc' = "next"
         /\ PassOK' /\ PassWork'
  <1>1. Len(Modems) \in Nat \ {0} /\ MaxTime \in Nat
    BY SmsBounds
  <1>2. turn' \in M
    BY <1>1 DEF SmsTypes, EndPass, M
  <1>3. began' \in 0 .. MaxTime /\ t' \in 0 .. MaxTime
    BY <1>1 DEF SmsTypes, EndPass
  <1>4. PassOK' /\ PassWork'
    BY PassEnds DEF EndPass
  <1> QED
    BY <1>2, <1>3, <1>4 DEF EndPass

LEMMA NextWindow ==
  ASSUME SmsTypes PROVE (cursor + 1) % Windows \in 0 .. Windows - 1
  <1>1. Slots \div Window \in Nat /\ Slots \div Window >= 1
    BY SmsAssumption
  <1> QED
    BY <1>1 DEF SmsTypes, Windows

\* Nothing but the pass: what was kept and deleted is as before.
LEMMA TablesStay ==
  ASSUME SmsWorkInv, UNCHANGED <<ledger, queued, deleted>>
  PROVE  ledger' \in [M -> Seq(QueuedRow)]' /\ DeletedQueued' /\ WaitsForAll'
  <1>1. WaitsForAll'
    BY DEF SmsWorkInv, WaitsForAll, NoStamp
  <1> QED
    BY <1>1, QueuedStays DEF SmsWorkInv

LEMMA PassGivenUp ==
  ASSUME SmsWorkInv, ProbeFails \/ ReadFails \/ StatementFails
  PROVE  SmsWorkInv'
  <1> USE DEF SmsWorkInv
  <1>1. EndPass /\ Fault /\ UNCHANGED <<netVars, now, keptVars, deleted, consoled>>
    BY DEF ProbeFails, ReadFails, StatementFails, Abort
  <1>2. cursor' \in 0 .. Windows - 1
    BY NextWindow DEF ProbeFails, ReadFails, StatementFails, SmsTypes
  <1>3. faults' \in 0 .. MaxFaults
    BY <1>1, FaultsCounted DEF SmsTypes
  <1>4. SmsTypes'
    BY <1>1, <1>2, <1>3, NextTurn DEF SmsTypes, netVars
  <1> QED
    BY <1>1, <1>4, NextTurn, TablesStay DEF keptVars

LEMMA ProcessRestarts == SmsWorkInv /\ Restart => SmsWorkInv'
  <1> SUFFICES ASSUME SmsWorkInv, Restart PROVE SmsWorkInv'
    OBVIOUS
  <1>1. 1 \in M /\ 0 \in 0 .. Windows - 1
    BY FirstTurn
  <1>2. SmsTypes'
    <2>1. SmsTypes /\ 0 \in 0 .. MaxTime
      BY SmsBounds DEF SmsWorkInv
    <2>2. faults' \in 0 .. MaxFaults
      BY <2>1, FaultsCounted DEF SmsTypes, Restart
    <2>3. UNCHANGED <<slots, read, pending, arrived, now, consoled>> /\ cursor' = 0 /\ turn' = 1
          /\ began' = now /\ t' = 0 /\ pc' = "next"
      BY DEF Restart, netVars
    <2> QED
      BY <1>1, <2>1, <2>2, <2>3 DEF SmsTypes
  <1>3. PassOK' /\ PassWork'
    BY PassEnds DEF Restart
  <1> QED
    BY <1>2, <1>3, TablesStay DEF SmsWorkInv, Restart, keptVars

LEMMA ClockTicks == SmsWorkInv /\ Tick => SmsWorkInv'
  <1> SUFFICES ASSUME SmsWorkInv, Tick PROVE SmsWorkInv'
    OBVIOUS
  <1>1. UNCHANGED <<netVars, cursor, turn, began, pc, passVars, keptVars, histVars, faults, consoled>>
    BY DEF Tick
  <1>2. SmsTypes'
    <2>1. now' \in 0 .. MaxTime
      <3>1. now \in 0 .. MaxTime /\ now < MaxTime /\ now' = now + 1
        BY DEF SmsWorkInv, SmsTypes, Tick
      <3> QED
        BY <3>1, SmsBounds
    <2> QED
      BY <1>1, <2>1 DEF SmsWorkInv, SmsTypes, netVars, passVars
  <1>3. \A p \in DOMAIN pass : InPlace(p) => InPlace(p)'
    BY <1>1 DEF InPlace, netVars, passVars, histVars
  <1>4. PassOK' /\ PassWork'
    BY <1>1, <1>3, WorkStays DEF SmsWorkInv, passVars, keptVars
  <1> QED
    BY <1>1, <1>2, <1>4, TablesStay DEF SmsWorkInv, keptVars, histVars

-----------------------------------------------------------------------------
(* The network and the console *)

LEMMA FragmentArrives ==
  ASSUME SmsWorkInv, NEW x \in Arrivals, NEW i \in Index, Arrive(x, i)
  PROVE  SmsWorkInv'
  <1> USE DEF SmsWorkInv
  <1>1. UNCHANGED <<read, now, cursor, turn, began, pc, passVars, keptVars, histVars, faults, consoled>>
    BY DEF Arrive
  <1> DEFINE m == Part[x].to
             stamp == IF x \in Unstamped THEN NoStamp ELSE now
             row == [a |-> x, at |-> stamp]
  <1>2. m \in M /\ row \in ReceivedRow /\ stamp \in -1 .. MaxTime
    <2>1. m \in M
      BY SmsBounds
    <2>2. stamp \in -1 .. MaxTime
      <3>1. now \in 0 .. MaxTime
        BY DEF SmsTypes
      <3> QED
        BY <3>1, SmsBounds DEF NoStamp
    <2> HIDE DEF m, stamp
    <2> QED
      BY <2>1, <2>2 DEF ReceivedRow
  <1>3. slots' = [slots EXCEPT ![m][i] = row] /\ slots[m][i] = NoRow
        /\ pending' = pending \ {x} /\ x \in pending
        /\ arrived' = [b \in DOMAIN arrived \cup {x} |-> IF b = x THEN stamp ELSE arrived[b]]
    BY DEF Arrive
  <1> HIDE DEF m, row, stamp
  <1>4. /\ slots' \in [M -> [Index -> ReceivedRow \cup {NoRow}]]
        /\ \A n \in M : \A j \in Index : slots[n][j] # NoRow => slots'[n][j] = slots[n][j]
    <2>1. slots \in [M -> [Index -> ReceivedRow \cup {NoRow}]]
      BY DEF SmsTypes
    <2> QED
      BY <1>2, <1>3, <2>1
  <1>5. SmsTypes'
    <2>1. DOMAIN arrived' = DOMAIN arrived \cup {x} /\ arrived' \in [DOMAIN arrived' -> -1 .. MaxTime]
      BY <1>2, <1>3 DEF SmsTypes
    <2>2. IsFiniteSet(DOMAIN arrived')
      <3>1. PICK D : D = DOMAIN arrived /\ IsFiniteSet(D)
        BY DEF SmsTypes
      <3>2. IsFiniteSet(D \cup {x})
        BY <3>1, FS_AddElement
      <3> QED
        BY <2>1, <3>1, <3>2
    <2>3. DOMAIN arrived' \subseteq Arrivals \ pending' /\ pending' \subseteq Arrivals
      BY <1>3, <2>1 DEF SmsTypes
    <2> QED
      BY <1>1, <1>4, <2>1, <2>2, <2>3 DEF SmsTypes, passVars
  <1>6. \A p \in DOMAIN pass : InPlace(p) => InPlace(p)'
    <2> SUFFICES ASSUME NEW p \in DOMAIN pass, slots[turn][pass[p].slot] = pass[p].row
                 PROVE  slots'[turn][pass[p].slot] = pass[p].row
      BY <1>1 DEF InPlace, passVars, histVars
    <2>1. pass[p] \in Entry /\ IsReceived(pass[p].row)
      BY DEF PassOK
    <2>2. pass[p].slot \in Index /\ pass[p].row # NoRow /\ turn \in M
      BY <2>1 DEF Entry, IsReceived, SmsTypes
    <2> QED
      BY <1>4, <2>2
  <1>7. PassOK' /\ PassWork'
    BY <1>1, <1>6, WorkStays DEF passVars, keptVars
  <1> QED
    BY <1>1, <1>5, <1>7, TablesStay DEF keptVars, histVars

LEMMA ConsoleLooks ==
  ASSUME SmsWorkInv, NEW m \in M, NEW i \in Index, ConsoleReads(m, i)
  PROVE  SmsWorkInv'
  <1> USE DEF SmsWorkInv
  <1>1. UNCHANGED <<slots, pending, arrived, now, cursor, turn, began, pc, passVars, keptVars, histVars, faults>>
    BY DEF ConsoleReads
  <1>2. consoled' \in 0 .. MaxConsole
    <2>1. consoled \in 0 .. MaxConsole /\ consoled < MaxConsole /\ consoled' = consoled + 1
      BY DEF ConsoleReads, ConsoleMay, SmsTypes
    <2> QED
      BY <2>1, SmsBounds
  <1>3. read' \in [M -> SUBSET Index]
    BY DEF ConsoleReads, SmsTypes
  <1>4. SmsTypes'
    BY <1>1, <1>2, <1>3 DEF SmsTypes, passVars
  <1>5. \A p \in DOMAIN pass : InPlace(p) => InPlace(p)'
    BY <1>1 DEF InPlace, passVars, histVars
  <1>6. PassOK' /\ PassWork'
    BY <1>1, <1>5, WorkStays DEF passVars, keptVars
  <1> QED
    BY <1>1, <1>4, <1>6, TablesStay DEF keptVars, histVars

\* A slot the console empties under a pass is one that it no longer answers for.
LEMMA ConsoleEmpties ==
  ASSUME SmsWorkInv, NEW m \in M, NEW i \in Index, ConsoleDeletes(m, i)
  PROVE  SmsWorkInv'
  <1> USE DEF SmsWorkInv
  <1>1. UNCHANGED <<pending, arrived, now, cursor, turn, began, pc, passVars, keptVars, deleted, exposed,
                    forgotten, faults>>
    BY DEF ConsoleDeletes
  <1>2. consoled' \in 0 .. MaxConsole
    <2>1. consoled \in 0 .. MaxConsole /\ consoled < MaxConsole /\ consoled' = consoled + 1
      BY DEF ConsoleDeletes, ConsoleMay, SmsTypes
    <2> QED
      BY <2>1, SmsBounds
  <1>3. read' \in [M -> SUBSET Index]
    BY DEF ConsoleDeletes, SmsTypes
  <1>4. slots' = [slots EXCEPT ![m][i] = NoRow]
    BY DEF ConsoleDeletes
  <1>5. /\ slots' \in [M -> [Index -> ReceivedRow \cup {NoRow}]]
        /\ \A n \in M : \A j \in Index : (n # m \/ j # i) => slots'[n][j] = slots[n][j]
    <2>1. slots \in [M -> [Index -> ReceivedRow \cup {NoRow}]]
      BY DEF SmsTypes
    <2> QED
      BY <1>4, <2>1
  <1>6. SmsTypes'
    BY <1>1, <1>2, <1>3, <1>5 DEF SmsTypes, passVars
  <1>7. \A p \in DOMAIN pass : InPlace(p) => InPlace(p)'
    <2> SUFFICES ASSUME NEW p \in DOMAIN pass, InPlace(p) PROVE InPlace(p)'
      OBVIOUS
    <2>1. pass[p] \in Entry
      BY DEF PassOK
    <2>2. pass[p].slot \in Index /\ turn \in M /\ pass' = pass /\ turn' = turn
      BY <1>1, <2>1 DEF Entry, SmsTypes, passVars
    <2>3. reused \subseteq reused'
      BY DEF ConsoleDeletes
    <2>4. CASE m = turn /\ pc # "next" /\ pass[p].slot = i
      <3>1. i \in reused'
        BY <2>4 DEF ConsoleDeletes
      <3> QED
        BY <2>2, <2>4, <3>1 DEF InPlace
    <2>5. CASE ~(m = turn /\ pass[p].slot = i)
      BY <1>5, <2>2, <2>3, <2>5 DEF InPlace
    <2>6. pc # "next"
      BY DEF PassWork
    <2> QED
      BY <2>4, <2>5, <2>6
  <1>8. PassOK' /\ PassWork'
    BY <1>1, <1>7, WorkStays DEF passVars, keptVars
  <1> QED
    BY <1>1, <1>6, <1>8, TablesStay DEF keptVars

-----------------------------------------------------------------------------
(* Listing *)

\* The rows of some indexes of the module whose turn it is, none of them twice.
LEMMA RowsAtIs ==
  ASSUME SmsTypes, NEW order \in Seq(Received),
         \A j, k \in DOMAIN order : j # k => order[j] # order[k],
         pass' = RowsAt(order), UNCHANGED <<slots, turn>>
  PROVE  PassOK' /\ \A p \in DOMAIN pass' : InPlace(p)'
  <1>1. PICK n \in Nat : DOMAIN order = 1 .. n
    OBVIOUS
  <1>2. \A k \in 1 .. n : order[k] \in Index /\ IsReceived(slots[turn][order[k]])
    BY <1>1 DEF Received
  <1>3. \A k \in 1 .. n : slots[turn][order[k]] \in ReceivedRow
    <2>1. slots[turn] \in [Index -> ReceivedRow \cup {NoRow}]
      BY DEF SmsTypes
    <2> QED
      BY <1>2, <2>1 DEF IsReceived
  <1>4. pass' = [k \in 1 .. n |-> [slot |-> order[k], row |-> slots[turn][order[k]]]]
    BY <1>1 DEF RowsAt
  <1>5. \A k \in 1 .. n : pass'[k] \in Entry /\ pass'[k].slot = order[k]
                          /\ pass'[k].row = slots[turn][order[k]]
    BY <1>2, <1>3, <1>4 DEF Entry
  <1>6. DOMAIN pass' = 1 .. n
    BY <1>4
  <1>7. pass' \in Seq(Entry)
    <2>1. pass' \in [1 .. n -> Entry]
      BY <1>4, <1>5
    <2> QED
      BY <2>1
  <1>8. \A p \in DOMAIN pass' : IsReceived(pass'[p].row)
    BY <1>2, <1>5, <1>6
  <1>9. \A p, q \in DOMAIN pass' : p # q => pass'[p].slot # pass'[q].slot
    BY <1>1, <1>5, <1>6
  <1>10. PassOK'
    BY <1>7, <1>8, <1>9 DEF PassOK, Entry, ReceivedRow, IsReceived, NoRow
  <1>11. \A p \in DOMAIN pass' : InPlace(p)'
    BY <1>5, <1>6 DEF InPlace
  <1> QED
    BY <1>10, <1>11

LEMMA TwoRuns ==
  ASSUME NEW A, NEW B, IsFiniteSet(A), IsFiniteSet(B), A \cap B = {},
         NEW u \in SetToSeqs(A), NEW v \in SetToSeqs(B)
  PROVE  u \o v \in Seq(A \cup B) /\ \A j, k \in DOMAIN (u \o v) : j # k => (u \o v)[j] # (u \o v)[k]
  <1>1. u \in Seq(A) /\ \A j, k \in DOMAIN u : j # k => u[j] # u[k]
    BY SeqOfSet
  <1>2. v \in Seq(B) /\ \A j, k \in DOMAIN v : j # k => v[j] # v[k]
    BY SeqOfSet
  <1>3. u \o v \in Seq(A \cup B)
    BY <1>1, <1>2
  <1>4. PICK n \in Nat : Len(u) = n /\ DOMAIN u = 1 .. n
    BY <1>1
  <1>5. PICK l \in Nat : Len(v) = l /\ DOMAIN v = 1 .. l
    BY <1>2
  <1>6. DOMAIN (u \o v) = 1 .. n + l
    BY <1>1, <1>2, <1>4, <1>5
  <1>7. \A j \in 1 .. n + l : (u \o v)[j] = IF j <= n THEN u[j] ELSE v[j - n]
    <2>1. u \in Seq(A \cup B) /\ v \in Seq(A \cup B)
      BY <1>1, <1>2
    <2> QED
      BY <1>4, <1>5, <2>1
  <1>8. \A j \in 1 .. n : u[j] \in A
    BY <1>1, <1>4
  <1>9. \A j \in 1 .. l : v[j] \in B
    BY <1>2, <1>5
  <1>10. ASSUME NEW j \in 1 .. n + l, NEW k \in 1 .. n + l, j # k PROVE (u \o v)[j] # (u \o v)[k]
    <2>0. \A i \in 1 .. n + l : (i <= n => i \in 1 .. n) /\ (~(i <= n) => i - n \in 1 .. l)
      OBVIOUS
    <2>1. CASE j <= n /\ k <= n
      BY <1>1, <1>4, <1>7, <1>10, <2>0, <2>1
    <2>2. CASE ~(j <= n) /\ ~(k <= n)
      <3>1. j - n # k - n
        BY <1>10
      <3> QED
        BY <1>2, <1>5, <1>7, <2>0, <2>2, <3>1
    <2>3. CASE j <= n /\ ~(k <= n)
      BY <1>7, <1>8, <1>9, <2>0, <2>3
    <2>4. CASE ~(j <= n) /\ k <= n
      BY <1>7, <1>8, <1>9, <2>0, <2>4
    <2> QED
      BY <2>1, <2>2, <2>3, <2>4
  <1> QED
    BY <1>3, <1>6, <1>10

LEMMA IndexesFinite ==
  ASSUME NEW S \in SUBSET Index PROVE IsFiniteSet(S) /\ S \subseteq Int
  <1>1. IsFiniteSet(Index) /\ Index \subseteq Int
    BY SmsAssumption, FS_Interval DEF Index
  <1> QED
    BY <1>1, FS_Subset

\* The pass begins with nothing to keep and nothing to delete.
LEMMA PassBegins ==
  ASSUME SmsWorkInv, pc = "next", pc' = "listed", PassOK', \A p \in DOMAIN pass' : InPlace(p)',
         UNCHANGED <<ready, fps, gone>>
  PROVE  PassWork'
  <1>1. pass = <<>> /\ ready = <<>>
    BY DEF SmsWorkInv, PassWork
  <1>2. fps = <<>> /\ gone = <<>>
    <2>1. fps \in Seq({}) /\ gone \in Seq({})
      BY <1>1 DEF SmsWorkInv, PassWork
    <2>2. \A s \in Seq({}) : s = <<>>
      <3> SUFFICES ASSUME NEW s \in Seq({}) PROVE Len(s) = 0
        BY EmptySeq
      <3>1. PICK n \in Nat : Len(s) = n
        OBVIOUS
      <3>2. n # 0 => 1 \in 1 .. Len(s)
        BY <3>1
      <3>3. n # 0 => s[1] \in {}
        BY <3>2, ElementOfSeq
      <3> QED
        BY <3>1, <3>3
    <2> QED
      BY <2>1, <2>2
  <1>3. \A S : <<>> \in Seq(S)
    BY EmptySeq
  <1>4. ToSet(<<>>) = {}
    BY DEF ToSet
  <1>5. (\E P \in SUBSET DOMAIN pass : ready \in Seq(Message(P)) /\ \A p \in P : InPlace(p))'
    <2>1. ready' \in Seq(Message({})') /\ (\A p \in {} : InPlace(p)') /\ {} \in SUBSET DOMAIN pass'
      BY <1>1, <1>3
    <2> QED
      BY <2>1
  <1> QED
    BY <1>1, <1>2, <1>3, <1>4, <1>5 DEF PassWork

\* What is listed is received rows, each once.
LEMMA ListedOrder ==
  ASSUME ListQmi \/ (ListAt /\ Received # {})
  PROVE  \E order \in Seq(Received) : /\ \A j, k \in DOMAIN order : j # k => order[j] # order[k]
                                      /\ pass' = RowsAt(order)
  <1>1. CASE ListQmi
    <2>1. PICK listed \in SUBSET Received, S \in SUBSET Received :
             pass' = RowsAt(Ascending(listed) \o Ascending(S)) /\ S \cap listed = {}
      BY <1>1 DEF ListQmi, Swept
    <2>2. listed \in SUBSET Index /\ S \in SUBSET Index /\ listed \cup S \subseteq Received
      BY DEF Received
    <2>3. PICK u \in SetToSeqs(listed) : u = Ascending(listed)
      BY <2>2, IndexesFinite, AscendingIs
    <2>4. PICK v \in SetToSeqs(S) : v = Ascending(S)
      BY <2>2, IndexesFinite, AscendingIs
    <2>5. u \o v \in Seq(listed \cup S) /\ \A j, k \in DOMAIN (u \o v) : j # k => (u \o v)[j] # (u \o v)[k]
      BY <2>1, <2>2, IndexesFinite, TwoRuns
    <2>6. PICK order \in Seq(Received) : order = u \o v
      <3>1. \A s \in Seq(listed \cup S) : s \in Seq(Received)
        BY <2>2
      <3> QED
        BY <2>5, <3>1
    <2> QED
      BY <2>1, <2>3, <2>4, <2>5, <2>6
  <1>2. CASE ListAt /\ Received # {}
    <2>1. pass' = RowsAt(Ascending(Received))
      BY <1>2 DEF ListAt
    <2>2. Received \in SUBSET Index
      BY DEF Received
    <2>3. PICK order \in SetToSeqs(Received) : order = Ascending(Received)
      BY <2>2, IndexesFinite, AscendingIs
    <2>4. order \in Seq(Received) /\ \A j, k \in DOMAIN order : j # k => order[j] # order[k]
      BY <2>2, IndexesFinite, SeqOfSet
    <2> QED
      BY <2>1, <2>3, <2>4
  <1> QED
    BY <1>1, <1>2

LEMMA QmiListed == SmsWorkInv /\ ListQmi => SmsWorkInv'
  <1> SUFFICES ASSUME SmsWorkInv, ListQmi PROVE SmsWorkInv'
    OBVIOUS
  <1> USE DEF SmsWorkInv
  <1>1. UNCHANGED <<netVars, now, turn, began, ready, count, fps, gone, keptVars, histVars, consoled>>
        /\ t' = now /\ pc = "next" /\ pc' = "listed"
    BY DEF ListQmi
  <1>2. cursor' \in 0 .. Windows - 1
    BY NextWindow DEF ListQmi
  <1>3. faults' \in 0 .. MaxFaults
    <2>1. Fault \/ UNCHANGED faults
      BY DEF ListQmi
    <2>2. faults \in 0 .. MaxFaults
      BY DEF SmsTypes
    <2> QED
      BY <2>1, <2>2, FaultsCounted
  <1>4. SmsTypes'
    BY <1>1, <1>2, <1>3 DEF SmsTypes, netVars
  <1>5. PICK order \in Seq(Received) : /\ \A j, k \in DOMAIN order : j # k => order[j] # order[k]
                                       /\ pass' = RowsAt(order)
    BY ListedOrder
  <1>6. PassOK' /\ \A p \in DOMAIN pass' : InPlace(p)'
    BY <1>1, <1>5, RowsAtIs DEF netVars
  <1>7. PassWork'
    BY <1>1, <1>6, PassBegins
  <1> QED
    BY <1>1, <1>4, <1>6, <1>7, TablesStay DEF keptVars, histVars

LEMMA AtListed == SmsWorkInv /\ ListAt => SmsWorkInv'
  <1> SUFFICES ASSUME SmsWorkInv, ListAt PROVE SmsWorkInv'
    OBVIOUS
  <1> USE DEF SmsWorkInv
  <1>1. UNCHANGED <<netVars, now, cursor, keptVars, deleted, forgotten, faults, consoled>> /\ pc = "next"
    BY DEF ListAt
  <1>2. CASE Received = {}
    <2>1. EndPass
      BY <1>2 DEF ListAt
    <2>2. SmsTypes'
      BY <1>1, <2>1, NextTurn DEF SmsTypes, netVars
    <2> QED
      BY <1>1, <2>1, <2>2, NextTurn, TablesStay DEF keptVars
  <1>3. CASE Received # {}
    <2>1. /\ t' = began /\ pc' = "listed"
          /\ UNCHANGED <<turn, began, ready, count, fps, gone, exposed, reused>>
      BY <1>3 DEF ListAt
    <2>2. SmsTypes'
      BY <1>1, <2>1 DEF SmsTypes, netVars
    <2>3. PICK order \in Seq(Received) : /\ \A j, k \in DOMAIN order : j # k => order[j] # order[k]
                                         /\ pass' = RowsAt(order)
      BY <1>3, ListedOrder
    <2>4. PassOK' /\ \A p \in DOMAIN pass' : InPlace(p)'
      BY <1>1, <2>1, <2>3, RowsAtIs DEF netVars
    <2>5. PassWork'
      BY <1>1, <2>1, <2>4, PassBegins
    <2> QED
      BY <1>1, <2>2, <2>4, <2>5, TablesStay DEF keptVars
  <1> QED
    BY <1>2, <1>3

-----------------------------------------------------------------------------
(* Taking rows off the module *)

\* The slots of a pass are distinct: what is not taken stays as it was.
LEMMA TakesOff ==
  ASSUME SmsWorkInv, NEW D \in SUBSET DOMAIN pass, TakeOff(D), queued' = queued,
         \A p \in D : IsQueued(Fingerprint(pass[p].row)) /\ InPlace(p)
  PROVE  /\ slots' \in [M -> [Index -> ReceivedRow \cup {NoRow}]]
         /\ read' \in [M -> SUBSET Index]
         /\ DeletedQueued'
         /\ \A p \in DOMAIN pass \ D : slots'[turn][pass[p].slot] = slots[turn][pass[p].slot]
  <1> USE DEF SmsWorkInv
  <1> DEFINE indexes == {pass[p].slot : p \in D}
             taken == {slots[turn][i] : i \in indexes} \ {NoRow}
             one(r) == [a |-> r.a, fp |-> Fingerprint(r),
                        excused |-> \E i \in indexes \cap reused : slots[turn][i] = r]
  <1>1. \A p \in DOMAIN pass : pass[p].slot \in Index
    <2>1. \A p \in DOMAIN pass : pass[p] \in Entry
      BY DEF PassOK
    <2> QED
      BY <2>1 DEF Entry
  <1>2. turn \in M /\ slots \in [M -> [Index -> ReceivedRow \cup {NoRow}]] /\ read \in [M -> SUBSET Index]
    BY DEF SmsTypes
  <1>3. /\ slots' = [slots EXCEPT ![turn] = [i \in Index |-> IF i \in indexes THEN NoRow ELSE slots[turn][i]]]
        /\ read' = [read EXCEPT ![turn] = read[turn] \ indexes]
        /\ deleted' = deleted \cup {one(r) : r \in taken}
    BY <1>2 DEF TakeOff
  <1>4. slots' \in [M -> [Index -> ReceivedRow \cup {NoRow}]] /\ read' \in [M -> SUBSET Index]
    <2> HIDE DEF indexes
    <2> QED
      BY <1>2, <1>3
  <1>5. ASSUME NEW p \in DOMAIN pass \ D
        PROVE  slots'[turn][pass[p].slot] = slots[turn][pass[p].slot]
    <2>1. pass[p].slot \notin indexes
      BY DEF PassOK
    <2>2. pass[p].slot \in Index
      BY <1>1
    <2> HIDE DEF indexes
    <2> QED
      BY <1>2, <1>3, <2>1, <2>2
  <1>6. \A r \in taken : one(r).excused \/ IsQueued(one(r).fp)
    <2> SUFFICES ASSUME NEW r \in taken, ~one(r).excused PROVE IsQueued(one(r).fp)
      OBVIOUS
    <2>1. PICK p \in D : r = slots[turn][pass[p].slot]
      OBVIOUS
    <2>2. pass[p].slot \in indexes
      OBVIOUS
    <2>3. pass[p].slot \notin reused
      BY <2>1, <2>2
    <2>4. r = pass[p].row
      BY <2>1, <2>3 DEF InPlace
    <2> QED
      BY <2>4
  <1>7. DeletedQueued'
    <2>1. \A d \in deleted : d.excused \/ IsQueued(d.fp)
      BY DEF DeletedQueued, IsQueued
    <2> HIDE DEF taken, one
    <2>2. \A d \in deleted' : d.excused \/ IsQueued(d.fp)
      BY <1>3, <1>6, <2>1
    <2> QED
      BY <2>2 DEF DeletedQueued, IsQueued, Fingerprint
  <1> QED
    BY <1>4, <1>5, <1>7

LEMMA PrefixOf ==
  ASSUME NEW X, NEW u \in Seq(X), NEW n \in 0 .. Len(u) - 1
  PROVE  ToSet(SubSeq(u, 1, n)) \subseteq ToSet(u)
  <1>1. DOMAIN SubSeq(u, 1, n) \subseteq 1 .. n /\ \A i \in 1 .. n : SubSeq(u, 1, n)[i] = u[i]
    OBVIOUS
  <1>2. 1 .. n \subseteq DOMAIN u
    OBVIOUS
  <1> QED
    BY <1>1, <1>2 DEF ToSet

\* A fragment that the ledger knows was queued.
LEMMA SeenWasQueued ==
  ASSUME SmsWorkInv, NEW p \in DOMAIN pass, SeenBefore(p)
  PROVE  IsQueued(Fingerprint(pass[p].row))
  <1> USE DEF SmsWorkInv
  <1> DEFINE fp == Fingerprint(pass[p].row)
             same == {q \in 1 .. p : Fingerprint(pass[q].row) = fp}
             rows == {i \in DOMAIN ledger[turn] : ledger[turn][i].fp = fp}
  <1>1. p \in Nat \ {0}
    <2>1. PICK n \in Nat : DOMAIN pass = 1 .. n
      BY DEF PassOK
    <2> QED
      BY <2>1
  <1>2. IsFiniteSet(same) /\ p \in same
    <2>1. same \in SUBSET (1 .. p) /\ p \in same
      BY <1>1
    <2>2. IsFiniteSet(1 .. p)
      BY <1>1, FS_Interval
    <2> HIDE DEF same
    <2> QED
      BY <2>1, <2>2, FS_Subset
  <1>3. Cardinality(same) # 0 /\ Cardinality(same) \in Nat
    <2> HIDE DEF same
    <2> QED
      BY <1>2, FS_CardinalityType, FS_EmptySet
  <1>4. Cardinality(same) <= Copies(fp)
    BY DEF SeenBefore
  <1>5. CASE rows = {}
    <2>1. Copies(fp) = 0
      BY <1>5 DEF Copies
    <2> HIDE DEF same, fp
    <2> QED
      BY <1>3, <1>4, <2>1
  <1>6. CASE rows # {}
    <2>1. PICK i \in DOMAIN ledger[turn] : ledger[turn][i].fp = fp
      BY <1>6
    <2>2. ledger[turn] \in Seq(QueuedRow)
      BY DEF SmsTypes
    <2>3. ledger[turn][i] \in QueuedRow
      BY <2>2
    <2> QED
      BY <2>1, <2>3 DEF QueuedRow
  <1> QED
    BY <1>5, <1>6

\* The pass goes on: what it still has to do may be done.
LEMMA PassGoesOn ==
  ASSUME PassOK, UNCHANGED <<pass, t>>, pc' \in {"keep", "enqueue", "prune", "delete"},
         pc' = "enqueue" => ready' # <<>>,
         fps' \in Seq(DOMAIN pass), gone' \in Seq(DOMAIN pass),
         \A p \in ToSet(fps') : IsQueued(Fingerprint(pass[p].row))',
         \A p \in ToSet(gone') : IsQueued(Fingerprint(pass[p].row))' /\ InPlace(p)',
         NEW P \in SUBSET DOMAIN pass, ready' \in Seq(Message(P)), \A p \in P : InPlace(p)'
  PROVE  PassOK' /\ PassWork'
  <1>1. PassOK'
    BY DEF PassOK, IsReceived, NoRow
  <1>2. Message(P)' = Message(P)
    BY DEF Message, Waited, Stamp, NoStamp
  <1>3. (\E Q \in SUBSET DOMAIN pass : ready \in Seq(Message(Q)) /\ \A p \in Q : InPlace(p))'
    <2>1. ready' \in Seq(Message(P)') /\ (\A p \in P : InPlace(p)') /\ P \in SUBSET DOMAIN pass'
      BY <1>2
    <2> QED
      BY <2>1
  <1>4. /\ \A p \in ToSet(fps)' : IsQueued(Fingerprint(pass[p].row))'
        /\ \A p \in ToSet(gone)' : IsQueued(Fingerprint(pass[p].row))' /\ InPlace(p)'
    BY DEF ToSet
  <1> QED
    BY <1>1, <1>3, <1>4 DEF PassWork

-----------------------------------------------------------------------------
(* Settling, keeping and queueing *)

LEMMA InboundSettled == SmsWorkInv /\ Settle => SmsWorkInv'
  <1> SUFFICES ASSUME SmsWorkInv, Settle PROVE SmsWorkInv'
    OBVIOUS
  <1> USE DEF SmsWorkInv
  <1>1. PICK D \in SUBSET DOMAIN pass : D = {p \in DOMAIN pass : SeenBefore(p)}
    OBVIOUS
  <1>2. PICK u : u = Ascending(D)
    OBVIOUS
  <1>3. u \in Seq(D) /\ ToSet(u) = D
    BY <1>2, PositionFacts, AscendingIs, SeqOfSet
  <1>4. \A p \in D : IsQueued(Fingerprint(pass[p].row)) /\ InPlace(p)
    BY <1>1, SeenWasQueued DEF Settle, PassWork
  <1>5. PICK P \in SUBSET DOMAIN pass : P = DOMAIN pass \ D
    OBVIOUS
  <1>6. /\ UNCHANGED <<pending, arrived, now, cursor, turn, began, pass, t, count, fps, keptVars, exposed,
                       forgotten, reused, consoled>>
        /\ pc = "listed" /\ pc' = "keep" /\ ready' = Assemble(P)
    BY <1>1, <1>5 DEF Settle
  <1>7. ready' \in Seq(Message(P))
    BY <1>6, AssembleIs
  <1>8. fps = <<>> /\ gone = <<>> /\ \A p \in DOMAIN pass : InPlace(p)
    BY <1>6 DEF PassWork
  <1>9. queued' = queued /\ \A q : IsQueued(q)' = IsQueued(q)
    BY <1>6 DEF keptVars, IsQueued, Fingerprint
  <1>10. WaitsForAll'
    BY <1>9 DEF WaitsForAll, NoStamp
  <1>11. ledger' \in [M -> Seq(QueuedRow)]'
    BY <1>6, <1>9, QueuedStays DEF keptVars
  <1>12. \A S : <<>> \in Seq(S)
    BY EmptySeq
  <1>13. ToSet(<<>>) = {}
    BY DEF ToSet
  <1>14. CASE Kind = "qmi"
    <2>1. gone' = <<>>
      BY <1>14 DEF Settle
    <2>2. PICK E \in SUBSET D : TakeOff(E) /\ faults' \in 0 .. MaxFaults
      <3>1. \/ TakeOff(D) /\ UNCHANGED faults
            \/ \E n \in 0 .. Len(u) - 1 : Fault /\ TakeOff(ToSet(SubSeq(u, 1, n)))
        BY <1>1, <1>2, <1>14 DEF Settle
      <3>2. CASE TakeOff(D) /\ UNCHANGED faults
        BY <3>2 DEF SmsTypes
      <3>3. CASE \E n \in 0 .. Len(u) - 1 : Fault /\ TakeOff(ToSet(SubSeq(u, 1, n)))
        <4>1. PICK n \in 0 .. Len(u) - 1 : Fault /\ TakeOff(ToSet(SubSeq(u, 1, n)))
          BY <3>3
        <4>2. ToSet(SubSeq(u, 1, n)) \subseteq D
          BY <1>3, PrefixOf
        <4>3. faults' \in 0 .. MaxFaults
          BY <4>1, FaultsCounted DEF SmsTypes
        <4> QED
          BY <4>1, <4>2, <4>3
      <3> QED
        BY <3>1, <3>2, <3>3
    <2>3. E \in SUBSET DOMAIN pass /\ \A p \in E : IsQueued(Fingerprint(pass[p].row)) /\ InPlace(p)
      BY <1>4
    <2>4. /\ slots' \in [M -> [Index -> ReceivedRow \cup {NoRow}]]
          /\ read' \in [M -> SUBSET Index]
          /\ DeletedQueued'
          /\ \A p \in DOMAIN pass \ E : slots'[turn][pass[p].slot] = slots[turn][pass[p].slot]
      BY <1>9, <2>2, <2>3, TakesOff
    <2>5. SmsTypes'
      BY <1>6, <2>2, <2>4 DEF SmsTypes
    <2>6. \A p \in P : InPlace(p)'
      BY <1>5, <1>6, <1>8, <2>4 DEF InPlace
    <2>7. PassOK' /\ PassWork'
      BY <1>6, <1>7, <1>8, <1>12, <1>13, <2>1, <2>6, PassGoesOn
    <2> QED
      BY <1>10, <1>11, <2>4, <2>5, <2>7
  <1>15. CASE Kind # "qmi"
    <2>1. gone' = u /\ UNCHANGED <<slots, read, deleted, faults>>
      BY <1>1, <1>2, <1>15 DEF Settle
    <2>2. SmsTypes'
      BY <1>6, <2>1 DEF SmsTypes
    <2>3. \A p \in DOMAIN pass : InPlace(p)'
      BY <1>6, <1>8, <2>1 DEF InPlace
    <2>4. u \in Seq(DOMAIN pass)
      BY <1>3
    <2>5. \A p \in ToSet(u) : IsQueued(Fingerprint(pass[p].row))' /\ InPlace(p)'
      BY <1>3, <1>4, <1>6, <1>9, <2>3 DEF Fingerprint
    <2>6. PassOK' /\ PassWork'
      BY <1>6, <1>7, <1>8, <1>12, <1>13, <2>1, <2>3, <2>4, <2>5, PassGoesOn
    <2>7. DeletedQueued'
      BY <1>9, <2>1, QueuedStays
    <2> QED
      BY <1>10, <1>11, <2>2, <2>6, <2>7
  <1> QED
    BY <1>14, <1>15

LEMMA MessageKeptLocally == SmsWorkInv /\ KeepLocal => SmsWorkInv'
  <1> SUFFICES ASSUME SmsWorkInv, KeepLocal PROVE SmsWorkInv'
    OBVIOUS
  <1> USE DEF SmsWorkInv
  <1>1. /\ UNCHANGED <<netVars, now, cursor, turn, began, passVars, ledger, queued, histVars, faults, consoled>>
        /\ ready # <<>> /\ pc' = "enqueue"
    BY DEF KeepLocal
  <1>2. SmsTypes'
    BY <1>1 DEF SmsTypes, netVars, passVars
  <1>3. \A p \in DOMAIN pass : InPlace(p) => InPlace(p)'
    BY <1>1 DEF InPlace, netVars, passVars, histVars
  <1>4. \A q : IsQueued(q)' = IsQueued(q)
    BY <1>1 DEF IsQueued, Fingerprint
  <1>5. PICK P \in SUBSET DOMAIN pass : ready \in Seq(Message(P)) /\ \A p \in P : InPlace(p)
    BY DEF PassWork
  <1>6. ToSet(gone) \subseteq DOMAIN pass
    BY DEF PassWork, ToSet
  <1>7. \A p \in ToSet(fps) : IsQueued(Fingerprint(pass[p].row))'
    BY <1>1, <1>4 DEF PassWork, passVars, Fingerprint
  <1>8. \A p \in ToSet(gone) : IsQueued(Fingerprint(pass[p].row))' /\ InPlace(p)'
    BY <1>1, <1>3, <1>4, <1>6 DEF PassWork, passVars, Fingerprint
  <1>9. fps' = fps /\ gone' = gone /\ ready' = ready /\ pass' = pass /\ t' = t
        /\ fps \in Seq(DOMAIN pass) /\ gone \in Seq(DOMAIN pass) /\ \A p \in P : InPlace(p)'
    BY <1>1, <1>3, <1>5 DEF passVars, PassWork
  <1>10. PassOK' /\ PassWork'
    BY <1>1, <1>5, <1>7, <1>8, <1>9, PassGoesOn
  <1> QED
    BY <1>1, <1>2, <1>10, TablesStay DEF histVars

LEMMA JoinedSet ==
  ASSUME NEW X, NEW u \in Seq(X), NEW v \in Seq(X)
  PROVE  u \o v \in Seq(X) /\ ToSet(u \o v) \subseteq ToSet(u) \cup ToSet(v)
  <1>1. u \o v \in Seq(X) /\ Len(u \o v) = Len(u) + Len(v)
    OBVIOUS
  <1>2. \A i \in 1 .. Len(u) + Len(v) : (u \o v)[i] = IF i <= Len(u) THEN u[i] ELSE v[i - Len(u)]
    OBVIOUS
  <1>3. \A i \in 1 .. Len(u) + Len(v) : IF i <= Len(u) THEN i \in DOMAIN u ELSE i - Len(u) \in DOMAIN v
    OBVIOUS
  <1>4. DOMAIN (u \o v) = 1 .. Len(u) + Len(v)
    BY <1>1
  <1> QED
    BY <1>1, <1>2, <1>3, <1>4 DEF ToSet

LEMMA MessageQueued == SmsWorkInv /\ EnqueueSms => SmsWorkInv'
  <1> SUFFICES ASSUME SmsWorkInv, EnqueueSms PROVE SmsWorkInv'
    OBVIOUS
  <1> USE DEF SmsWorkInv
  <1>1. PICK P \in SUBSET DOMAIN pass : ready \in Seq(Message(P)) /\ \A p \in P : InPlace(p)
    BY DEF PassWork
  <1>2. ready # <<>> /\ UNCHANGED <<netVars, now, cursor, turn, began, pass, t, ledger, local, histVars,
                                    faults, consoled>>
    BY DEF EnqueueSms, PassWork
  <1>3. PICK h \in Message(P) : h = Head(ready)
    BY <1>1, <1>2
  <1>4. ready' = Tail(ready) /\ Tail(ready) \in Seq(Message(P))
    BY <1>1, <1>2 DEF EnqueueSms
  <1>5. h.sources \in Seq(P) /\ (h.missing # {} => Waited(h))
    BY DEF Message
  <1>6. PICK u \in Seq(DOMAIN pass) : u = h.sources
    BY <1>1, <1>5
  <1>7. \A s \in DOMAIN u : u[s] \in P
    BY <1>5, <1>6
  <1> DEFINE new == [n |-> Cardinality(queued) + 1, modem |-> turn, missing |-> h.missing,
                     at |-> t, key |-> LocalSeq, rows |-> [s \in DOMAIN u |-> pass[u[s]].row]]
  <1>8. queued' = queued \cup {new}
    BY <1>3, <1>6 DEF EnqueueSms
  <1>9. /\ new.missing = h.missing /\ new.at = t
        /\ new.rows = [s \in DOMAIN u |-> pass[u[s]].row]
    OBVIOUS
  <1> HIDE DEF new
  <1>10. DOMAIN new.rows = DOMAIN u /\ \A s \in DOMAIN u : new.rows[s] = pass[u[s]].row
    BY <1>9
  <1>11. SmsTypes'
    BY <1>2 DEF EnqueueSms, SmsTypes, netVars
  <1>12. \A q : IsQueued(q) => IsQueued(q)'
    BY <1>8, QueuedStays
  <1>13. \A p \in ToSet(u) : IsQueued(Fingerprint(pass[p].row))'
    <2> SUFFICES ASSUME NEW s \in DOMAIN u PROVE IsQueued(Fingerprint(pass[u[s]].row))'
      BY DEF ToSet
    <2>1. new \in queued' /\ s \in DOMAIN new.rows /\ new.rows[s] = pass[u[s]].row
      BY <1>8, <1>10
    <2> QED
      BY <1>2, <2>1 DEF IsQueued, Fingerprint
  <1>14. \A p \in DOMAIN pass : InPlace(p) => InPlace(p)'
    BY <1>2 DEF InPlace, netVars, histVars
  <1>15. fps' = fps \o u /\ gone' = gone \o u /\ fps \in Seq(DOMAIN pass) /\ gone \in Seq(DOMAIN pass)
         /\ pc' = "keep"
    BY <1>3, <1>6 DEF EnqueueSms, PassWork
  <1>16. /\ fps' \in Seq(DOMAIN pass) /\ ToSet(fps') \subseteq ToSet(fps) \cup ToSet(u)
         /\ gone' \in Seq(DOMAIN pass) /\ ToSet(gone') \subseteq ToSet(gone) \cup ToSet(u)
    <2>1. \A v, w \in Seq(DOMAIN pass) : v \o w \in Seq(DOMAIN pass) /\ ToSet(v \o w) \subseteq ToSet(v) \cup ToSet(w)
      BY JoinedSet
    <2> QED
      BY <1>15, <2>1
  <1>17. \A p \in ToSet(fps) : IsQueued(Fingerprint(pass[p].row))'
    BY <1>2, <1>12 DEF PassWork, Fingerprint
  <1>18. \A p \in ToSet(gone) : IsQueued(Fingerprint(pass[p].row))' /\ InPlace(p)'
    <2>1. ToSet(gone) \subseteq DOMAIN pass
      BY DEF PassWork, ToSet
    <2> QED
      BY <1>2, <1>12, <1>14, <2>1 DEF PassWork, Fingerprint
  <1>19. \A p \in ToSet(u) : InPlace(p)'
    BY <1>1, <1>7, <1>14 DEF ToSet
  <1>20. PassOK' /\ PassWork'
    <2>1. \A p \in ToSet(fps') : IsQueued(Fingerprint(pass[p].row))'
      BY <1>13, <1>16, <1>17
    <2>2. \A p \in ToSet(gone') : IsQueued(Fingerprint(pass[p].row))' /\ InPlace(p)'
      BY <1>13, <1>16, <1>18, <1>19
    <2>3. \A p \in P : InPlace(p)'
      BY <1>1, <1>14
    <2> QED
      BY <1>2, <1>4, <1>15, <1>16, <2>1, <2>2, <2>3, PassGoesOn
  <1>21. WaitsForAll'
    <2> DEFINE Fine(q) == LET stamps == {q.rows[s].at : s \in DOMAIN q.rows} \ {NoStamp}
                          IN  q.missing # {} => stamps # {} /\ \A s \in stamps : q.at - s > Grace
    <2>1. \A q \in queued : Fine(q)
      BY DEF WaitsForAll
    <2>2. Fine(new)
      <3>1. {new.rows[s].at : s \in DOMAIN new.rows} = {Stamp(h.sources[s]) : s \in DOMAIN h.sources}
        <4>1. DOMAIN new.rows = DOMAIN h.sources
          BY <1>6, <1>10
        <4>2. \A s \in DOMAIN h.sources : new.rows[s].at = Stamp(h.sources[s])
          BY <1>6, <1>10 DEF Stamp
        <4> HIDE DEF Fine
        <4> QED
          BY <4>1, <4>2
      <3> QED
        BY <1>5, <1>9, <3>1 DEF Waited
    <2> HIDE DEF Fine
    <2>3. \A q \in queued' : Fine(q)
      BY <1>8, <2>1, <2>2
    <2> QED
      BY <2>3 DEF Fine, WaitsForAll, NoStamp
  <1>22. ledger' \in [M -> Seq(QueuedRow)]' /\ DeletedQueued'
    BY <1>2, <1>8, QueuedStays DEF histVars
  <1> QED
    BY <1>11, <1>20, <1>21, <1>22

-----------------------------------------------------------------------------
(* The ledger *)

\* One entry in the ledger: of a fragment that was queued.
LEMMA RecordIs ==
  ASSUME NEW table \in Seq(QueuedRow), NEW fp \in {Fingerprint(r) : r \in ReceivedRow},
         IsQueued(fp), t \in Int
  PROVE  Record(table, fp) \in Seq(QueuedRow)
  <1>1. PICK n \in Nat : DOMAIN table = 1 .. n
    OBVIOUS
  <1>2. \A i \in 1 .. n : table[i] \in QueuedRow
    BY <1>1
  <1>3. [fp |-> fp, copies |-> 1, last |-> t] \in QueuedRow
    BY DEF QueuedRow, LedgerRow
  <1>4. \A r \in QueuedRow : [r EXCEPT !.copies = @ + 1, !.last = t] \in QueuedRow
    <2> SUFFICES ASSUME NEW r \in QueuedRow PROVE [r EXCEPT !.copies = @ + 1, !.last = t] \in QueuedRow
      OBVIOUS
    <2>1. r \in LedgerRow /\ IsQueued(r.fp)
      BY DEF QueuedRow
    <2>2. r.fp \in {Fingerprint(x) : x \in ReceivedRow} /\ r.copies \in Nat /\ r.last \in Int
      BY <2>1 DEF LedgerRow
    <2> DEFINE mid == [r EXCEPT !.copies = @ + 1]
    <2>3. mid \in LedgerRow /\ mid.fp = r.fp
      BY <2>1, <2>2 DEF LedgerRow
    <2>4. [r EXCEPT !.copies = @ + 1, !.last = t] = [mid EXCEPT !.last = t]
      BY <2>1 DEF LedgerRow
    <2> HIDE DEF mid
    <2>5. [mid EXCEPT !.last = t] \in LedgerRow /\ [mid EXCEPT !.last = t].fp = r.fp
      BY <2>3 DEF LedgerRow
    <2> QED
      BY <2>1, <2>4, <2>5 DEF QueuedRow
  <1>5. CASE \E i \in DOMAIN table : table[i].fp = fp
    <2>1. Record(table, fp) = [i \in 1 .. n |-> IF table[i].fp = fp
                                               THEN [table[i] EXCEPT !.copies = @ + 1, !.last = t]
                                               ELSE table[i]]
      BY <1>1, <1>5 DEF Record
    <2>2. Record(table, fp) \in [1 .. n -> QueuedRow]
      BY <1>2, <1>4, <2>1
    <2> QED
      BY <2>2
  <1>6. CASE ~\E i \in DOMAIN table : table[i].fp = fp
    <2>1. Record(table, fp) = Append(table, [fp |-> fp, copies |-> 1, last |-> t])
      BY <1>6 DEF Record
    <2> QED
      BY <1>3, <2>1
  <1> QED
    BY <1>5, <1>6

\* f is the table after each of the first n fragments.
Enters(f, table, u, n) ==
    f = [k \in 0 .. n |-> IF k = 0 THEN table ELSE Record(f[k - 1], u[k])]

LEMMA EntersExist ==
  ASSUME NEW table, NEW u, NEW n \in Nat PROVE \E f : Enters(f, table, u, n)
  <1> DEFINE Bad == {k \in Nat : ~\E f : Enters(f, table, u, k)}
  <1>1. SUFFICES ASSUME n \in Bad PROVE FALSE
    OBVIOUS
  <1>2. PICK k \in Bad : \A j \in Bad : k <= j
    BY <1>1, LeastOf
  <1>3. CASE k = 0
    <2> DEFINE f == [i \in 0 .. k |-> table]
    <2>1. \A i \in 0 .. k : f[i] = IF i = 0 THEN table ELSE Record(f[i - 1], u[i])
      BY <1>3
    <2>2. f = [i \in 0 .. k |-> f[i]]
      OBVIOUS
    <2> HIDE DEF f
    <2>3. Enters(f, table, u, k)
      BY <2>1, <2>2, Zenon DEF Enters
    <2> QED
      BY <1>2, <2>3
  <1>4. CASE k # 0
    <2>1. k - 1 \in Nat /\ k - 1 \notin Bad
      BY <1>2, <1>4
    <2>2. PICK g : Enters(g, table, u, k - 1)
      BY <2>1
    <2> DEFINE f == [i \in 0 .. k |-> IF i = k THEN Record(g[k - 1], u[k]) ELSE g[i]]
    <2>3. \A i \in 0 .. k - 1 : f[i] = g[i]
      BY <2>1
    <2>4. f[k] = Record(g[k - 1], u[k])
      BY <2>1
    <2>5. ASSUME NEW i \in 0 .. k PROVE f[i] = IF i = 0 THEN table ELSE Record(f[i - 1], u[i])
      <3>1. CASE i = k
        <4>1. f[k - 1] = g[k - 1]
          BY <2>1, <2>3
        <4> HIDE DEF f
        <4> QED
          BY <1>4, <2>4, <3>1, <4>1
      <3>2. CASE i # k
        <4>1. i \in 0 .. k - 1 /\ (i # 0 => i - 1 \in 0 .. k - 1)
          BY <2>1, <3>2
        <4>2. g[i] = IF i = 0 THEN table ELSE Record(g[i - 1], u[i])
          BY <2>2, <4>1 DEF Enters
        <4> HIDE DEF f
        <4> QED
          BY <2>3, <4>1, <4>2
      <3> QED
        BY <3>1, <3>2
    <2>6. f = [i \in 0 .. k |-> f[i]]
      OBVIOUS
    <2> HIDE DEF f
    <2>7. Enters(f, table, u, k)
      BY <2>5, <2>6, Zenon DEF Enters
    <2> QED
      BY <1>2, <2>7
  <1> QED
    BY <1>3, <1>4

\* However many fragments are entered at once: one after the other.
LEMMA RecordAllSteps ==
  ASSUME NEW table, NEW u, NEW n \in Nat, Len(u) = n
  PROVE  \E f : Enters(f, table, u, n) /\ RecordAll(table, u) = f[n]
  <1> DEFINE f == CHOOSE f : f = [k \in 0 .. Len(u) |-> IF k = 0 THEN table ELSE Record(f[k - 1], u[k])]
  <1>1. RecordAll(table, u) = f[n]
    BY Zenon DEF RecordAll
  <1>2. Enters(f, table, u, n)
    <2>1. \E g : g = [k \in 0 .. Len(u) |-> IF k = 0 THEN table ELSE Record(g[k - 1], u[k])]
      <3>1. PICK g : Enters(g, table, u, n)
        BY EntersExist
      <3>2. g = [k \in 0 .. Len(u) |-> IF k = 0 THEN table ELSE Record(g[k - 1], u[k])]
        BY <3>1, Zenon DEF Enters
      <3> QED
        BY <3>2, Zenon
    <2> QED
      BY <2>1, Zenon DEF Enters
  <1> HIDE DEF f
  <1> QED
    BY <1>1, <1>2

LEMMA RecordAllIs ==
  ASSUME NEW table \in Seq(QueuedRow), NEW u, NEW n \in Nat, Len(u) = n, t \in Int,
         \A k \in 1 .. n : u[k] \in {Fingerprint(r) : r \in ReceivedRow} /\ IsQueued(u[k])
  PROVE  RecordAll(table, u) \in Seq(QueuedRow)
  <1>0. PICK f : Enters(f, table, u, n) /\ RecordAll(table, u) = f[n]
    BY RecordAllSteps
  <1>1. /\ RecordAll(table, u) = f[n]
        /\ \A k \in 0 .. n : f[k] = IF k = 0 THEN table ELSE Record(f[k - 1], u[k])
    BY <1>0, Zenon DEF Enters
  <1> DEFINE Bad == {k \in Nat : k \in 0 .. n /\ f[k] \notin Seq(QueuedRow)}
  <1>2. SUFFICES ASSUME n \in Bad PROVE FALSE
    BY <1>1
  <1>3. PICK k \in Bad : \A j \in Bad : k <= j
    BY <1>2, LeastOf
  <1>4. k # 0
    BY <1>1, <1>3
  <1>5. k - 1 \in 0 .. n /\ k - 1 \notin Bad /\ k \in 1 .. n
    BY <1>3, <1>4
  <1>6. f[k - 1] \in Seq(QueuedRow) /\ f[k] = Record(f[k - 1], u[k])
    BY <1>1, <1>4, <1>5
  <1>7. PICK before \in Seq(QueuedRow) : before = f[k - 1]
    BY <1>6
  <1>8. PICK fp \in {Fingerprint(r) : r \in ReceivedRow} : fp = u[k] /\ IsQueued(fp)
    BY <1>5
  <1>9. Record(before, fp) \in Seq(QueuedRow)
    BY <1>8, RecordIs
  <1> QED
    BY <1>3, <1>6, <1>7, <1>8, <1>9

LEMMA FragmentsRecorded == SmsWorkInv /\ RecordIngested => SmsWorkInv'
  <1> SUFFICES ASSUME SmsWorkInv, RecordIngested PROVE SmsWorkInv'
    OBVIOUS
  <1> USE DEF SmsWorkInv
  <1>1. /\ UNCHANGED <<netVars, now, cursor, turn, began, pass, t, ready, count, gone, local, queued,
                       histVars, faults, consoled>>
        /\ pc' = "prune" /\ fps' = <<>> /\ ready = <<>>
    BY DEF RecordIngested
  <1>2. PICK u : u = [k \in DOMAIN fps |-> Fingerprint(pass[fps[k]].row)]
    OBVIOUS
  <1>3. PICK n \in Nat : DOMAIN fps = 1 .. n
    BY DEF PassWork
  <1>4. Len(u) = n
    BY <1>2, <1>3
  <1>5. \A k \in 1 .. n : u[k] \in {Fingerprint(r) : r \in ReceivedRow} /\ IsQueued(u[k])
    <2> SUFFICES ASSUME NEW k \in 1 .. n
                 PROVE  u[k] \in {Fingerprint(r) : r \in ReceivedRow} /\ IsQueued(u[k])
      OBVIOUS
    <2>1. fps[k] \in DOMAIN pass /\ fps[k] \in ToSet(fps)
      BY <1>3 DEF PassWork, ToSet
    <2>2. pass[fps[k]] \in Entry
      BY <2>1 DEF PassOK
    <2>3. pass[fps[k]].row \in ReceivedRow
      BY <2>2 DEF Entry
    <2>4. u[k] = Fingerprint(pass[fps[k]].row)
      BY <1>2, <1>3
    <2> QED
      BY <2>1, <2>3, <2>4 DEF PassWork
  <1>6. turn \in M /\ ledger[turn] \in Seq(QueuedRow) /\ t \in Int
    BY SmsBounds DEF SmsTypes
  <1>7. PICK table \in Seq(QueuedRow) : table = ledger[turn]
    BY <1>6
  <1>8. RecordAll(table, u) \in Seq(QueuedRow)
    BY <1>4, <1>5, <1>6, RecordAllIs
  <1>9. ledger' = [ledger EXCEPT ![turn] = RecordAll(table, u)]
    BY <1>2, <1>7 DEF RecordIngested
  <1>10. ledger' \in [M -> Seq(QueuedRow)]
    BY <1>6, <1>8, <1>9
  <1>11. QueuedRow' = QueuedRow /\ \A q : IsQueued(q)' = IsQueued(q)
    BY <1>1 DEF QueuedRow, LedgerRow, ReceivedRow, IsQueued, Fingerprint
  <1>12. SmsTypes'
    BY <1>1 DEF SmsTypes, netVars
  <1>13. \A p \in DOMAIN pass : InPlace(p)' = InPlace(p)
    BY <1>1 DEF InPlace, netVars, histVars
  <1>14. PICK P \in SUBSET DOMAIN pass : ready \in Seq(Message(P)) /\ \A p \in P : InPlace(p)
    BY DEF PassWork
  <1>15. \A p \in ToSet(gone) : IsQueued(Fingerprint(pass[p].row))' /\ InPlace(p)'
    <2>1. ToSet(gone) \subseteq DOMAIN pass
      BY DEF PassWork, ToSet
    <2> QED
      BY <1>1, <1>11, <1>13, <2>1 DEF PassWork, Fingerprint
  <1>16. PassOK' /\ PassWork'
    <2>1. fps' \in Seq(DOMAIN pass) /\ ToSet(fps') = {}
      BY <1>1, EmptySeq DEF ToSet
    <2>2. gone' = gone /\ gone \in Seq(DOMAIN pass) /\ ready' = ready /\ pass' = pass /\ t' = t
      BY <1>1 DEF PassWork
    <2>3. \A p \in P : InPlace(p)'
      BY <1>13, <1>14
    <2> QED
      BY <1>1, <1>14, <1>15, <2>1, <2>2, <2>3, PassGoesOn
  <1>17. DeletedQueued' /\ WaitsForAll'
    BY <1>1, QueuedStays DEF WaitsForAll, NoStamp, histVars
  <1> QED
    BY <1>10, <1>11, <1>12, <1>16, <1>17

\* The rows kept are rows that were there.
LEMMA LedgerPruned == SmsWorkInv /\ Prune => SmsWorkInv'
  <1> SUFFICES ASSUME SmsWorkInv, Prune PROVE SmsWorkInv'
    OBVIOUS
  <1> USE DEF SmsWorkInv
  <1>1. /\ UNCHANGED <<netVars, now, cursor, turn, began, passVars, local, queued, deleted, exposed,
                       reused, faults, consoled>>
        /\ pc' = "delete" /\ pc = "prune"
    BY DEF Prune
  <1>2. turn \in M
    BY DEF SmsTypes
  <1>3. PICK table \in Seq(QueuedRow) : table = ledger[turn]
    BY <1>2
  <1>4. PICK K \in SUBSET DOMAIN table :
           ledger' = [ledger EXCEPT ![turn] = [k \in DOMAIN Ascending(K) |-> table[Ascending(K)[k]]]]
    BY <1>3 DEF Prune
  <1>5. PICK n \in Nat : DOMAIN table = 1 .. n
    OBVIOUS
  <1>6. IsFiniteSet(K) /\ K \subseteq Int
    BY <1>5, FS_Interval, FS_Subset
  <1>7. PICK order : order = Ascending(K)
    OBVIOUS
  <1>8. order \in Seq(K)
    BY <1>6, <1>7, AscendingIs, SeqOfSet
  <1>9. PICK l \in Nat : DOMAIN order = 1 .. l
    BY <1>8
  <1>10. \A k \in 1 .. l : table[order[k]] \in QueuedRow
    <2>1. \A k \in 1 .. l : order[k] \in DOMAIN table
      BY <1>8, <1>9
    <2>2. \A i \in DOMAIN table : table[i] \in QueuedRow
      OBVIOUS
    <2> QED
      BY <2>1, <2>2
  <1>11. PICK kept : kept = [k \in 1 .. l |-> table[order[k]]]
    OBVIOUS
  <1>12. kept \in Seq(QueuedRow)
    <2>1. kept \in [1 .. l -> QueuedRow]
      BY <1>10, <1>11
    <2> QED
      BY <2>1
  <1>13. ledger' = [ledger EXCEPT ![turn] = kept]
    BY <1>4, <1>7, <1>9, <1>11
  <1>14. ledger' \in [M -> Seq(QueuedRow)]
    BY <1>2, <1>12, <1>13
  <1>15. QueuedRow' = QueuedRow /\ \A q : IsQueued(q)' = IsQueued(q)
    BY <1>1 DEF QueuedRow, LedgerRow, ReceivedRow, IsQueued, Fingerprint
  <1>16. SmsTypes'
    BY <1>1 DEF SmsTypes, netVars, passVars
  <1>17. \A p \in DOMAIN pass : InPlace(p)' = InPlace(p)
    BY <1>1 DEF InPlace, netVars, passVars
  <1>18. PICK P \in SUBSET DOMAIN pass : ready \in Seq(Message(P)) /\ \A p \in P : InPlace(p)
    BY DEF PassWork
  <1>19. \A p \in ToSet(gone) : IsQueued(Fingerprint(pass[p].row))' /\ InPlace(p)'
    <2>1. ToSet(gone) \subseteq DOMAIN pass
      BY DEF PassWork, ToSet
    <2> QED
      BY <1>1, <1>15, <1>17, <2>1 DEF PassWork, Fingerprint, passVars
  <1>20. PassOK' /\ PassWork'
    <2>1. \A p \in ToSet(fps) : IsQueued(Fingerprint(pass[p].row))'
      BY <1>1, <1>15 DEF PassWork, Fingerprint, passVars
    <2>2. /\ gone' = gone /\ gone \in Seq(DOMAIN pass) /\ ready' = ready /\ pass' = pass /\ t' = t
          /\ fps' = fps /\ fps \in Seq(DOMAIN pass)
      BY <1>1 DEF PassWork, passVars
    <2>3. \A p \in P : InPlace(p)'
      BY <1>17, <1>18
    <2> QED
      BY <1>1, <1>18, <1>19, <2>1, <2>2, <2>3, PassGoesOn
  <1>21. DeletedQueued' /\ WaitsForAll'
    BY <1>1, QueuedStays DEF WaitsForAll, NoStamp, histVars
  <1> QED
    BY <1>14, <1>15, <1>16, <1>20, <1>21

LEMMA RowsDeleted == SmsWorkInv /\ DeleteRows => SmsWorkInv'
  <1> SUFFICES ASSUME SmsWorkInv, DeleteRows PROVE SmsWorkInv'
    OBVIOUS
  <1> USE DEF SmsWorkInv
  <1>1. EndPass /\ UNCHANGED <<pending, arrived, now, cursor, keptVars, forgotten, consoled>>
    BY DEF DeleteRows
  <1>2. PICK G \in SUBSET DOMAIN pass : G = ToSet(gone)
    <2>1. ToSet(gone) \subseteq DOMAIN pass
      BY DEF PassWork, ToSet
    <2> QED
      BY <2>1
  <1>3. PICK D \in SUBSET G : TakeOff(D) /\ faults' \in 0 .. MaxFaults
    <2>0. Fault => faults' \in 0 .. MaxFaults
      BY FaultsCounted DEF SmsTypes
    <2>1. CASE TakeOff(ToSet(gone)) /\ UNCHANGED faults
      BY <1>2, <2>1 DEF SmsTypes
    <2>2. CASE Fault /\ \E n \in 0 .. Len(gone) - 1 : TakeOff(ToSet(SubSeq(gone, 1, n)))
      <3>1. PICK n \in 0 .. Len(gone) - 1 : TakeOff(ToSet(SubSeq(gone, 1, n)))
        BY <2>2
      <3>2. PICK u \in Seq(DOMAIN pass) : u = gone
        BY DEF PassWork
      <3>3. ToSet(SubSeq(u, 1, n)) \subseteq ToSet(u)
        BY <3>2, PrefixOf
      <3> QED
        BY <1>2, <2>0, <2>2, <3>1, <3>2, <3>3
    <2>3. CASE Fault /\ \E S \in SUBSET ToSet(gone) : TakeOff(S)
      BY <1>2, <2>0, <2>3
    <2> QED
      BY <2>1, <2>2, <2>3 DEF DeleteRows
  <1>4. D \in SUBSET DOMAIN pass /\ queued' = queued
        /\ \A p \in D : IsQueued(Fingerprint(pass[p].row)) /\ InPlace(p)
    BY <1>1, <1>2 DEF PassWork, keptVars
  <1>5. slots' \in [M -> [Index -> ReceivedRow \cup {NoRow}]] /\ read' \in [M -> SUBSET Index] /\ DeletedQueued'
    BY <1>3, <1>4, TakesOff
  <1>6. SmsTypes' /\ PassOK' /\ PassWork'
    BY <1>1, <1>3, <1>5, NextTurn DEF SmsTypes
  <1>7. ledger' \in [M -> Seq(QueuedRow)]' /\ WaitsForAll'
    BY <1>1, <1>4, QueuedStays DEF WaitsForAll, NoStamp, keptVars
  <1> QED
    BY <1>5, <1>6, <1>7

-----------------------------------------------------------------------------
(* Counting *)

OfKind(A, f, z) == {x \in A : f[x] = z}

\* If of every kind there are no more in K than in T, there are no more in all.
LEMMA CountedByKind ==
  ASSUME NEW K, NEW T, IsFiniteSet(K), IsFiniteSet(T), NEW g, NEW h,
         \A z : Cardinality(OfKind(K, g, z)) <= Cardinality(OfKind(T, h, z))
  PROVE  Cardinality(K) <= Cardinality(T)
  <1> DEFINE KindK(A, z) == {k \in A : g[k] = z}
             KindT(B, z) == {x \in B : h[x] = z}
             Fits(A, B) == \A z : Cardinality(KindK(A, z)) <= Cardinality(KindT(B, z))
             Bad == {n \in Nat : \E A \in SUBSET K, B \in SUBSET T :
                        Cardinality(A) = n /\ Fits(A, B) /\ ~(n <= Cardinality(B))}
  <1>1. SUFFICES ASSUME ~(Cardinality(K) <= Cardinality(T)) PROVE FALSE
    OBVIOUS
  <1>2. Cardinality(K) \in Bad
    <2>1. Fits(K, T)
      BY DEF OfKind
    <2> HIDE DEF Fits
    <2> QED
      BY <1>1, <2>1, FS_CardinalityType
  <1>3. PICK n \in Bad : \A k \in Bad : n <= k
    BY <1>2, LeastOf
  <1>4. PICK A \in SUBSET K, B \in SUBSET T : Cardinality(A) = n /\ Fits(A, B) /\ ~(n <= Cardinality(B))
    <2> HIDE DEF Fits
    <2> QED
      BY <1>3
  <1>5. IsFiniteSet(A) /\ IsFiniteSet(B) /\ n \in Nat /\ Cardinality(B) \in Nat
    BY <1>3, FS_Subset, FS_CardinalityType
  <1>6. PICK k \in A : TRUE
    <2>1. n # 0
      BY <1>4, <1>5
    <2> QED
      BY <1>4, <2>1, FS_EmptySet
  <1>7. PICK z : z = g[k]
    OBVIOUS
  <1>8. \A w : IsFiniteSet(KindK(A, w)) /\ IsFiniteSet(KindT(B, w))
    BY <1>5, FS_Subset
  <1>9. Cardinality(KindK(A, z)) \in Nat /\ Cardinality(KindK(A, z)) # 0 /\ k \in KindK(A, z)
    <2>1. k \in KindK(A, z)
      BY <1>7
    <2> HIDE DEF KindK
    <2> QED
      BY <1>8, <2>1, FS_CardinalityType, FS_EmptySet
  <1>10. Cardinality(KindK(A, z)) <= Cardinality(KindT(B, z))
    BY <1>4
  <1>11. PICK x \in B : x \in KindT(B, z)
    <2>1. KindT(B, z) # {}
      <3> HIDE DEF KindK, KindT
      <3> QED
        BY <1>9, <1>10, FS_EmptySet
    <2> QED
      BY <2>1
  <1>12. PICK A1 \in SUBSET K : A1 = A \ {k}
    OBVIOUS
  <1>13. PICK B1 \in SUBSET T : B1 = B \ {x}
    OBVIOUS
  <1>14. Cardinality(A1) = n - 1 /\ Cardinality(B1) = Cardinality(B) - 1
    BY <1>4, <1>5, <1>6, <1>11, <1>12, <1>13, FS_RemoveElement
  <1>15. Fits(A1, B1)
    <2> SUFFICES ASSUME NEW w PROVE Cardinality(KindK(A1, w)) <= Cardinality(KindT(B1, w))
      OBVIOUS
    <2>1. CASE w = z
      <3>1. KindK(A1, w) = KindK(A, w) \ {k} /\ KindT(B1, w) = KindT(B, w) \ {x}
        BY <1>12, <1>13
      <3>2. k \in KindK(A, w) /\ x \in KindT(B, w) /\ Cardinality(KindK(A, w)) <= Cardinality(KindT(B, w))
        BY <1>9, <1>10, <1>11, <2>1
      <3> HIDE DEF KindK, KindT
      <3>3. /\ Cardinality(KindK(A1, w)) = Cardinality(KindK(A, w)) - 1
            /\ Cardinality(KindT(B1, w)) = Cardinality(KindT(B, w)) - 1
        <4>1. \A C, c : IsFiniteSet(C) /\ c \in C => Cardinality(C \ {c}) = Cardinality(C) - 1
          BY FS_RemoveElement
        <4> QED
          BY <1>8, <3>1, <3>2, <4>1
      <3>4. Cardinality(KindK(A, w)) \in Nat /\ Cardinality(KindT(B, w)) \in Nat
        BY <1>8, FS_CardinalityType
      <3> QED
        BY <3>2, <3>3, <3>4
    <2>2. CASE w # z
      <3>1. KindK(A1, w) = KindK(A, w)
        BY <1>7, <1>12, <2>2
      <3>2. KindT(B1, w) = KindT(B, w)
        BY <1>11, <1>13, <2>2
      <3>3. Cardinality(KindK(A, w)) <= Cardinality(KindT(B, w))
        BY <1>4
      <3> HIDE DEF KindK, KindT
      <3> QED
        BY <3>1, <3>2, <3>3
    <2> QED
      BY <2>1, <2>2
  <1> HIDE DEF Fits
  <1>16. n - 1 \in Nat /\ ~(n - 1 <= Cardinality(B1))
    <2>1. n - 1 \in Nat
      BY <1>5, <1>12, <1>14, FS_Subset, FS_CardinalityType
    <2> QED
      BY <1>4, <1>5, <1>14, <2>1
  <1>17. n - 1 \in Bad
    BY <1>14, <1>15, <1>16
  <1> QED
    BY <1>3, <1>5, <1>17

LEMMA Disjoint ==
  ASSUME NEW A, NEW B, IsFiniteSet(A), IsFiniteSet(B), A \cap B = {}
  PROVE  IsFiniteSet(A \cup B) /\ Cardinality(A \cup B) = Cardinality(A) + Cardinality(B)
  <1>1. Cardinality(A) \in Nat /\ Cardinality(B) \in Nat /\ Cardinality(A \cap B) = 0
    BY FS_CardinalityType, FS_EmptySet
  <1>2. IsFiniteSet(A \cup B)
        /\ Cardinality(A \cup B) = Cardinality(A) + Cardinality(B) - Cardinality(A \cap B)
    BY FS_Union
  <1> QED
    BY <1>1, <1>2

\* Of the members of Q, in order, those after the first c are no more than the
\* rest.
LEMMA RankRoom ==
  ASSUME NEW Q \in SUBSET Nat, IsFiniteSet(Q), NEW c \in Nat, NEW N \in SUBSET Q, N # {},
         \A p \in Q : p \in N <=> ~(Cardinality({q \in Q : q <= p}) <= c)
  PROVE  c + Cardinality(N) <= Cardinality(Q)
  <1>1. PICK p \in N : \A q \in N : p <= q
    <2>1. N \in SUBSET Nat
      OBVIOUS
    <2> QED
      BY <2>1, LeastOf
  <1>2. PICK L \in SUBSET Q : L = {q \in Q : q < p}
    OBVIOUS
  <1>3. IsFiniteSet(L) /\ IsFiniteSet(N)
    BY FS_Subset
  <1>4. {q \in Q : q <= p} = L \cup {p} /\ p \notin L
    <2>1. p \in Q /\ p \in Nat /\ \A q \in Q : q \in Nat
      OBVIOUS
    <2>2. \A q \in Q : q <= p <=> q < p \/ q = p
      BY <2>1
    <2>3. ~(p < p)
      BY <2>1
    <2> QED
      BY <1>2, <2>1, <2>2, <2>3
  <1>5. Cardinality(L \cup {p}) = Cardinality(L) + 1
    BY <1>3, <1>4, FS_AddElement
  <1>6. Cardinality(L) \in Nat /\ Cardinality(N) \in Nat /\ Cardinality(Q) \in Nat
    BY <1>3, FS_CardinalityType
  <1>7. ~(Cardinality({q \in Q : q <= p}) <= c)
    OBVIOUS
  <1>8. c <= Cardinality(L)
    BY <1>4, <1>5, <1>6, <1>7
  <1>9. L \cap N = {}
    <2>1. \A q \in N : q \in Nat /\ p \in Nat
      OBVIOUS
    <2>2. \A q \in N : ~(q < p)
      BY <1>1, <2>1
    <2> QED
      BY <1>2, <2>2
  <1>10. Cardinality(L \cup N) = Cardinality(L) + Cardinality(N)
    BY <1>3, <1>6, <1>9, Disjoint
  <1>11. Cardinality(L \cup N) <= Cardinality(Q)
    <2>1. L \cup N \in SUBSET Q
      OBVIOUS
    <2> QED
      BY <2>1, FS_Subset
  <1> QED
    BY <1>6, <1>8, <1>10, <1>11

\* An image is no larger, and what maps into a set one to one neither.
LEMMA ImageCount ==
  ASSUME NEW A, NEW B, IsFiniteSet(A), NEW f \in [A -> B], \A y \in B : \E x \in A : f[x] = y
  PROVE  IsFiniteSet(B) /\ Cardinality(B) <= Cardinality(A)
  <1>1. f \in Surjection(A, B)
    BY DEF Surjection
  <1> QED
    BY <1>1, FS_Surjection

LEMMA OneToOneCount ==
  ASSUME NEW A, NEW B, IsFiniteSet(B), NEW f \in [A -> B], \A x, y \in A : f[x] = f[y] => x = y
  PROVE  IsFiniteSet(A) /\ Cardinality(A) <= Cardinality(B)
  <1>1. f \in Injection(A, B)
    BY DEF Injection, IsInjective
  <1> QED
    BY <1>1, FS_Injection
-----------------------------------------------------------------------------
(* How often the ledger has a fingerprint *)

\* A fingerprint has one row (the table's unique key).
OnceEach(table) == \A i, j \in DOMAIN table : table[i].fp = table[j].fp => i = j

CopiesOf(table, fp) ==
    LET rows == {i \in DOMAIN table : table[i].fp = fp}
    IN  IF rows = {} THEN 0 ELSE table[CHOOSE i \in rows : TRUE].copies

LEMMA CopiesAre ==
  ASSUME NEW table, OnceEach(table), NEW fp
  PROVE  /\ \A i \in DOMAIN table : table[i].fp = fp => CopiesOf(table, fp) = table[i].copies
         /\ (\A i \in DOMAIN table : table[i].fp # fp) => CopiesOf(table, fp) = 0
  <1> DEFINE rows == {i \in DOMAIN table : table[i].fp = fp}
  <1>1. CopiesOf(table, fp) = IF rows = {} THEN 0 ELSE table[CHOOSE i \in rows : TRUE].copies
    BY DEF CopiesOf
  <1>2. ASSUME NEW i \in DOMAIN table, table[i].fp = fp PROVE CopiesOf(table, fp) = table[i].copies
    <2>1. rows = {i}
      BY <1>2 DEF OnceEach
    <2>2. (CHOOSE j \in rows : TRUE) = i
      BY <2>1
    <2> HIDE DEF rows
    <2> QED
      BY <1>1, <2>1, <2>2
  <1>3. (\A i \in DOMAIN table : table[i].fp # fp) => rows = {}
    OBVIOUS
  <1> HIDE DEF rows
  <1> QED
    BY <1>1, <1>2, <1>3

LEMMA CopiesType ==
  ASSUME NEW table \in Seq(QueuedRow), OnceEach(table), NEW fp
  PROVE  CopiesOf(table, fp) \in Nat
  <1>1. \A i \in DOMAIN table : table[i].copies \in Nat
    <2>1. \A i \in DOMAIN table : table[i] \in QueuedRow
      OBVIOUS
    <2> QED
      BY <2>1 DEF QueuedRow, LedgerRow
  <1>2. CASE \E i \in DOMAIN table : table[i].fp = fp
    BY <1>1, <1>2, CopiesAre
  <1>3. CASE \A i \in DOMAIN table : table[i].fp # fp
    <2>1. CopiesOf(table, fp) = 0
      BY <1>3, CopiesAre
    <2> QED
      BY <2>1
  <1> QED
    BY <1>2, <1>3

\* One entry counts one.
LEMMA RecordCounts ==
  ASSUME NEW table \in Seq(QueuedRow), OnceEach(table), NEW x, NEW fp
  PROVE  /\ OnceEach(Record(table, x))
         /\ CopiesOf(Record(table, x), fp) = IF x = fp THEN CopiesOf(table, fp) + 1 ELSE CopiesOf(table, fp)
  <1>1. PICK n \in Nat : DOMAIN table = 1 .. n /\ Len(table) = n
    OBVIOUS
  <1>2. PICK w : w = Record(table, x)
    OBVIOUS
  <1>3. \A i \in DOMAIN table : table[i] \in LedgerRow
    BY DEF QueuedRow
  <1>4. CASE \E i \in DOMAIN table : table[i].fp = x
    <2>1. w = [i \in DOMAIN table |-> IF table[i].fp = x
                                      THEN [table[i] EXCEPT !.copies = @ + 1, !.last = t]
                                      ELSE table[i]]
      BY <1>2, <1>4 DEF Record
    <2>2. \A r \in LedgerRow : /\ [r EXCEPT !.copies = @ + 1, !.last = t].fp = r.fp
                               /\ [r EXCEPT !.copies = @ + 1, !.last = t].copies = r.copies + 1
      BY DEF LedgerRow
    <2>3. /\ DOMAIN w = DOMAIN table
          /\ \A i \in DOMAIN table : /\ w[i].fp = table[i].fp
                                     /\ w[i].copies = IF table[i].fp = x THEN table[i].copies + 1
                                                      ELSE table[i].copies
      BY <1>3, <2>1, <2>2
    <2>4. OnceEach(w)
      BY <2>3 DEF OnceEach
    <2>5. CASE \E i \in DOMAIN table : table[i].fp = fp
      <3>1. PICK i \in DOMAIN table : table[i].fp = fp
        BY <2>5
      <3>2. CopiesOf(table, fp) = table[i].copies /\ CopiesOf(w, fp) = w[i].copies
        BY <2>3, <2>4, <3>1, CopiesAre
      <3> QED
        BY <1>2, <2>3, <2>4, <3>1, <3>2
    <2>6. CASE \A i \in DOMAIN table : table[i].fp # fp
      <3>1. CopiesOf(table, fp) = 0 /\ CopiesOf(w, fp) = 0 /\ x # fp
        BY <1>4, <2>3, <2>4, <2>6, CopiesAre
      <3> QED
        BY <1>2, <2>4, <3>1
    <2> QED
      BY <2>5, <2>6
  <1>5. CASE \A i \in DOMAIN table : table[i].fp # x
    <2>1. PICK e : e = [fp |-> x, copies |-> 1, last |-> t]
      OBVIOUS
    <2>2. w = Append(table, e) /\ e.fp = x /\ e.copies = 1
      BY <1>2, <1>5, <2>1 DEF Record
    <2>3. /\ DOMAIN w = 1 .. n + 1 /\ w[n + 1] = e
          /\ \A i \in 1 .. n : w[i] = table[i] /\ i \in DOMAIN w
      BY <1>1, <2>2
    <2>4. \A i \in DOMAIN w : i = n + 1 \/ (i \in DOMAIN table /\ w[i] = table[i])
      BY <1>1, <2>3
    <2>5. OnceEach(w)
      <3> SUFFICES ASSUME NEW i \in DOMAIN w, NEW j \in DOMAIN w, w[i].fp = w[j].fp PROVE i = j
        BY DEF OnceEach
      <3> QED
        BY <1>5, <2>2, <2>3, <2>4 DEF OnceEach
    <2>6. CASE x = fp
      <3>1. CopiesOf(table, fp) = 0
        BY <1>5, <2>6, CopiesAre
      <3>2. n + 1 \in DOMAIN w /\ w[n + 1].fp = fp
        BY <2>2, <2>3, <2>6
      <3>3. CopiesOf(w, fp) = w[n + 1].copies
        BY <2>5, <3>2, CopiesAre
      <3> QED
        BY <1>2, <2>2, <2>3, <2>5, <2>6, <3>1, <3>3
    <2>7. CASE x # fp
      <3>1. CASE \E i \in DOMAIN table : table[i].fp = fp
        <4>1. PICK i \in DOMAIN table : table[i].fp = fp
          BY <3>1
        <4>2. i \in DOMAIN w /\ w[i] = table[i]
          BY <1>1, <2>3
        <4>3. CopiesOf(table, fp) = table[i].copies /\ CopiesOf(w, fp) = w[i].copies
          BY <2>5, <4>1, <4>2, CopiesAre
        <4> QED
          BY <1>2, <2>5, <2>7, <4>2, <4>3
      <3>2. CASE \A i \in DOMAIN table : table[i].fp # fp
        <4>1. \A i \in DOMAIN w : w[i].fp # fp
          BY <2>2, <2>3, <2>4, <2>7, <3>2
        <4>2. CopiesOf(table, fp) = 0 /\ CopiesOf(w, fp) = 0
          BY <2>5, <3>2, <4>1, CopiesAre
        <4> QED
          BY <1>2, <2>5, <2>7, <4>2
      <3> QED
        BY <3>1, <3>2
    <2> QED
      BY <2>6, <2>7
  <1> QED
    BY <1>4, <1>5

\* However many: each counts.
LEMMA RecordAllCounts ==
  ASSUME NEW table \in Seq(QueuedRow), OnceEach(table), NEW u, NEW n \in Nat, Len(u) = n, t \in Int,
         \A k \in 1 .. n : u[k] \in {Fingerprint(r) : r \in ReceivedRow} /\ IsQueued(u[k]),
         NEW fp
  PROVE  /\ OnceEach(RecordAll(table, u))
         /\ CopiesOf(RecordAll(table, u), fp)
               = CopiesOf(table, fp) + Cardinality({k \in 1 .. n : u[k] = fp})
  <1>0. PICK f : Enters(f, table, u, n) /\ RecordAll(table, u) = f[n]
    BY RecordAllSteps
  <1>1. /\ RecordAll(table, u) = f[n]
        /\ \A k \in 0 .. n : f[k] = IF k = 0 THEN table ELSE Record(f[k - 1], u[k])
    BY <1>0, Zenon DEF Enters
  <1> DEFINE Some(k) == {j \in 1 .. k : u[j] = fp}
             Good(k) == /\ f[k] \in Seq(QueuedRow) /\ OnceEach(f[k])
                        /\ CopiesOf(f[k], fp) = CopiesOf(table, fp) + Cardinality(Some(k))
             Bad == {k \in Nat : k \in 0 .. n /\ ~Good(k)}
  <1>2. \A k \in 0 .. n : IsFiniteSet(Some(k)) /\ Cardinality(Some(k)) \in Nat
    <2>1. \A k \in 0 .. n : IsFiniteSet(Some(k))
      BY FS_Interval, FS_Subset
    <2> HIDE DEF Some
    <2> QED
      BY <2>1, FS_CardinalityType
  <1>3. CopiesOf(table, fp) \in Nat
    BY CopiesType
  <1>4. Good(n)
    <2> SUFFICES ASSUME n \in Bad PROVE FALSE
      OBVIOUS
    <2>1. PICK k \in Bad : \A j \in Bad : k <= j
      <3> HIDE DEF Good
      <3> QED
        BY LeastOf
    <2>2. k \in 0 .. n /\ ~Good(k)
      BY <2>1
    <2>3. k # 0
      <3>1. f[0] = table
        BY <1>1
      <3>2. Some(0) = {}
        OBVIOUS
      <3>3. Cardinality(Some(0)) = 0
        BY <3>2, FS_EmptySet
      <3> HIDE DEF Some
      <3>4. Good(0)
        BY <1>3, <3>1, <3>3
      <3> HIDE DEF Good
      <3> QED
        BY <2>2, <3>4
    <2>4. k - 1 \in 0 .. n /\ k - 1 \notin Bad /\ k \in 1 .. n
      BY <2>1, <2>2, <2>3
    <2>5. Good(k - 1)
      <3> HIDE DEF Good
      <3> QED
        BY <2>4
    <2>6. PICK before \in Seq(QueuedRow) :
             before = f[k - 1] /\ OnceEach(before)
             /\ CopiesOf(before, fp) = CopiesOf(table, fp) + Cardinality(Some(k - 1))
      BY <2>5
    <2>7. PICK x \in {Fingerprint(r) : r \in ReceivedRow} : x = u[k] /\ IsQueued(x)
      BY <2>4
    <2>8. f[k] = Record(before, x)
      BY <1>1, <2>3, <2>4, <2>6, <2>7
    <2>9. f[k] \in Seq(QueuedRow)
      BY <2>7, <2>8, RecordIs
    <2>10. /\ OnceEach(f[k])
           /\ CopiesOf(f[k], fp) = IF x = fp THEN CopiesOf(before, fp) + 1 ELSE CopiesOf(before, fp)
      BY <2>6, <2>8, RecordCounts
    <2>11. Cardinality(Some(k)) = IF x = fp THEN Cardinality(Some(k - 1)) + 1 ELSE Cardinality(Some(k - 1))
      <3>1. 1 .. k = (1 .. k - 1) \cup {k}
        BY <2>4
      <3>2. k \notin Some(k - 1)
        BY <2>4
      <3>3. CASE x = fp
        <4>1. Some(k) = Some(k - 1) \cup {k}
          BY <2>7, <3>1, <3>3
        <4> HIDE DEF Some
        <4>2. Cardinality(Some(k - 1) \cup {k}) = Cardinality(Some(k - 1)) + 1
          BY <1>2, <2>4, <3>2, FS_AddElement
        <4> QED
          BY <3>3, <4>1, <4>2
      <3>4. CASE x # fp
        <4>1. Some(k) = Some(k - 1)
          BY <2>7, <3>1, <3>4
        <4> HIDE DEF Some
        <4> QED
          BY <3>4, <4>1
      <3> QED
        BY <3>3, <3>4
    <2>12. CopiesOf(f[k], fp) = CopiesOf(table, fp) + Cardinality(Some(k))
      <3>1. Cardinality(Some(k)) \in Nat /\ Cardinality(Some(k - 1)) \in Nat
        BY <1>2, <2>4
      <3> HIDE DEF Some
      <3> QED
        BY <1>3, <2>6, <2>10, <2>11, <3>1
    <2> QED
      BY <2>2, <2>9, <2>10, <2>12
  <1> QED
    BY <1>1, <1>4

-----------------------------------------------------------------------------
(* The books: what arrived, what the ledger has, what is queued *)

\* The row is of an arrival at module m, with the stamp it came with.
Came(m, row) == row.a \in DOMAIN arrived /\ row.at = arrived[row.a] /\ Part[row.a].to = m

\* What is on a module arrived there, and is there once.
RowsAccounted ==
    \A m \in M, i \in Index :
        slots[m][i] # NoRow =>
            /\ Came(m, slots[m][i])
            /\ \A j \in Index : slots[m][j] # NoRow /\ slots[m][j].a = slots[m][i].a => j = i

\* So is what was listed.
PassAccounted ==
    /\ \A p \in DOMAIN pass : Came(turn, pass[p].row)
    /\ \A p, q \in DOMAIN pass : pass[p].row.a = pass[q].row.a => p = q

\* A position is in one message to be kept, or in one that was; what is in the
\* ledger is in neither any more.
WorkApart ==
    /\ Apart(ready) /\ \A p \in ToSet(fps) : ~UsedIn(ready, p)
    /\ pc \in {"prune", "delete"} => fps = <<>> /\ ready = <<>>

\* The fragments queued, one for each place in a message of the queue.
KeptRows == UNION {{<<q.n, s>> : s \in DOMAIN q.rows} : q \in queued}
KeptAs(fp) == UNION {{<<q.n, s>> : s \in {i \in DOMAIN q.rows : Fingerprint(q.rows[i]) = fp}} :
                     q \in queued}

QueueAccounted ==
    IsFiniteSet(KeptRows) /\ \A q \in queued : \A s \in DOMAIN q.rows : q.rows[s] \in ReceivedRow

Fingerprints == {Fingerprint(r) : r \in ReceivedRow}
Delivered(fp) == {b \in DOMAIN arrived : Part[b] = fp[1] /\ arrived[b] = fp[2]}
Entries(fp) == CopiesOf(ledger[fp[1].to], fp)

\* Positions of the pass with this fingerprint: those queued and not yet in the
\* ledger, and with them those still to be queued.
EnteredOf(fp) == {p \in DOMAIN pass : p \in ToSet(fps) /\ Fingerprint(pass[p].row) = fp}
TodoOf(fp) ==
    {p \in DOMAIN pass : (p \in ToSet(fps) \/ UsedIn(ready, p)) /\ Fingerprint(pass[p].row) = fp}

\* No pass ended between the queue and the ledger with such a fragment, and the
\* ledger was not pruned of it.
Clean(fp) == Delivered(fp) \cap exposed = {} /\ fp \notin forgotten

\* No more is queued than the ledger has or is about to have, and no more than
\* was delivered; and for what is still to be queued there is room.
Balanced(fp) ==
    /\ Clean(fp) => /\ Cardinality(KeptAs(fp)) <= Entries(fp) + Cardinality(EnteredOf(fp))
                    /\ Cardinality(KeptAs(fp)) <= Cardinality(Delivered(fp))
    /\ TodoOf(fp) # {} => Entries(fp) + Cardinality(TodoOf(fp)) <= Cardinality(Delivered(fp))

BookInv ==
    /\ RowsAccounted /\ PassAccounted /\ WorkApart /\ QueueAccounted
    /\ \A m \in M : OnceEach(ledger[m])
    /\ \A fp \in Fingerprints : Balanced(fp)

LEMMA FingerprintFacts ==
  ASSUME NEW fp \in Fingerprints
  PROVE  fp[1].to \in M
  <1>1. PICK r \in ReceivedRow : fp = Fingerprint(r)
    BY DEF Fingerprints
  <1>2. r.a \in Arrivals
    BY DEF ReceivedRow
  <1> QED
    BY <1>1, <1>2, SmsBounds DEF Fingerprint

\* What is counted is finite.
LEMMA BookFacts ==
  ASSUME SmsWorkInv, BookInv, NEW fp \in Fingerprints
  PROVE  /\ IsFiniteSet(Delivered(fp)) /\ Cardinality(Delivered(fp)) \in Nat
         /\ IsFiniteSet(KeptAs(fp)) /\ Cardinality(KeptAs(fp)) \in Nat
         /\ IsFiniteSet(EnteredOf(fp)) /\ Cardinality(EnteredOf(fp)) \in Nat
         /\ IsFiniteSet(TodoOf(fp)) /\ Cardinality(TodoOf(fp)) \in Nat
         /\ EnteredOf(fp) \subseteq TodoOf(fp)
         /\ Entries(fp) \in Nat
  <1>1. IsFiniteSet(Delivered(fp))
    <2>1. Delivered(fp) \in SUBSET DOMAIN arrived
      BY DEF Delivered
    <2> QED
      BY <2>1, FS_Subset DEF SmsWorkInv, SmsTypes
  <1>2. IsFiniteSet(KeptAs(fp))
    <2>1. KeptAs(fp) \in SUBSET KeptRows
      BY DEF KeptAs, KeptRows
    <2> QED
      BY <2>1, FS_Subset DEF BookInv, QueueAccounted
  <1>3. EnteredOf(fp) \in SUBSET DOMAIN pass /\ TodoOf(fp) \in SUBSET DOMAIN pass /\ EnteredOf(fp) \subseteq TodoOf(fp)
    BY DEF EnteredOf, TodoOf
  <1>4. IsFiniteSet(DOMAIN pass)
    <2>1. PICK n \in Nat : DOMAIN pass = 1 .. n
      BY DEF SmsWorkInv, PassOK
    <2> QED
      BY <2>1, FS_Interval
  <1>5. IsFiniteSet(EnteredOf(fp)) /\ IsFiniteSet(TodoOf(fp))
    BY <1>3, <1>4, FS_Subset
  <1>6. Entries(fp) \in Nat
    <2>1. PICK m \in M : m = fp[1].to
      BY FingerprintFacts
    <2>2. PICK table \in Seq(QueuedRow) : table = ledger[m]
      BY DEF SmsWorkInv
    <2>3. OnceEach(table)
      BY <2>2 DEF BookInv
    <2>4. CopiesOf(table, fp) \in Nat
      BY <2>3, CopiesType
    <2> QED
      BY <2>1, <2>2, <2>4 DEF Entries
  <1> QED
    BY <1>1, <1>2, <1>3, <1>5, <1>6, FS_CardinalityType

\* The balance holds after a step that queues nothing, if no entry is lost and
\* there is room.
LEMMA Rebalanced ==
  ASSUME SmsWorkInv, BookInv, NEW fp \in Fingerprints,
         KeptAs(fp)' = KeptAs(fp),
         IsFiniteSet(Delivered(fp)'), Delivered(fp) \subseteq Delivered(fp)',
         Clean(fp)' => /\ Clean(fp)
                       /\ Entries(fp) + Cardinality(EnteredOf(fp))
                             <= Entries(fp)' + Cardinality(EnteredOf(fp)'),
         Entries(fp)' \in Nat, Cardinality(EnteredOf(fp)') \in Nat,
         TodoOf(fp)' # {} => Entries(fp)' + Cardinality(TodoOf(fp)') <= Cardinality(Delivered(fp)')
  PROVE  Balanced(fp)'
  <1>1. PICK D : D = Delivered(fp)'
    OBVIOUS
  <1>2. PICK C : C = Delivered(fp)
    OBVIOUS
  <1>3. Cardinality(C) <= Cardinality(D) /\ Cardinality(D) \in Nat
    <2>1. IsFiniteSet(D) /\ C \in SUBSET D
      BY <1>1, <1>2
    <2> QED
      BY <2>1, FS_Subset, FS_CardinalityType
  <1>4. Balanced(fp)
    BY DEF BookInv
  <1>5. ASSUME Clean(fp)'
        PROVE  /\ Cardinality(KeptAs(fp)') <= Entries(fp)' + Cardinality(EnteredOf(fp)')
               /\ Cardinality(KeptAs(fp)') <= Cardinality(Delivered(fp)')
    <2>1. /\ Cardinality(KeptAs(fp)) <= Entries(fp) + Cardinality(EnteredOf(fp))
          /\ Cardinality(KeptAs(fp)) <= Cardinality(C)
      BY <1>2, <1>4, <1>5 DEF Balanced
    <2>2. /\ Cardinality(KeptAs(fp)) \in Nat /\ Entries(fp) \in Nat
          /\ Cardinality(EnteredOf(fp)) \in Nat /\ Cardinality(C) \in Nat
      BY <1>2, BookFacts
    <2>3. Entries(fp) + Cardinality(EnteredOf(fp)) <= Entries(fp)' + Cardinality(EnteredOf(fp)')
      BY <1>5
    <2>4. PICK k \in Nat : k = Cardinality(KeptAs(fp)) /\ k = Cardinality(KeptAs(fp)')
      BY <2>2
    <2>5. PICK e \in Nat : e = Entries(fp) + Cardinality(EnteredOf(fp))
      BY <2>2
    <2>6. PICK e2 \in Nat : e2 = Entries(fp)' + Cardinality(EnteredOf(fp)')
      OBVIOUS
    <2>7. k <= e /\ e <= e2 /\ k <= Cardinality(C)
      BY <2>1, <2>3, <2>4, <2>5, <2>6
    <2> QED
      BY <1>1, <1>3, <2>2, <2>4, <2>6, <2>7
  <1> QED
    BY <1>5 DEF Balanced

\* Rows that go are no longer to be accounted for.
LEMMA RowsThinned ==
  ASSUME RowsAccounted, arrived' = arrived,
         \A m \in M, i \in Index : slots'[m][i] = NoRow \/ slots'[m][i] = slots[m][i]
  PROVE  RowsAccounted'
  BY DEF RowsAccounted, Came, NoRow

\* Steps that leave the pass and the books alone; something may arrive.
LEMMA BooksStay ==
  ASSUME SmsWorkInv, SmsWorkInv', BookInv, RowsAccounted',
         UNCHANGED <<ledger, queued, pass, fps, ready, turn, exposed, forgotten>>,
         pc' \in {"prune", "delete"} => pc' = pc,
         DOMAIN arrived \subseteq DOMAIN arrived', \A b \in DOMAIN arrived : arrived'[b] = arrived[b]
  PROVE  BookInv'
  <1>1. PassAccounted'
    BY DEF BookInv, PassAccounted, Came
  <1>2. WorkApart'
    BY DEF BookInv, WorkApart, Apart, UsedIn, ToSet
  <1>3. QueueAccounted'
    BY DEF BookInv, QueueAccounted, KeptRows, ReceivedRow
  <1>4. \A m \in M : OnceEach(ledger[m])'
    BY DEF BookInv, OnceEach
  <1>5. ASSUME NEW fp \in Fingerprints PROVE Balanced(fp)'
    <2>1. /\ KeptAs(fp)' = KeptAs(fp) /\ EnteredOf(fp)' = EnteredOf(fp) /\ TodoOf(fp)' = TodoOf(fp)
          /\ Entries(fp)' = Entries(fp)
      BY DEF KeptAs, EnteredOf, TodoOf, Entries, CopiesOf, Fingerprint, UsedIn, ToSet
    <2>2. Delivered(fp) \subseteq Delivered(fp)'
      BY DEF Delivered
    <2>3. IsFiniteSet(Delivered(fp)')
      <3>1. Delivered(fp)' \in SUBSET DOMAIN arrived'
        BY DEF Delivered
      <3> QED
        BY <3>1, FS_Subset DEF SmsWorkInv, SmsTypes
    <2>4. Clean(fp)' => Clean(fp)
      BY <2>2 DEF Clean
    <2>5. TodoOf(fp) # {} => Entries(fp) + Cardinality(TodoOf(fp)) <= Cardinality(Delivered(fp)')
      <3>1. TodoOf(fp) # {} => Entries(fp) + Cardinality(TodoOf(fp)) <= Cardinality(Delivered(fp))
        BY DEF BookInv, Balanced
      <3>2. PICK D : D = Delivered(fp)'
        OBVIOUS
      <3>3. PICK C : C = Delivered(fp)
        OBVIOUS
      <3>4. Cardinality(C) <= Cardinality(D) /\ Cardinality(D) \in Nat
        <4>1. IsFiniteSet(D) /\ C \in SUBSET D
          BY <2>2, <2>3, <3>2, <3>3
        <4> QED
          BY <4>1, FS_Subset, FS_CardinalityType
      <3>5. Entries(fp) \in Nat /\ Cardinality(TodoOf(fp)) \in Nat /\ Cardinality(C) \in Nat
        BY <3>3, BookFacts
      <3> QED
        BY <3>1, <3>2, <3>3, <3>4, <3>5
    <2>6. Entries(fp) \in Nat /\ Cardinality(EnteredOf(fp)) \in Nat
      BY BookFacts
    <2>7. Entries(fp) + Cardinality(EnteredOf(fp)) <= Entries(fp)' + Cardinality(EnteredOf(fp)')
      BY <2>1, <2>6
    <2>8. Entries(fp)' \in Nat /\ Cardinality(EnteredOf(fp)') \in Nat
      BY <2>1, <2>6
    <2>9. TodoOf(fp)' # {} => Entries(fp)' + Cardinality(TodoOf(fp)') <= Cardinality(Delivered(fp)')
      BY <2>1, <2>5
    <2> QED
      BY <2>1, <2>2, <2>3, <2>4, <2>7, <2>8, <2>9, Rebalanced
  <1>6. Fingerprints' = Fingerprints
    BY DEF Fingerprints, Fingerprint, ReceivedRow
  <1> QED
    BY <1>1, <1>2, <1>3, <1>4, <1>5, <1>6 DEF BookInv

\* What was listed with a fingerprint was delivered with it.
LEMMA ListedDelivered ==
  ASSUME BookInv, NEW fp, NEW p \in DOMAIN pass, Fingerprint(pass[p].row) = fp
  PROVE  pass[p].row.a \in Delivered(fp) /\ fp[1].to = turn
  <1>1. /\ pass[p].row.a \in DOMAIN arrived /\ pass[p].row.at = arrived[pass[p].row.a]
        /\ Part[pass[p].row.a].to = turn
    BY DEF BookInv, PassAccounted, Came
  <1>2. fp[1] = Part[pass[p].row.a] /\ fp[2] = pass[p].row.at
    BY DEF Fingerprint
  <1> QED
    BY <1>1, <1>2 DEF Delivered

\* The pass ends: what was queued and did not reach the ledger is exposed.
LEMMA BooksClosed ==
  ASSUME SmsWorkInv, SmsWorkInv', BookInv, RowsAccounted',
         UNCHANGED <<ledger, queued, forgotten, arrived>>,
         pass' = <<>>, ready' = <<>>, fps' = <<>>, pc' = "next",
         exposed' = exposed \cup {pass[fps[k]].row.a : k \in DOMAIN fps}
  PROVE  BookInv'
  <1>1. PassAccounted'
    BY DEF PassAccounted
  <1>2. WorkApart'
    BY DEF WorkApart, Apart, UsedIn, ToSet
  <1>3. QueueAccounted'
    BY DEF BookInv, QueueAccounted, KeptRows, ReceivedRow
  <1>4. \A m \in M : OnceEach(ledger[m])'
    BY DEF BookInv, OnceEach
  <1>5. ASSUME NEW fp \in Fingerprints PROVE Balanced(fp)'
    <2>1. KeptAs(fp)' = KeptAs(fp) /\ Entries(fp)' = Entries(fp) /\ Delivered(fp)' = Delivered(fp)
      BY DEF KeptAs, Entries, CopiesOf, Fingerprint, Delivered
    <2>2. EnteredOf(fp)' = {} /\ TodoOf(fp)' = {}
      BY DEF EnteredOf, TodoOf
    <2>3. Cardinality(EnteredOf(fp)') = 0
      BY <2>2, FS_EmptySet
    <2>4. Clean(fp)' => Clean(fp)
      BY <2>1 DEF Clean
    <2>5. Clean(fp)' => EnteredOf(fp) = {}
      <3> SUFFICES ASSUME NEW p \in EnteredOf(fp) PROVE ~Clean(fp)'
        OBVIOUS
      <3>1. p \in DOMAIN pass /\ p \in ToSet(fps) /\ Fingerprint(pass[p].row) = fp
        BY DEF EnteredOf
      <3>2. pass[p].row.a \in Delivered(fp)
        BY <3>1, ListedDelivered
      <3>3. pass[p].row.a \in exposed'
        BY <3>1 DEF ToSet
      <3> QED
        BY <2>1, <3>2, <3>3 DEF Clean
    <2>6. Entries(fp) \in Nat /\ IsFiniteSet(Delivered(fp))
      BY BookFacts
    <2>7. Clean(fp)' => Entries(fp) + Cardinality(EnteredOf(fp)) <= Entries(fp)' + Cardinality(EnteredOf(fp)')
      <3> SUFFICES ASSUME Clean(fp)'
                   PROVE  Entries(fp) + Cardinality(EnteredOf(fp)) <= Entries(fp)' + Cardinality(EnteredOf(fp)')
        OBVIOUS
      <3>1. Cardinality(EnteredOf(fp)) = 0
        BY <2>5, FS_EmptySet
      <3> QED
        BY <2>1, <2>3, <2>6, <3>1
    <2>8. Entries(fp)' \in Nat /\ Cardinality(EnteredOf(fp)') \in Nat /\ IsFiniteSet(Delivered(fp)')
          /\ Delivered(fp) \subseteq Delivered(fp)'
      BY <2>1, <2>3, <2>6
    <2> QED
      BY <2>1, <2>2, <2>4, <2>7, <2>8, Rebalanced
  <1>6. Fingerprints' = Fingerprints
    BY DEF Fingerprints, Fingerprint, ReceivedRow
  <1> QED
    BY <1>1, <1>2, <1>3, <1>4, <1>5, <1>6 DEF BookInv

\* A pass begins, with nothing queued yet.
LEMMA BooksOpened ==
  ASSUME SmsWorkInv, SmsWorkInv', BookInv, pc = "next", pc' = "listed", PassAccounted',
         UNCHANGED <<ledger, queued, forgotten, exposed, arrived, slots, ready, fps>>
  PROVE  BookInv'
  <1>1. ready = <<>> /\ fps = <<>>
    <2>1. pass = <<>> /\ ready = <<>> /\ fps \in Seq(DOMAIN pass)
      BY DEF SmsWorkInv, PassWork
    <2>2. DOMAIN pass = {}
      BY <2>1
    <2> QED
      BY <2>1, <2>2
  <1>2. WorkApart'
    BY <1>1 DEF WorkApart, Apart, UsedIn, ToSet
  <1>3. QueueAccounted'
    BY DEF BookInv, QueueAccounted, KeptRows, ReceivedRow
  <1>4. \A m \in M : OnceEach(ledger[m])'
    BY DEF BookInv, OnceEach
  <1>5. ASSUME NEW fp \in Fingerprints PROVE Balanced(fp)'
    <2>1. KeptAs(fp)' = KeptAs(fp) /\ Entries(fp)' = Entries(fp) /\ Delivered(fp)' = Delivered(fp)
      BY DEF KeptAs, Entries, CopiesOf, Fingerprint, Delivered
    <2>2. EnteredOf(fp)' = {} /\ TodoOf(fp)' = {} /\ EnteredOf(fp) = {}
      BY <1>1 DEF EnteredOf, TodoOf, ToSet, UsedIn
    <2>3. Cardinality(EnteredOf(fp)') = 0 /\ Cardinality(EnteredOf(fp)) = 0
      BY <2>2, FS_EmptySet
    <2>4. Clean(fp)' => Clean(fp)
      BY <2>1 DEF Clean
    <2>5. Entries(fp) \in Nat /\ IsFiniteSet(Delivered(fp))
      BY BookFacts
    <2>6. /\ Entries(fp) + Cardinality(EnteredOf(fp)) <= Entries(fp)' + Cardinality(EnteredOf(fp)')
          /\ Entries(fp)' \in Nat /\ Cardinality(EnteredOf(fp)') \in Nat /\ IsFiniteSet(Delivered(fp)')
          /\ Delivered(fp) \subseteq Delivered(fp)'
      BY <2>1, <2>3, <2>5
    <2> QED
      BY <2>1, <2>2, <2>4, <2>6, Rebalanced
  <1>6. Fingerprints' = Fingerprints
    BY DEF Fingerprints, Fingerprint, ReceivedRow
  <1>7. RowsAccounted'
    BY DEF BookInv, RowsAccounted, Came, NoRow
  <1> QED
    BY <1>2, <1>3, <1>4, <1>5, <1>6, <1>7 DEF BookInv

LEMMA BooksInitially == SmsInit => BookInv
  <1> SUFFICES ASSUME SmsInit PROVE BookInv
    OBVIOUS
  <1>1. RowsAccounted /\ PassAccounted /\ WorkApart
    BY DEF SmsInit, RowsAccounted, PassAccounted, WorkApart, Apart, UsedIn, ToSet
  <1>2. QueueAccounted
    <2>1. KeptRows = {}
      BY DEF SmsInit, KeptRows
    <2> QED
      BY <2>1, FS_EmptySet DEF SmsInit, QueueAccounted
  <1>3. \A m \in M : OnceEach(ledger[m])
    BY DEF SmsInit, OnceEach
  <1>4. ASSUME NEW fp \in Fingerprints PROVE Balanced(fp)
    <2>1. KeptAs(fp) = {} /\ EnteredOf(fp) = {} /\ TodoOf(fp) = {} /\ Delivered(fp) = {}
      BY DEF SmsInit, KeptAs, EnteredOf, TodoOf, Delivered
    <2>2. Cardinality({}) = 0
      BY FS_EmptySet
    <2>3. Entries(fp) = 0
      <3>1. fp[1].to \in M
        BY FingerprintFacts
      <3>2. ledger[fp[1].to] = <<>>
        BY <3>1 DEF SmsInit
      <3> QED
        BY <3>2 DEF Entries, CopiesOf
    <2> QED
      BY <2>1, <2>2, <2>3 DEF Balanced
  <1> QED
    BY <1>1, <1>2, <1>3, <1>4 DEF BookInv

LEMMA BooksGivenUp ==
  ASSUME SmsWorkInv, BookInv, ProbeFails \/ ReadFails \/ StatementFails PROVE BookInv'
  <1>1. EndPass /\ UNCHANGED <<netVars, keptVars, forgotten>>
    BY DEF ProbeFails, ReadFails, StatementFails, Abort
  <1>2. SmsWorkInv'
    BY PassGivenUp
  <1>3. RowsAccounted'
    BY <1>1 DEF netVars, BookInv, RowsAccounted, Came, NoRow
  <1> QED
    BY <1>1, <1>2, <1>3, BooksClosed DEF EndPass, netVars, keptVars

LEMMA BooksAtRestart == SmsWorkInv /\ BookInv /\ Restart => BookInv'
  <1> SUFFICES ASSUME SmsWorkInv, BookInv, Restart PROVE BookInv'
    OBVIOUS
  <1>1. SmsWorkInv'
    BY ProcessRestarts
  <1>2. RowsAccounted'
    BY DEF Restart, netVars, BookInv, RowsAccounted, Came, NoRow
  <1> QED
    BY <1>1, <1>2, BooksClosed DEF Restart, netVars, keptVars

LEMMA BooksAtTick == SmsWorkInv /\ BookInv /\ Tick => BookInv'
  <1> SUFFICES ASSUME SmsWorkInv, BookInv, Tick PROVE BookInv'
    OBVIOUS
  <1>1. SmsWorkInv'
    BY ClockTicks
  <1>2. RowsAccounted'
    BY DEF Tick, netVars, BookInv, RowsAccounted, Came, NoRow
  <1> QED
    BY <1>1, <1>2, BooksStay DEF Tick, netVars, passVars, keptVars, histVars

LEMMA BooksWhenKeptLocally == SmsWorkInv /\ BookInv /\ KeepLocal => BookInv'
  <1> SUFFICES ASSUME SmsWorkInv, BookInv, KeepLocal PROVE BookInv'
    OBVIOUS
  <1>1. SmsWorkInv'
    BY MessageKeptLocally
  <1>2. RowsAccounted'
    BY DEF KeepLocal, netVars, BookInv, RowsAccounted, Came, NoRow
  <1> QED
    BY <1>1, <1>2, BooksStay DEF KeepLocal, netVars, passVars, histVars

LEMMA BooksAtArrival ==
  ASSUME SmsWorkInv, BookInv, NEW x \in Arrivals, NEW i \in Index, Arrive(x, i)
  PROVE  BookInv'
  <1>1. SmsWorkInv'
    BY FragmentArrives
  <1>2. PICK m \in M : m = Part[x].to
    BY SmsBounds
  <1>3. PICK stamp : stamp = IF x \in Unstamped THEN NoStamp ELSE now
    OBVIOUS
  <1>4. PICK row : row = [a |-> x, at |-> stamp]
    OBVIOUS
  <1>5. slots' = [slots EXCEPT ![m][i] = row] /\ x \in pending
        /\ arrived' = [b \in DOMAIN arrived \cup {x} |-> IF b = x THEN stamp ELSE arrived[b]]
    BY <1>2, <1>3, <1>4 DEF Arrive
  <1>6. x \notin DOMAIN arrived
    BY <1>5 DEF SmsWorkInv, SmsTypes
  <1>7. /\ DOMAIN arrived' = DOMAIN arrived \cup {x} /\ arrived'[x] = stamp
        /\ \A b \in DOMAIN arrived : arrived'[b] = arrived[b]
    BY <1>5, <1>6
  <1>8. /\ slots'[m][i] = row
        /\ \A n \in M, j \in Index : (n # m \/ j # i) => slots'[n][j] = slots[n][j]
    <2>1. slots \in [M -> [Index -> ReceivedRow \cup {NoRow}]]
      BY DEF SmsWorkInv, SmsTypes
    <2> QED
      BY <1>5, <2>1
  <1>9. \A n \in M, j \in Index :
           slots[n][j] # NoRow => /\ slots[n][j].a \in DOMAIN arrived' /\ Part[slots[n][j].a].to = n
                                  /\ slots[n][j].at = arrived'[slots[n][j].a] /\ slots[n][j].a # x
    BY <1>6, <1>7 DEF BookInv, RowsAccounted, Came
  <1>10. Came(m, row)' /\ row.a = x
    BY <1>2, <1>4, <1>7 DEF Came
  <1>11. RowsAccounted'
    <2> SUFFICES ASSUME NEW n \in M, NEW j \in Index, slots'[n][j] # NoRow
                 PROVE  /\ Came(n, slots[n][j])'
                        /\ \A k \in Index : slots'[n][k] # NoRow /\ slots'[n][k].a = slots'[n][j].a => k = j
      BY DEF RowsAccounted, NoRow
    <2>1. CASE n = m /\ j = i
      BY <1>8, <1>9, <1>10, <2>1 DEF Came
    <2>2. CASE ~(n = m /\ j = i)
      <3>1. slots'[n][j] = slots[n][j]
        BY <1>8, <2>2
      <3>2. Came(n, slots[n][j])'
        BY <1>9, <3>1 DEF Came
      <3>3. ASSUME NEW k \in Index, slots'[n][k] # NoRow, slots'[n][k].a = slots'[n][j].a PROVE k = j
        <4>1. CASE n = m /\ k = i
          BY <1>8, <1>9, <1>10, <3>1, <3>3, <4>1
        <4>2. CASE ~(n = m /\ k = i)
          <5>1. slots'[n][k] = slots[n][k]
            BY <1>8, <4>2
          <5> QED
            BY <3>1, <3>3, <5>1 DEF BookInv, RowsAccounted
        <4> QED
          BY <4>1, <4>2
      <3> QED
        BY <3>2, <3>3
    <2> QED
      BY <2>1, <2>2
  <1>12. UNCHANGED <<turn, pc, passVars, keptVars, histVars>>
    BY DEF Arrive
  <1> QED
    BY <1>1, <1>7, <1>11, <1>12, BooksStay DEF passVars, keptVars, histVars

LEMMA BooksAtConsole ==
  ASSUME SmsWorkInv, BookInv, NEW m \in M, NEW i \in Index, ConsoleReads(m, i) \/ ConsoleDeletes(m, i)
  PROVE  BookInv'
  <1>1. SmsWorkInv'
    BY ConsoleLooks, ConsoleEmpties
  <1>2. UNCHANGED <<arrived, turn, pc, passVars, keptVars, exposed, forgotten>>
    BY DEF ConsoleReads, ConsoleDeletes, histVars
  <1>3. \A n \in M, j \in Index : slots'[n][j] = NoRow \/ slots'[n][j] = slots[n][j]
    <2>1. slots' = slots \/ slots' = [slots EXCEPT ![m][i] = NoRow]
      BY DEF ConsoleReads, ConsoleDeletes
    <2>2. slots \in [M -> [Index -> ReceivedRow \cup {NoRow}]]
      BY DEF SmsWorkInv, SmsTypes
    <2> QED
      BY <2>1, <2>2
  <1>4. RowsAccounted'
    BY <1>2, <1>3, RowsThinned DEF BookInv
  <1> QED
    BY <1>1, <1>2, <1>4, BooksStay DEF passVars, keptVars

LEMMA BooksAtListing == SmsWorkInv /\ BookInv /\ (ListQmi \/ ListAt) => BookInv'
  <1> SUFFICES ASSUME SmsWorkInv, BookInv, ListQmi \/ ListAt PROVE BookInv'
    OBVIOUS
  <1>1. SmsWorkInv'
    BY QmiListed, AtListed
  <1>2. UNCHANGED <<netVars, keptVars, forgotten>> /\ pc = "next"
    BY DEF ListQmi, ListAt, histVars
  <1>3. CASE ListAt /\ Received = {}
    <2>1. EndPass
      BY <1>3 DEF ListAt
    <2>2. RowsAccounted'
      BY <1>2 DEF netVars, BookInv, RowsAccounted, Came, NoRow
    <2> QED
      BY <1>1, <1>2, <2>1, <2>2, BooksClosed DEF EndPass, netVars, keptVars
  <1>4. CASE ListQmi \/ (ListAt /\ Received # {})
    <2>1. PICK order \in Seq(Received) : /\ \A j, k \in DOMAIN order : j # k => order[j] # order[k]
                                         /\ pass' = RowsAt(order)
      BY <1>4, ListedOrder
    <2>2. UNCHANGED <<ready, fps, exposed, turn>> /\ pc' = "listed"
      BY <1>4 DEF ListQmi, ListAt, histVars
    <2>3. DOMAIN pass' = DOMAIN order /\ \A p \in DOMAIN order : pass'[p].row = slots[turn][order[p]]
      BY <2>1 DEF RowsAt
    <2>4. \A p \in DOMAIN order : order[p] \in Index /\ slots[turn][order[p]] # NoRow
      BY <2>1 DEF Received, IsReceived
    <2>5. turn \in M
      BY DEF SmsWorkInv, SmsTypes
    <2>6. \A p \in DOMAIN order : Came(turn, slots[turn][order[p]])
      BY <2>4, <2>5 DEF BookInv, RowsAccounted
    <2>7. \A p, q \in DOMAIN order : slots[turn][order[p]].a = slots[turn][order[q]].a => p = q
      <3>1. \A p, q \in DOMAIN order : slots[turn][order[p]].a = slots[turn][order[q]].a => order[p] = order[q]
        BY <2>4, <2>5 DEF BookInv, RowsAccounted
      <3> QED
        BY <2>1, <3>1
    <2>8. PassAccounted'
      BY <1>2, <2>2, <2>3, <2>6, <2>7 DEF PassAccounted, Came, netVars
    <2> QED
      BY <1>1, <1>2, <2>2, <2>8, BooksOpened DEF netVars, keptVars
  <1> QED
    BY <1>3, <1>4

\* Rows are only taken off.
LEMMA TakeOffThins ==
  ASSUME SmsTypes, NEW D, TakeOff(D)
  PROVE  \A m \in M, i \in Index : slots'[m][i] = NoRow \/ slots'[m][i] = slots[m][i]
  <1>1. PICK indexes : slots' = [slots EXCEPT ![turn] = [i \in Index |-> IF i \in indexes THEN NoRow ELSE slots[turn][i]]]
    BY DEF TakeOff, SmsTypes
  <1>2. slots \in [M -> [Index -> ReceivedRow \cup {NoRow}]] /\ turn \in M
    BY DEF SmsTypes
  <1> QED
    BY <1>1, <1>2

LEMMA BooksAtDeletion == SmsWorkInv /\ BookInv /\ DeleteRows => BookInv'
  <1> SUFFICES ASSUME SmsWorkInv, BookInv, DeleteRows PROVE BookInv'
    OBVIOUS
  <1>1. SmsWorkInv'
    BY RowsDeleted
  <1>2. EndPass /\ UNCHANGED <<arrived, keptVars, forgotten>>
    BY DEF DeleteRows
  <1>3. PICK D : TakeOff(D)
    BY DEF DeleteRows
  <1>4. RowsAccounted'
    BY <1>2, <1>3, TakeOffThins, RowsThinned DEF BookInv, SmsWorkInv
  <1> QED
    BY <1>1, <1>2, <1>4, BooksClosed DEF EndPass, keptVars

-----------------------------------------------------------------------------
(* The books through a pass *)

\* What is not ours already is met, with a fingerprint, no more often than the
\* ledger leaves room for.
LEMMA RoomForNew ==
  ASSUME SmsWorkInv, BookInv, NEW fp \in Fingerprints, NEW T,
         T \subseteq {p \in DOMAIN pass : Fingerprint(pass[p].row) = fp /\ ~SeenBefore(p)}, T # {}
  PROVE  IsFiniteSet(T) /\ Entries(fp) + Cardinality(T) <= Cardinality(Delivered(fp))
  <1>1. PICK n \in Nat : DOMAIN pass = 1 .. n
    BY DEF SmsWorkInv, PassOK
  <1>2. PICK Q \in SUBSET DOMAIN pass : Q = {p \in DOMAIN pass : Fingerprint(pass[p].row) = fp}
    OBVIOUS
  <1>3. PICK N \in SUBSET Q : N = {p \in Q : ~SeenBefore(p)}
    OBVIOUS
  <1>4. IsFiniteSet(Q) /\ Q \in SUBSET Nat
    <2>1. IsFiniteSet(1 .. n) /\ Q \in SUBSET (1 .. n)
      BY <1>1, FS_Interval
    <2> QED
      BY <2>1, FS_Subset
  <1>5. T \in SUBSET N /\ N # {}
    BY <1>2, <1>3
  <1>6. fp[1].to = turn
    <2>1. PICK p \in DOMAIN pass : Fingerprint(pass[p].row) = fp
      BY <1>2, <1>5
    <2> QED
      BY <2>1, ListedDelivered
  <1>7. PICK c \in Nat : c = Entries(fp)
    BY BookFacts
  <1>8. c = Copies(fp)
    BY <1>6, <1>7 DEF Entries, CopiesOf, Copies
  <1>9. ASSUME NEW p \in Q PROVE p \in N <=> ~(Cardinality({q \in Q : q <= p}) <= c)
    <2>1. {q \in 1 .. p : Fingerprint(pass[q].row) = fp} = {q \in Q : q <= p}
      <3>1. p \in 1 .. n
        BY <1>1, <1>2
      <3>2. \A q : q \in 1 .. p <=> q \in 1 .. n /\ q <= p
        BY <3>1
      <3> QED
        BY <1>1, <1>2, <3>2
    <2>2. Fingerprint(pass[p].row) = fp
      BY <1>2
    <2>3. SeenBefore(p) <=> Cardinality({q \in Q : q <= p}) <= c
      BY <1>8, <2>1, <2>2 DEF SeenBefore
    <2> QED
      BY <1>3, <2>3
  <1>10. c + Cardinality(N) <= Cardinality(Q)
    BY <1>4, <1>5, <1>9, RankRoom
  <1>11. PICK D : D = Delivered(fp) /\ IsFiniteSet(D)
    BY BookFacts
  <1>12. Cardinality(Q) <= Cardinality(D)
    <2> DEFINE f == [p \in Q |-> pass[p].row.a]
    <2>1. f \in [Q -> D]
      <3>1. \A p \in Q : pass[p].row.a \in D
        BY <1>2, <1>11, ListedDelivered
      <3> QED
        BY <3>1
    <2>2. \A x, y \in Q : f[x] = f[y] => x = y
      BY <1>2 DEF BookInv, PassAccounted
    <2> HIDE DEF f
    <2> QED
      BY <1>11, <2>1, <2>2, OneToOneCount
  <1>13. IsFiniteSet(N) /\ IsFiniteSet(T) /\ Cardinality(T) <= Cardinality(N)
    BY <1>4, <1>5, FS_Subset
  <1>14. Cardinality(N) \in Nat /\ Cardinality(T) \in Nat /\ Cardinality(Q) \in Nat /\ Cardinality(D) \in Nat
    BY <1>4, <1>11, <1>13, FS_CardinalityType
  <1> QED
    BY <1>7, <1>10, <1>11, <1>12, <1>13, <1>14

LEMMA BooksAtSettling == SmsWorkInv /\ BookInv /\ Settle => BookInv'
  <1> SUFFICES ASSUME SmsWorkInv, BookInv, Settle PROVE BookInv'
    OBVIOUS
  <1>1. SmsWorkInv'
    BY InboundSettled
  <1>2. PICK P \in SUBSET DOMAIN pass : P = DOMAIN pass \ {p \in DOMAIN pass : SeenBefore(p)}
    OBVIOUS
  <1>3. /\ UNCHANGED <<arrived, turn, pass, fps, keptVars, exposed, forgotten>>
        /\ pc = "listed" /\ pc' = "keep" /\ ready' = Assemble(P)
    BY <1>2 DEF Settle
  <1>4. fps = <<>> /\ ToSet(fps) = {}
    BY <1>3 DEF SmsWorkInv, PassWork, ToSet
  <1>5. Apart(ready') /\ \A p : UsedIn(ready', p) => p \in P
    <2>1. Apart(Assemble(P)) /\ \A p : UsedIn(Assemble(P), p) => p \in P
      BY AssembleApart DEF SmsWorkInv
    <2> QED
      BY <1>3, <2>1, Zenon
  <1>6. WorkApart'
    BY <1>3, <1>4, <1>5 DEF WorkApart, Apart, UsedIn, ToSet
  <1>7. RowsAccounted'
    <2>1. slots' = slots \/ \E D : TakeOff(D)
      BY DEF Settle
    <2>2. \A m \in M, i \in Index : slots'[m][i] = NoRow \/ slots'[m][i] = slots[m][i]
      BY <2>1, TakeOffThins DEF SmsWorkInv
    <2> QED
      BY <1>3, <2>2, RowsThinned DEF BookInv
  <1>8. PassAccounted'
    BY <1>3 DEF BookInv, PassAccounted, Came
  <1>9. QueueAccounted' /\ \A m \in M : OnceEach(ledger[m])'
    BY <1>3 DEF BookInv, QueueAccounted, KeptRows, ReceivedRow, OnceEach, keptVars
  <1>10. ASSUME NEW fp \in Fingerprints PROVE Balanced(fp)'
    <2>1. KeptAs(fp)' = KeptAs(fp) /\ Entries(fp)' = Entries(fp) /\ Delivered(fp)' = Delivered(fp)
      BY <1>3 DEF KeptAs, Entries, CopiesOf, Fingerprint, Delivered, keptVars
    <2>2. EnteredOf(fp)' = EnteredOf(fp)
      BY <1>3 DEF EnteredOf, Fingerprint, ToSet
    <2>3. Clean(fp)' => Clean(fp)
      BY <1>3, <2>1 DEF Clean
    <2>4. Entries(fp) \in Nat /\ Cardinality(EnteredOf(fp)) \in Nat /\ IsFiniteSet(Delivered(fp))
      BY BookFacts
    <2>5. /\ Entries(fp) + Cardinality(EnteredOf(fp)) <= Entries(fp)' + Cardinality(EnteredOf(fp)')
          /\ Entries(fp)' \in Nat /\ Cardinality(EnteredOf(fp)') \in Nat /\ IsFiniteSet(Delivered(fp)')
          /\ Delivered(fp) \subseteq Delivered(fp)'
      BY <2>1, <2>2, <2>4
    <2>6. PICK T : T = TodoOf(fp)'
      OBVIOUS
    <2>7. T \subseteq {p \in DOMAIN pass : Fingerprint(pass[p].row) = fp /\ ~SeenBefore(p)}
      <3>1. \A p \in T : p \in DOMAIN pass /\ Fingerprint(pass[p].row) = fp /\ UsedIn(ready', p)
        BY <1>3, <1>4, <2>6 DEF TodoOf, Fingerprint, ToSet, UsedIn
      <3> QED
        BY <1>2, <1>5, <3>1
    <2>8. T # {} => Entries(fp) + Cardinality(T) <= Cardinality(Delivered(fp))
      BY <2>7, RoomForNew
    <2>9. TodoOf(fp)' # {} => Entries(fp)' + Cardinality(TodoOf(fp)') <= Cardinality(Delivered(fp)')
      BY <2>1, <2>6, <2>8
    <2> QED
      BY <2>1, <2>3, <2>5, <2>9, Rebalanced
  <1>11. Fingerprints' = Fingerprints
    BY DEF Fingerprints, Fingerprint, ReceivedRow
  <1> QED
    BY <1>6, <1>7, <1>8, <1>9, <1>10, <1>11 DEF BookInv

LEMMA BooksAtRecording == SmsWorkInv /\ BookInv /\ RecordIngested => BookInv'
  <1> SUFFICES ASSUME SmsWorkInv, BookInv, RecordIngested PROVE BookInv'
    OBVIOUS
  <1>1. SmsWorkInv'
    BY FragmentsRecorded
  <1>2. /\ UNCHANGED <<netVars, turn, pass, ready, queued, histVars>>
        /\ ready = <<>> /\ pc' = "prune" /\ fps' = <<>>
    BY DEF RecordIngested
  <1>3. PICK u : u = [k \in DOMAIN fps |-> Fingerprint(pass[fps[k]].row)]
    OBVIOUS
  <1>4. PICK n \in Nat : DOMAIN fps = 1 .. n
    BY DEF SmsWorkInv, PassWork
  <1>5. Len(u) = n
    BY <1>3, <1>4
  <1>6. \A k \in 1 .. n : /\ fps[k] \in DOMAIN pass /\ fps[k] \in ToSet(fps)
                          /\ u[k] = Fingerprint(pass[fps[k]].row)
    BY <1>3, <1>4 DEF SmsWorkInv, PassWork, ToSet
  <1>7. \A k \in 1 .. n : u[k] \in {Fingerprint(r) : r \in ReceivedRow} /\ IsQueued(u[k])
    <2> SUFFICES ASSUME NEW k \in 1 .. n
                 PROVE  u[k] \in {Fingerprint(r) : r \in ReceivedRow} /\ IsQueued(u[k])
      OBVIOUS
    <2>1. pass[fps[k]] \in Entry
      BY <1>6 DEF SmsWorkInv, PassOK
    <2>2. pass[fps[k]].row \in ReceivedRow
      BY <2>1 DEF Entry
    <2> QED
      BY <1>6, <2>2 DEF SmsWorkInv, PassWork
  <1>8. turn \in M /\ ledger \in [M -> Seq(QueuedRow)] /\ t \in Int
    BY SmsBounds DEF SmsWorkInv, SmsTypes
  <1>9. PICK table \in Seq(QueuedRow) : table = ledger[turn] /\ OnceEach(table)
    BY <1>8 DEF BookInv
  <1>10. ledger' = [ledger EXCEPT ![turn] = RecordAll(table, u)]
    BY <1>3, <1>9 DEF RecordIngested
  <1>11. ledger'[turn] = RecordAll(table, u) /\ \A m \in M \ {turn} : ledger'[m] = ledger[m]
    BY <1>8, <1>10
  <1>12. ASSUME NEW fp
         PROVE  /\ OnceEach(RecordAll(table, u))
                /\ CopiesOf(RecordAll(table, u), fp)
                      = CopiesOf(table, fp) + Cardinality({k \in 1 .. n : u[k] = fp})
    BY <1>5, <1>7, <1>8, <1>9, RecordAllCounts
  <1>13. \A m \in M : OnceEach(ledger[m])'
    <2> SUFFICES ASSUME NEW m \in M PROVE OnceEach(ledger'[m])
      BY DEF OnceEach
    <2>1. CASE m = turn
      BY <1>11, <1>12, <2>1, Zenon
    <2>2. CASE m # turn
      <3>1. ledger'[m] = ledger[m] /\ OnceEach(ledger[m])
        BY <1>11, <2>2 DEF BookInv
      <3> QED
        BY <3>1, Zenon
    <2> QED
      BY <2>1, <2>2
  <1>14. WorkApart'
    BY <1>2 DEF WorkApart, Apart, UsedIn, ToSet
  <1>15. RowsAccounted' /\ PassAccounted'
    BY <1>2 DEF BookInv, RowsAccounted, PassAccounted, Came, NoRow, netVars
  <1>16. QueueAccounted'
    BY <1>2 DEF BookInv, QueueAccounted, KeptRows, ReceivedRow
  <1>17. ASSUME NEW fp \in Fingerprints PROVE Balanced(fp)'
    <2>1. KeptAs(fp)' = KeptAs(fp) /\ Delivered(fp)' = Delivered(fp)
      BY <1>2 DEF KeptAs, Fingerprint, Delivered, netVars
    <2>2. EnteredOf(fp)' = {} /\ TodoOf(fp)' = {}
      BY <1>2 DEF EnteredOf, TodoOf, ToSet, UsedIn
    <2>3. Cardinality(EnteredOf(fp)') = 0
      BY <2>2, FS_EmptySet
    <2>4. Clean(fp)' => Clean(fp)
      BY <1>2, <2>1 DEF Clean, histVars
    <2>5. Entries(fp) \in Nat /\ Cardinality(EnteredOf(fp)) \in Nat /\ IsFiniteSet(Delivered(fp))
      BY BookFacts
    <2>6. Entries(fp)' = CopiesOf(ledger'[fp[1].to], fp)
      BY DEF Entries, CopiesOf
    <2>7. Entries(fp)' \in Nat /\ Entries(fp) + Cardinality(EnteredOf(fp)) <= Entries(fp)'
      <3>1. CASE fp[1].to = turn
        <4>1. PICK S : S = {k \in 1 .. n : u[k] = fp}
          OBVIOUS
        <4>2. IsFiniteSet(S)
          <5>1. IsFiniteSet(1 .. n) /\ S \in SUBSET (1 .. n)
            BY <4>1, FS_Interval
          <5> QED
            BY <5>1, FS_Subset
        <4>3. PICK E : E = EnteredOf(fp)
          OBVIOUS
        <4>4. Cardinality(E) <= Cardinality(S)
          <5> DEFINE f == [k \in S |-> fps[k]]
          <5>1. f \in [S -> E]
            <6>1. \A k \in S : fps[k] \in E
              BY <1>6, <4>1, <4>3 DEF EnteredOf
            <6> QED
              BY <6>1
          <5>2. \A y \in E : \E x \in S : f[x] = y
            <6> SUFFICES ASSUME NEW y \in E PROVE \E x \in S : f[x] = y
              OBVIOUS
            <6>1. y \in ToSet(fps) /\ Fingerprint(pass[y].row) = fp
              BY <4>3 DEF EnteredOf
            <6>2. PICK k \in 1 .. n : fps[k] = y
              BY <1>4, <6>1 DEF ToSet
            <6>3. k \in S
              BY <1>6, <4>1, <6>1, <6>2
            <6> QED
              BY <6>2, <6>3
          <5> HIDE DEF f
          <5> QED
            BY <4>2, <5>1, <5>2, ImageCount
        <4>5. Entries(fp)' = Entries(fp) + Cardinality(S)
          <5>1. Entries(fp) = CopiesOf(table, fp)
            BY <1>9, <3>1 DEF Entries
          <5>2. Entries(fp)' = CopiesOf(RecordAll(table, u), fp)
            BY <1>11, <2>6, <3>1
          <5> QED
            BY <1>12, <4>1, <5>1, <5>2
        <4>6. Cardinality(S) \in Nat
          BY <4>2, FS_CardinalityType
        <4> QED
          BY <2>5, <4>3, <4>4, <4>5, <4>6
      <3>2. CASE fp[1].to # turn
        <4>1. EnteredOf(fp) = {}
          BY <3>2, ListedDelivered DEF EnteredOf
        <4>2. Cardinality(EnteredOf(fp)) = 0
          BY <4>1, FS_EmptySet
        <4>3. fp[1].to \in M
          BY FingerprintFacts
        <4>4. Entries(fp)' = Entries(fp)
          BY <1>11, <2>6, <3>2, <4>3 DEF Entries
        <4> QED
          BY <2>5, <4>2, <4>4
      <3> QED
        BY <3>1, <3>2
    <2>8. /\ Entries(fp) + Cardinality(EnteredOf(fp)) <= Entries(fp)' + Cardinality(EnteredOf(fp)')
          /\ Cardinality(EnteredOf(fp)') \in Nat /\ IsFiniteSet(Delivered(fp)')
          /\ Delivered(fp) \subseteq Delivered(fp)'
      BY <2>1, <2>3, <2>5, <2>7
    <2> QED
      BY <2>1, <2>2, <2>4, <2>7, <2>8, Rebalanced
  <1>18. Fingerprints' = Fingerprints
    BY DEF Fingerprints, Fingerprint, ReceivedRow
  <1> QED
    BY <1>13, <1>14, <1>15, <1>16, <1>17, <1>18 DEF BookInv

\* The first message and the others have no position in common.
PartedInto(ms, u, rest) ==
    /\ Apart(rest)
    /\ \A x, y \in DOMAIN u : u[x] = u[y] => x = y
    /\ \A x \in DOMAIN u : ~UsedIn(rest, u[x])
    /\ \A p : UsedIn(ms, p) <=> (\E x \in DOMAIN u : u[x] = p) \/ UsedIn(rest, p)

LEMMA FirstAndRest ==
  ASSUME NEW X, NEW ms \in Seq(X), ms # <<>>, Apart(ms)
  PROVE  PartedInto(ms, Head(ms).sources, Tail(ms))
  <1>1. PICK n \in Nat \ {0} : DOMAIN ms = 1 .. n /\ Len(ms) = n
    OBVIOUS
  <1>2. PICK h : h = Head(ms) /\ h = ms[1]
    BY <1>1
  <1>3. PICK w : w = Tail(ms)
    OBVIOUS
  <1>4. DOMAIN w = 1 .. n - 1
    BY <1>1, <1>3
  <1>5. \A i \in DOMAIN w : w[i] = ms[i + 1] /\ i + 1 \in DOMAIN ms /\ i + 1 # 1
    BY <1>1, <1>3, <1>4
  <1>6. \A i, j \in DOMAIN w : i + 1 = j + 1 => i = j
    BY <1>4
  <1>7. 1 \in DOMAIN ms /\ \A i \in DOMAIN ms : i = 1 \/ \E j \in DOMAIN w : ms[i] = w[j]
    <2>1. 1 \in DOMAIN ms
      BY <1>1
    <2>2. ASSUME NEW i \in DOMAIN ms, i # 1 PROVE \E j \in DOMAIN w : ms[i] = w[j]
      <3>1. i - 1 \in DOMAIN w /\ i - 1 + 1 = i
        BY <1>1, <1>4, <2>2
      <3>2. w[i - 1] = ms[i]
        BY <1>5, <3>1
      <3> QED
        BY <3>1, <3>2
    <2> QED
      BY <2>1, <2>2
  <1>8. Apart(w)
    <2> SUFFICES ASSUME NEW i \in DOMAIN w, NEW j \in DOMAIN w,
                        NEW x \in DOMAIN w[i].sources, NEW y \in DOMAIN w[j].sources,
                        w[i].sources[x] = w[j].sources[y]
                 PROVE  i = j /\ x = y
      BY DEF Apart
    <2>1. PICK i1 \in DOMAIN ms : w[i] = ms[i1] /\ i1 = i + 1
      BY <1>5
    <2>2. PICK j1 \in DOMAIN ms : w[j] = ms[j1] /\ j1 = j + 1
      BY <1>5
    <2>3. i1 = j1 /\ x = y
      BY <2>1, <2>2 DEF Apart
    <2> QED
      BY <1>6, <2>1, <2>2, <2>3
  <1>9. \A x, y \in DOMAIN h.sources : h.sources[x] = h.sources[y] => x = y
    BY <1>2, <1>7 DEF Apart
  <1>10. \A x \in DOMAIN h.sources : ~UsedIn(w, h.sources[x])
    <2> SUFFICES ASSUME NEW x \in DOMAIN h.sources, UsedIn(w, h.sources[x]) PROVE FALSE
      OBVIOUS
    <2>1. PICK i \in DOMAIN w : \E y \in DOMAIN w[i].sources : w[i].sources[y] = h.sources[x]
      BY DEF UsedIn
    <2>2. PICK i1 \in DOMAIN ms : w[i] = ms[i1] /\ i1 # 1
      BY <1>5
    <2> QED
      BY <1>2, <1>7, <2>1, <2>2 DEF Apart
  <1>11. ASSUME NEW p
         PROVE  UsedIn(ms, p) <=> (\E x \in DOMAIN h.sources : h.sources[x] = p) \/ UsedIn(w, p)
    <2>1. UsedIn(w, p) => UsedIn(ms, p)
      <3> SUFFICES ASSUME UsedIn(w, p) PROVE UsedIn(ms, p)
        OBVIOUS
      <3>1. PICK i \in DOMAIN w : \E x \in DOMAIN w[i].sources : w[i].sources[x] = p
        BY DEF UsedIn
      <3>2. PICK i1 \in DOMAIN ms : w[i] = ms[i1]
        BY <1>5
      <3> QED
        BY <3>1, <3>2 DEF UsedIn
    <2>2. (\E x \in DOMAIN h.sources : h.sources[x] = p) => UsedIn(ms, p)
      BY <1>2, <1>7 DEF UsedIn
    <2>3. UsedIn(ms, p) => (\E x \in DOMAIN h.sources : h.sources[x] = p) \/ UsedIn(w, p)
      <3> SUFFICES ASSUME UsedIn(ms, p) PROVE (\E x \in DOMAIN h.sources : h.sources[x] = p) \/ UsedIn(w, p)
        OBVIOUS
      <3>1. PICK i \in DOMAIN ms : \E x \in DOMAIN ms[i].sources : ms[i].sources[x] = p
        BY DEF UsedIn
      <3>2. CASE i = 1
        BY <1>2, <3>1, <3>2
      <3>3. CASE i # 1
        <4>1. PICK j \in DOMAIN w : ms[i] = w[j]
          BY <1>7, <3>3
        <4> QED
          BY <3>1, <4>1 DEF UsedIn
      <3> QED
        BY <3>2, <3>3
    <2> QED
      BY <2>1, <2>2, <2>3
  <1>12. PartedInto(ms, h.sources, w)
    BY <1>8, <1>9, <1>10, <1>11 DEF PartedInto
  <1> QED
    BY <1>2, <1>3, <1>12

LEMMA JoinedIs ==
  ASSUME NEW X, NEW u \in Seq(X), NEW v \in Seq(X)
  PROVE  ToSet(u \o v) = ToSet(u) \cup ToSet(v)
  <1>1. PICK n \in Nat : Len(u) = n /\ DOMAIN u = 1 .. n
    OBVIOUS
  <1>2. PICK l \in Nat : Len(v) = l /\ DOMAIN v = 1 .. l
    OBVIOUS
  <1>3. PICK w : w = u \o v
    OBVIOUS
  <1>4. DOMAIN w = 1 .. n + l
    <2>1. w \in Seq(X) /\ Len(w) = Len(u) + Len(v)
      BY <1>3
    <2> QED
      BY <1>1, <1>2, <2>1
  <1>5. \A i \in 1 .. n : w[i] = u[i] /\ i \in DOMAIN w
    BY <1>1, <1>2, <1>3, <1>4
  <1>6. \A i \in 1 .. l : w[i + n] = v[i] /\ i + n \in DOMAIN w
    BY <1>1, <1>2, <1>3, <1>4
  <1>7. ToSet(u) \cup ToSet(v) \subseteq ToSet(w)
    BY <1>1, <1>2, <1>5, <1>6 DEF ToSet
  <1> QED
    BY <1>3, <1>7, JoinedSet

\* A union counts no more than its parts.
LEMMA UnionBound ==
  ASSUME NEW A, NEW B, IsFiniteSet(A), IsFiniteSet(B)
  PROVE  IsFiniteSet(A \cup B) /\ Cardinality(A \cup B) <= Cardinality(A) + Cardinality(B)
  <1>1. IsFiniteSet(A \cap B)
    <2>1. A \cap B \in SUBSET A
      OBVIOUS
    <2> QED
      BY <2>1, FS_Subset
  <1>2. Cardinality(A) \in Nat /\ Cardinality(B) \in Nat /\ Cardinality(A \cap B) \in Nat
    BY <1>1, FS_CardinalityType
  <1>3. IsFiniteSet(A \cup B)
        /\ Cardinality(A \cup B) = Cardinality(A) + Cardinality(B) - Cardinality(A \cap B)
    BY FS_Union
  <1> QED
    BY <1>2, <1>3

\* The places s of message n, and the positions that are there.
PlacesIn(n, S) == {<<n, s>> : s \in S}
TakenBy(u, S) == {u[s] : s \in S}
AllDistinct(u) == \A x, y \in DOMAIN u : u[x] = u[y] => x = y

\* What a message adds to the queue is no more than the positions it takes.
LEMMA AddedCount ==
  ASSUME NEW P, IsFiniteSet(P), NEW u \in Seq(P), AllDistinct(u), NEW n, NEW S \in SUBSET DOMAIN u
  PROVE  IsFiniteSet(PlacesIn(n, S)) /\ Cardinality(PlacesIn(n, S)) <= Cardinality(TakenBy(u, S))
  <1>1. PICK A : A = PlacesIn(n, S)
    OBVIOUS
  <1>2. PICK B : B = TakenBy(u, S)
    OBVIOUS
  <1>3. IsFiniteSet(B)
    <2>1. B \in SUBSET P
      BY <1>2 DEF TakenBy
    <2> QED
      BY <2>1, FS_Subset
  <1>4. IsFiniteSet(S) /\ Cardinality(S) <= Cardinality(B)
    <2> DEFINE f == [s \in S |-> u[s]]
    <2>1. f \in [S -> B]
      BY <1>2 DEF TakenBy
    <2>2. \A x, y \in S : f[x] = f[y] => x = y
      BY DEF AllDistinct
    <2> HIDE DEF f
    <2> QED
      BY <1>3, <2>1, <2>2, OneToOneCount
  <1>5. IsFiniteSet(A) /\ Cardinality(A) <= Cardinality(S)
    <2> DEFINE f == [s \in S |-> <<n, s>>]
    <2>1. f \in [S -> A]
      BY <1>1 DEF PlacesIn
    <2>2. \A y \in A : \E x \in S : f[x] = y
      BY <1>1 DEF PlacesIn
    <2> HIDE DEF f
    <2> QED
      BY <1>4, <2>1, <2>2, ImageCount
  <1>6. Cardinality(A) \in Nat /\ Cardinality(B) \in Nat /\ Cardinality(S) \in Nat
    BY <1>3, <1>4, <1>5, FS_CardinalityType
  <1> QED
    BY <1>1, <1>2, <1>4, <1>5, <1>6

LEMMA BooksAtQueueing == SmsWorkInv /\ BookInv /\ EnqueueSms => BookInv'
  <1> SUFFICES ASSUME SmsWorkInv, BookInv, EnqueueSms PROVE BookInv'
    OBVIOUS
  <1>1. SmsWorkInv'
    BY MessageQueued
  <1>2. PICK P \in SUBSET DOMAIN pass : ready \in Seq(Message(P))
    BY DEF SmsWorkInv, PassWork
  <1>3. PICK X : X = Message(P)
    OBVIOUS
  <1>4. PICK ms \in Seq(X) : ms = ready /\ ms # <<>> /\ Apart(ms)
    BY <1>2, <1>3 DEF EnqueueSms, SmsWorkInv, PassWork, BookInv, WorkApart
  <1>5. PICK h \in Message(P) : h = Head(ms)
    BY <1>3, <1>4
  <1>6. PICK u \in Seq(DOMAIN pass) : u = h.sources
    BY DEF Message
  <1>7. PICK rest : rest = Tail(ms)
    OBVIOUS
  <1>8. /\ Apart(rest)
        /\ \A x, y \in DOMAIN u : u[x] = u[y] => x = y
        /\ \A x \in DOMAIN u : ~UsedIn(rest, u[x])
        /\ \A p : UsedIn(ms, p) <=> (\E x \in DOMAIN u : u[x] = p) \/ UsedIn(rest, p)
    <2>1. PartedInto(ms, Head(ms).sources, Tail(ms))
      BY <1>4, FirstAndRest
    <2>2. Head(ms).sources = u /\ Tail(ms) = rest
      BY <1>5, <1>6, <1>7
    <2>3. PartedInto(ms, u, rest)
      BY <2>1, <2>2
    <2> QED
      BY <2>3, Zenon DEF PartedInto
  <1>9. \A p : p \in ToSet(u) <=> \E x \in DOMAIN u : u[x] = p
    BY DEF ToSet
  <1>10. PICK n : n = Cardinality(queued) + 1
    OBVIOUS
  <1> DEFINE new == [n |-> n, modem |-> turn, missing |-> h.missing, at |-> t, key |-> LocalSeq,
                     rows |-> [s \in DOMAIN u |-> pass[u[s]].row]]
  <1>11. /\ queued' = queued \cup {new} /\ ready' = rest /\ fps' = fps \o u /\ pc' = "keep"
         /\ UNCHANGED <<netVars, turn, pass, ledger, histVars>>
    BY <1>4, <1>5, <1>6, <1>7, <1>10 DEF EnqueueSms
  <1>12. new.n = n /\ DOMAIN new.rows = DOMAIN u /\ \A s \in DOMAIN u : new.rows[s] = pass[u[s]].row
    OBVIOUS
  <1> HIDE DEF new
  <1>13. PICK v \in Seq(DOMAIN pass) : v = fps
    BY DEF SmsWorkInv, PassWork
  <1>14. ToSet(fps') = ToSet(fps) \cup ToSet(u)
    BY <1>11, <1>13, JoinedIs
  <1>15. \A p \in ToSet(fps) : ~UsedIn(ms, p)
    BY <1>4 DEF BookInv, WorkApart
  <1>16. WorkApart'
    <2>1. Apart(ready') /\ \A p \in ToSet(fps') : ~UsedIn(ready', p)
      <3>1. \A p \in ToSet(fps') : ~UsedIn(rest, p)
        BY <1>8, <1>9, <1>14, <1>15
      <3> QED
        BY <1>8, <1>11, <3>1
    <2> QED
      BY <1>11, <2>1 DEF WorkApart, Apart, UsedIn, ToSet
  <1>17. IsFiniteSet(DOMAIN pass)
    <2>1. DOMAIN pass \in SUBSET DOMAIN pass
      OBVIOUS
    <2> QED
      BY <2>1, PositionFacts DEF SmsWorkInv
  <1>18. QueueAccounted'
    <2>1. \A s \in DOMAIN u : pass[u[s]].row \in ReceivedRow
      <3>1. \A p \in DOMAIN pass : pass[p] \in Entry
        BY DEF SmsWorkInv, PassOK
      <3> QED
        BY <3>1 DEF Entry
    <2>2. PICK A : A = {<<n, s>> : s \in DOMAIN u}
      OBVIOUS
    <2>3. IsFiniteSet(A)
      <3>1. PICK Q : Q = DOMAIN pass
        OBVIOUS
      <3>2. PICK S \in SUBSET DOMAIN u : S = DOMAIN u
        OBVIOUS
      <3>3. u \in Seq(Q) /\ IsFiniteSet(Q)
        BY <1>17, <3>1
      <3>4. AllDistinct(u)
        BY <1>8 DEF AllDistinct
      <3>5. IsFiniteSet(PlacesIn(n, S))
        BY <3>3, <3>4, AddedCount
      <3> QED
        BY <2>2, <3>2, <3>5 DEF PlacesIn
    <2>4. KeptRows' = KeptRows \cup A
      BY <1>11, <1>12, <2>2 DEF KeptRows
    <2>5. PICK K : K = KeptRows /\ IsFiniteSet(K)
      BY DEF BookInv, QueueAccounted
    <2>6. IsFiniteSet(K \cup A)
      BY <2>3, <2>5, UnionBound
    <2>7. \A q \in queued' : \A s \in DOMAIN q.rows : q.rows[s] \in ReceivedRow
      BY <1>11, <1>12, <2>1 DEF BookInv, QueueAccounted
    <2> QED
      BY <2>4, <2>5, <2>6, <2>7 DEF QueueAccounted, ReceivedRow
  <1>19. ASSUME NEW fp \in Fingerprints PROVE Balanced(fp)'
    <2>1. Entries(fp)' = Entries(fp) /\ Delivered(fp)' = Delivered(fp) /\ (Clean(fp)' <=> Clean(fp))
      BY <1>11 DEF Entries, CopiesOf, Delivered, Clean, netVars, histVars
    <2>2. PICK S \in SUBSET DOMAIN u : S = {i \in DOMAIN u : Fingerprint(pass[u[i]].row) = fp}
      OBVIOUS
    <2>3. PICK A : A = {<<n, s>> : s \in S}
      OBVIOUS
    <2>4. PICK N : N = {u[s] : s \in S}
      OBVIOUS
    <2>5. IsFiniteSet(A) /\ Cardinality(A) <= Cardinality(N)
      <3>1. PICK Q : Q = DOMAIN pass
        OBVIOUS
      <3>2. u \in Seq(Q) /\ IsFiniteSet(Q)
        BY <1>17, <3>1
      <3>3. AllDistinct(u)
        BY <1>8 DEF AllDistinct
      <3>4. IsFiniteSet(PlacesIn(n, S)) /\ Cardinality(PlacesIn(n, S)) <= Cardinality(TakenBy(u, S))
        BY <3>2, <3>3, AddedCount
      <3> QED
        BY <2>3, <2>4, <3>4 DEF PlacesIn, TakenBy
    <2>6. PICK K : K = KeptAs(fp) /\ IsFiniteSet(K)
      BY BookFacts
    <2>7. PICK E : E = EnteredOf(fp) /\ IsFiniteSet(E)
      BY BookFacts
    <2>8. PICK T : T = TodoOf(fp) /\ IsFiniteSet(T)
      BY BookFacts
    <2>9. KeptAs(fp)' = K \cup A
      BY <1>11, <1>12, <2>2, <2>3, <2>6 DEF KeptAs, Fingerprint
    <2>10. \A p \in N : p \in DOMAIN pass /\ Fingerprint(pass[p].row) = fp /\ p \in ToSet(u) /\ UsedIn(ms, p)
      BY <1>8, <1>9, <2>2, <2>4
    <2>11. \A p \in ToSet(u) : Fingerprint(pass[p].row) = fp => p \in N
      BY <1>9, <2>2, <2>4
    <2>12. EnteredOf(fp)' = E \cup N
      <3>1. EnteredOf(fp)' = {p \in DOMAIN pass : p \in ToSet(fps') /\ Fingerprint(pass[p].row) = fp}
        BY <1>11 DEF EnteredOf, Fingerprint, ToSet
      <3>2. E = {p \in DOMAIN pass : p \in ToSet(fps) /\ Fingerprint(pass[p].row) = fp}
        BY <2>7 DEF EnteredOf
      <3> QED
        BY <1>14, <2>10, <2>11, <3>1, <3>2
    <2>13. E \cap N = {}
      BY <1>15, <2>7, <2>10 DEF EnteredOf
    <2>14. TodoOf(fp)' = T
      <3>1. TodoOf(fp)' = {p \in DOMAIN pass : (p \in ToSet(fps') \/ UsedIn(rest, p)) /\ Fingerprint(pass[p].row) = fp}
        BY <1>11 DEF TodoOf, Fingerprint, ToSet, UsedIn
      <3>2. T = {p \in DOMAIN pass : (p \in ToSet(fps) \/ UsedIn(ms, p)) /\ Fingerprint(pass[p].row) = fp}
        BY <1>4, <2>8 DEF TodoOf
      <3>3. \A p : (p \in ToSet(fps') \/ UsedIn(rest, p)) <=> (p \in ToSet(fps) \/ UsedIn(ms, p))
        BY <1>8, <1>9, <1>14
      <3> QED
        BY <3>1, <3>2, <3>3
    <2>15. E \cup N \in SUBSET T /\ N \in SUBSET T
      <3>1. E \subseteq T
        BY <2>7, <2>8, BookFacts
      <3>2. N \subseteq T
        BY <1>4, <2>8, <2>10 DEF TodoOf
      <3> QED
        BY <3>1, <3>2
    <2>16. IsFiniteSet(N) /\ Cardinality(E \cup N) <= Cardinality(T)
      BY <2>8, <2>15, FS_Subset
    <2>17. Cardinality(E \cup N) = Cardinality(E) + Cardinality(N)
      BY <2>7, <2>13, <2>16, Disjoint
    <2>18. Cardinality(K \cup A) <= Cardinality(K) + Cardinality(A)
      BY <2>5, <2>6, UnionBound
    <2>19. PICK e \in Nat : e = Entries(fp)
      BY BookFacts
    <2>20. PICK d \in Nat : d = Cardinality(Delivered(fp))
      BY BookFacts
    <2>21. /\ Cardinality(K) \in Nat /\ Cardinality(A) \in Nat /\ Cardinality(E) \in Nat
           /\ Cardinality(N) \in Nat /\ Cardinality(T) \in Nat
      BY <2>5, <2>6, <2>7, <2>8, <2>16, FS_CardinalityType
    <2>22. Cardinality(K \cup A) \in Nat
      BY <2>5, <2>6, UnionBound, FS_CardinalityType
    <2>23. T # {} => e + Cardinality(T) <= d
      BY <2>8, <2>19, <2>20 DEF BookInv, Balanced
    <2>24. ASSUME Clean(fp)
           PROVE  Cardinality(K \cup A) <= e + Cardinality(E \cup N) /\ Cardinality(K \cup A) <= d
      <3>1. Cardinality(K) <= e + Cardinality(E) /\ Cardinality(K) <= d
        BY <2>6, <2>7, <2>19, <2>20, <2>24 DEF BookInv, Balanced
      <3>2. Cardinality(K \cup A) <= e + Cardinality(E \cup N)
        BY <2>5, <2>17, <2>18, <2>21, <2>22, <3>1
      <3>3. CASE S = {}
        <4>1. K \cup A = K
          BY <2>3, <3>3
        <4> QED
          BY <3>1, <3>2, <4>1
      <3>4. CASE S # {}
        <4>1. T # {}
          BY <2>4, <2>15, <3>4
        <4> QED
          BY <2>16, <2>17, <2>21, <2>22, <2>23, <3>2, <4>1
      <3> QED
        BY <3>3, <3>4
    <2> QED
      BY <2>1, <2>9, <2>12, <2>14, <2>19, <2>20, <2>23, <2>24 DEF Balanced
  <1>20. RowsAccounted' /\ PassAccounted' /\ \A m \in M : OnceEach(ledger[m])'
    BY <1>11 DEF BookInv, RowsAccounted, PassAccounted, Came, NoRow, netVars, OnceEach
  <1>21. Fingerprints' = Fingerprints
    BY DEF Fingerprints, Fingerprint, ReceivedRow
  <1> QED
    BY <1>16, <1>18, <1>19, <1>20, <1>21 DEF BookInv

\* What is pruned is forgotten; the rest of the ledger is as it was.
LEMMA BooksAtPruning == SmsWorkInv /\ BookInv /\ Prune => BookInv'
  <1> SUFFICES ASSUME SmsWorkInv, BookInv, Prune PROVE BookInv'
    OBVIOUS
  <1>1. SmsWorkInv'
    BY LedgerPruned
  <1>2. UNCHANGED <<netVars, turn, passVars, queued, exposed>> /\ pc = "prune" /\ pc' = "delete"
    BY DEF Prune
  <1>3. turn \in M /\ ledger \in [M -> Seq(QueuedRow)]
    BY DEF SmsWorkInv, SmsTypes
  <1>4. PICK table \in Seq(QueuedRow) : table = ledger[turn] /\ OnceEach(table)
    BY <1>3 DEF BookInv
  <1>5. PICK out \in SUBSET DOMAIN table : out = {i \in DOMAIN table : Cardinality(Newer(table, i)) >= Keep}
    OBVIOUS
  <1>21. /\ ledger' = [ledger EXCEPT ![turn] = [k \in DOMAIN Ascending(DOMAIN table \ out) |->
                                                   table[Ascending(DOMAIN table \ out)[k]]]]
         /\ forgotten' = forgotten \cup {table[i].fp : i \in out}
    BY <1>4, <1>5 DEF Prune
  <1>6. PICK K : K = DOMAIN table \ out
    OBVIOUS
  <1>7. IsFiniteSet(K) /\ K \subseteq Int
    <2>1. PICK n \in Nat : DOMAIN table = 1 .. n
      OBVIOUS
    <2>2. IsFiniteSet(1 .. n) /\ K \in SUBSET (1 .. n)
      BY <1>6, <2>1, FS_Interval
    <2>3. IsFiniteSet(K)
      BY <2>2, FS_Subset
    <2> QED
      BY <2>2, <2>3
  <1>8. PICK o \in SetToSeqs(K) : o = Ascending(K)
    BY <1>7, AscendingIs
  <1>9. o \in Seq(K) /\ ToSet(o) = K /\ \A i, j \in DOMAIN o : i # j => o[i] # o[j]
    BY <1>7, SeqOfSet
  <1>10. PICK kept : kept = [k \in DOMAIN o |-> table[o[k]]]
    OBVIOUS
  <1>11. ledger'[turn] = kept /\ \A m \in M \ {turn} : ledger'[m] = ledger[m]
    BY <1>3, <1>6, <1>8, <1>10, <1>21
  <1>12. OnceEach(kept)
    BY <1>4, <1>6, <1>9, <1>10 DEF OnceEach
  <1>13. \A m \in M : OnceEach(ledger[m])'
    <2> SUFFICES ASSUME NEW m \in M PROVE OnceEach(ledger'[m])
      BY DEF OnceEach
    <2>1. CASE m = turn
      BY <1>11, <1>12, <2>1, Zenon
    <2>2. CASE m # turn
      <3>1. ledger'[m] = ledger[m] /\ OnceEach(ledger[m])
        BY <1>11, <2>2 DEF BookInv
      <3> QED
        BY <3>1, Zenon
    <2> QED
      BY <2>1, <2>2
  <1>14. fps = <<>> /\ ready = <<>>
    BY <1>2 DEF BookInv, WorkApart
  <1>15. WorkApart'
    BY <1>2, <1>14 DEF WorkApart, Apart, UsedIn, ToSet, passVars
  <1>16. RowsAccounted' /\ PassAccounted'
    BY <1>2 DEF BookInv, RowsAccounted, PassAccounted, Came, NoRow, netVars, passVars
  <1>17. QueueAccounted'
    BY <1>2 DEF BookInv, QueueAccounted, KeptRows, ReceivedRow
  <1>18. kept \in Seq(QueuedRow)
    <2>1. QueuedRow' = QueuedRow
      BY <1>2 DEF QueuedRow, LedgerRow, ReceivedRow, IsQueued, Fingerprint
    <2>2. ledger' \in [M -> Seq(QueuedRow)']
      BY <1>1 DEF SmsWorkInv
    <2> QED
      BY <1>3, <1>11, <2>1, <2>2
  <1>19. ASSUME NEW fp \in Fingerprints PROVE Balanced(fp)'
    <2>1. KeptAs(fp)' = KeptAs(fp) /\ Delivered(fp)' = Delivered(fp) /\ EnteredOf(fp)' = EnteredOf(fp)
      BY <1>2 DEF KeptAs, Fingerprint, Delivered, EnteredOf, ToSet, netVars, passVars
    <2>2. TodoOf(fp)' = {}
      BY <1>2, <1>14 DEF TodoOf, ToSet, UsedIn, passVars
    <2>3. Clean(fp)' => Clean(fp) /\ fp \notin {table[i].fp : i \in out}
      BY <1>2, <1>21, <2>1 DEF Clean
    <2>4. Entries(fp) \in Nat /\ Cardinality(EnteredOf(fp)) \in Nat /\ IsFiniteSet(Delivered(fp))
      BY BookFacts
    <2>5. Entries(fp)' = CopiesOf(ledger'[fp[1].to], fp) /\ fp[1].to \in M
      BY FingerprintFacts DEF Entries, CopiesOf
    <2>6. CopiesOf(kept, fp) \in Nat
      BY <1>12, <1>18, CopiesType
    <2>7. fp \notin {table[i].fp : i \in out} => CopiesOf(kept, fp) = CopiesOf(table, fp)
      <3> SUFFICES ASSUME fp \notin {table[i].fp : i \in out} PROVE CopiesOf(kept, fp) = CopiesOf(table, fp)
        OBVIOUS
      <3>1. CASE \E i \in DOMAIN table : table[i].fp = fp
        <4>1. PICK i \in DOMAIN table : table[i].fp = fp
          BY <3>1
        <4>2. i \in K
          BY <1>6, <4>1
        <4>3. PICK k \in DOMAIN o : o[k] = i
          BY <1>9, <4>2 DEF ToSet
        <4>4. k \in DOMAIN kept /\ kept[k] = table[i]
          BY <1>10, <4>3
        <4>5. CopiesOf(kept, fp) = kept[k].copies
          BY <1>12, <4>1, <4>4, CopiesAre
        <4>6. CopiesOf(table, fp) = table[i].copies
          BY <1>4, <4>1, CopiesAre
        <4> QED
          BY <4>4, <4>5, <4>6
      <3>2. CASE \A i \in DOMAIN table : table[i].fp # fp
        <4>1. \A k \in DOMAIN kept : kept[k].fp # fp
          BY <1>6, <1>9, <1>10, <3>2
        <4>2. CopiesOf(kept, fp) = 0 /\ CopiesOf(table, fp) = 0
          BY <1>4, <1>12, <3>2, <4>1, CopiesAre
        <4> QED
          BY <4>2
      <3> QED
        BY <3>1, <3>2
    <2>8. Entries(fp)' \in Nat /\ (Clean(fp)' => Entries(fp)' = Entries(fp))
      <3>1. CASE fp[1].to = turn
        <4>1. Entries(fp) = CopiesOf(table, fp)
          BY <1>4, <3>1 DEF Entries
        <4>2. Entries(fp)' = CopiesOf(kept, fp)
          BY <1>11, <2>5, <3>1
        <4> QED
          BY <2>3, <2>6, <2>7, <4>1, <4>2
      <3>2. CASE fp[1].to # turn
        <4>1. Entries(fp)' = Entries(fp)
          BY <1>11, <2>5, <3>2 DEF Entries
        <4> QED
          BY <2>4, <4>1
      <3> QED
        BY <3>1, <3>2
    <2>9. Clean(fp)' => Entries(fp) + Cardinality(EnteredOf(fp)) <= Entries(fp)' + Cardinality(EnteredOf(fp)')
      BY <2>1, <2>4, <2>8
    <2>10. Cardinality(EnteredOf(fp)') \in Nat /\ IsFiniteSet(Delivered(fp)')
           /\ Delivered(fp) \subseteq Delivered(fp)'
      BY <2>1, <2>4
    <2> QED
      BY <2>1, <2>2, <2>3, <2>8, <2>9, <2>10, Rebalanced
  <1>20. Fingerprints' = Fingerprints
    BY DEF Fingerprints, Fingerprint, ReceivedRow
  <1> QED
    BY <1>13, <1>15, <1>16, <1>17, <1>19, <1>20 DEF BookInv

\* What balances for each stamp balances for what the fragment says.
LEMMA BooksImplyStoredOnce == SmsWorkInv /\ BookInv => StoredOnce
  <1> SUFFICES ASSUME SmsWorkInv, BookInv PROVE StoredOnce
    OBVIOUS
  <1> SUFFICES ASSUME NEW x \in DOMAIN arrived,
                      {b \in DOMAIN arrived : Part[b] = Part[x]} \cap exposed = {},
                      \A fp \in forgotten : fp[1] # Part[x]
               PROVE  Cardinality(Kept(Part[x])) <= Cardinality({b \in DOMAIN arrived : Part[b] = Part[x]})
    BY DEF StoredOnce
  <1>1. PICK part : part = Part[x]
    OBVIOUS
  <1>2. PICK K : K = Kept(part)
    OBVIOUS
  <1>3. PICK T \in SUBSET DOMAIN arrived : T = {b \in DOMAIN arrived : Part[b] = part}
    OBVIOUS
  <1>4. IsFiniteSet(K) /\ IsFiniteSet(T)
    <2>1. K \in SUBSET KeptRows
      BY <1>2 DEF Kept, KeptRows
    <2> QED
      BY <2>1, FS_Subset DEF BookInv, QueueAccounted, SmsWorkInv, SmsTypes
  <1>5. \A k \in K : \E z \in -1 .. MaxTime : k \in KeptAs(<<part, z>>)
    <2> SUFFICES ASSUME NEW k \in K PROVE \E z \in -1 .. MaxTime : k \in KeptAs(<<part, z>>)
      OBVIOUS
    <2>1. PICK q \in queued : \E s \in DOMAIN q.rows : Part[q.rows[s].a] = part /\ k = <<q.n, s>>
      BY <1>2 DEF Kept
    <2>2. PICK s \in DOMAIN q.rows : Part[q.rows[s].a] = part /\ k = <<q.n, s>>
      BY <2>1
    <2>3. q.rows[s].at \in -1 .. MaxTime
      BY DEF BookInv, QueueAccounted, ReceivedRow
    <2>4. Fingerprint(q.rows[s]) = <<part, q.rows[s].at>>
      BY <2>2 DEF Fingerprint
    <2>5. k \in KeptAs(<<part, q.rows[s].at>>)
      BY <2>2, <2>4 DEF KeptAs
    <2> QED
      BY <2>3, <2>5
  <1>6. PICK g : \A k \in K : g[k] \in -1 .. MaxTime /\ k \in KeptAs(<<part, g[k]>>)
    <2>1. PICK h : h = [k \in K |-> CHOOSE z \in -1 .. MaxTime : k \in KeptAs(<<part, z>>)]
      OBVIOUS
    <2>2. ASSUME NEW k \in K PROVE h[k] \in -1 .. MaxTime /\ k \in KeptAs(<<part, h[k]>>)
      <3>1. h[k] = CHOOSE z \in -1 .. MaxTime : k \in KeptAs(<<part, z>>)
        BY <2>1
      <3> QED
        BY <1>5, <3>1
    <2> QED
      BY <2>2
  <1>7. ASSUME NEW z PROVE Cardinality({k \in K : g[k] = z}) <= Cardinality({b \in T : arrived[b] = z})
    <2>1. PICK L \in SUBSET K : L = {k \in K : g[k] = z}
      OBVIOUS
    <2>2. PICK D \in SUBSET T : D = {b \in T : arrived[b] = z}
      OBVIOUS
    <2>3. Cardinality(D) \in Nat
      BY <1>4, FS_Subset, FS_CardinalityType
    <2>4. CASE z \notin -1 .. MaxTime
      <3>1. L = {}
        BY <1>6, <2>1, <2>4
      <3>2. Cardinality(L) = 0
        BY <3>1, FS_EmptySet
      <3> QED
        BY <2>1, <2>2, <2>3, <3>2
    <2>5. CASE z \in -1 .. MaxTime
      <3>1. PICK fp : fp = <<part, z>>
        OBVIOUS
      <3>2. fp \in Fingerprints
        <4>1. x \in Arrivals
          BY DEF SmsWorkInv, SmsTypes
        <4>2. [a |-> x, at |-> z] \in ReceivedRow
          BY <2>5, <4>1 DEF ReceivedRow
        <4>3. Fingerprint([a |-> x, at |-> z]) = fp
          BY <1>1, <3>1 DEF Fingerprint
        <4> QED
          BY <4>2, <4>3 DEF Fingerprints
      <3>3. D = Delivered(fp)
        BY <1>3, <2>2, <3>1 DEF Delivered
      <3>4. Clean(fp)
        BY <1>1, <1>3, <3>1, <3>3 DEF Clean
      <3>5. Cardinality(KeptAs(fp)) <= Cardinality(D)
        BY <3>2, <3>3, <3>4 DEF BookInv, Balanced
      <3>6. PICK A : A = KeptAs(fp)
        OBVIOUS
      <3>7. IsFiniteSet(A) /\ Cardinality(A) \in Nat
        BY <3>2, <3>6, BookFacts
      <3>8. L \in SUBSET A
        BY <1>6, <2>1, <3>1, <3>6
      <3>9. Cardinality(L) <= Cardinality(A) /\ Cardinality(L) \in Nat
        BY <3>7, <3>8, FS_Subset, FS_CardinalityType
      <3>10. Cardinality(A) <= Cardinality(D)
        BY <3>5, <3>6
      <3>11. Cardinality(L) <= Cardinality(D)
        BY <2>3, <3>7, <3>9, <3>10
      <3> QED
        BY <2>1, <2>2, <3>11
    <2> QED
      BY <2>4, <2>5
  <1>8. Cardinality(K) <= Cardinality(T)
    <2>1. PICK h : h = arrived
      OBVIOUS
    <2>2. \A z : Cardinality(OfKind(K, g, z)) <= Cardinality(OfKind(T, h, z))
      BY <1>7, <2>1 DEF OfKind
    <2> QED
      BY <1>4, <2>2, CountedByKind
  <1> QED
    BY <1>1, <1>2, <1>3, <1>8

-----------------------------------------------------------------------------
(* The theorems *)

LEMMA SmsStep == SmsWorkInv /\ [SmsNext]_smsVars => SmsWorkInv'
  <1> SUFFICES ASSUME SmsWorkInv, [SmsNext]_smsVars PROVE SmsWorkInv'
    OBVIOUS
  <1>1. CASE UNCHANGED smsVars
    <2>1. UNCHANGED <<netVars, now, cursor, turn, began, pc, passVars, keptVars, histVars, faults, consoled>>
      BY <1>1 DEF smsVars
    <2>2. SmsTypes'
      BY <2>1 DEF SmsWorkInv, SmsTypes, netVars, passVars
    <2>3. \A p \in DOMAIN pass : InPlace(p) => InPlace(p)'
      BY <2>1 DEF InPlace, netVars, passVars, histVars
    <2>4. PassOK' /\ PassWork'
      BY <2>1, <2>3, WorkStays DEF SmsWorkInv, passVars, keptVars
    <2> QED
      BY <2>1, <2>2, <2>4, TablesStay DEF SmsWorkInv, keptVars, histVars
  <1>2. CASE PollStep
    BY <1>2, QmiListed, AtListed, InboundSettled, MessageKeptLocally, MessageQueued,
       FragmentsRecorded, LedgerPruned, RowsDeleted DEF PollStep
  <1>3. CASE ProbeFails \/ ReadFails \/ StatementFails
    BY <1>3, PassGivenUp
  <1>4. CASE Restart
    BY <1>4, ProcessRestarts
  <1>5. CASE Tick
    BY <1>5, ClockTicks
  <1>6. ASSUME NEW x \in Arrivals, NEW i \in Index, Arrive(x, i) PROVE SmsWorkInv'
    BY <1>6, FragmentArrives
  <1>7. ASSUME NEW m \in M, NEW i \in Index, ConsoleReads(m, i) \/ ConsoleDeletes(m, i) PROVE SmsWorkInv'
    BY <1>7, ConsoleLooks, ConsoleEmpties
  <1> QED
    BY <1>1, <1>2, <1>3, <1>4, <1>5, <1>6, <1>7 DEF SmsNext

LEMMA BooksStep == SmsWorkInv /\ BookInv /\ [SmsNext]_smsVars => BookInv'
  <1> SUFFICES ASSUME SmsWorkInv, BookInv, [SmsNext]_smsVars PROVE BookInv'
    OBVIOUS
  <1>1. CASE UNCHANGED smsVars
    <2>1. UNCHANGED <<netVars, turn, pc, passVars, keptVars, histVars>>
      BY <1>1 DEF smsVars
    <2>2. SmsWorkInv'
      BY SmsStep
    <2>3. RowsAccounted'
      BY <2>1 DEF netVars, BookInv, RowsAccounted, Came, NoRow
    <2> QED
      BY <2>1, <2>2, <2>3, BooksStay DEF netVars, passVars, keptVars, histVars
  <1>2. CASE PollStep
    BY <1>2, BooksAtListing, BooksAtSettling, BooksWhenKeptLocally, BooksAtQueueing,
       BooksAtRecording, BooksAtPruning, BooksAtDeletion DEF PollStep
  <1>3. CASE ProbeFails \/ ReadFails \/ StatementFails
    BY <1>3, BooksGivenUp
  <1>4. CASE Restart
    BY <1>4, BooksAtRestart
  <1>5. CASE Tick
    BY <1>5, BooksAtTick
  <1>6. ASSUME NEW x \in Arrivals, NEW i \in Index, Arrive(x, i) PROVE BookInv'
    BY <1>6, BooksAtArrival
  <1>7. ASSUME NEW m \in M, NEW i \in Index, ConsoleReads(m, i) \/ ConsoleDeletes(m, i) PROVE BookInv'
    BY <1>7, BooksAtConsole
  <1> QED
    BY <1>1, <1>2, <1>3, <1>4, <1>5, <1>6, <1>7 DEF SmsNext

\* Every step of the poll thread, the network and the console keeps it.
THEOREM SmsWorkHolds == SmsSpec => []SmsWorkInv
  BY SmsInitially, SmsStep, PTL DEF SmsSpec

\* Whatever the network delivers and when, whatever fails, wherever the process
\* stops and whatever the console does meanwhile: what the agent deletes from a
\* module was queued for the cloud first (settle.rs, "store, then delete"), or
\* was the very copy of another delivery that was, or lay in a slot the console
\* had emptied.
THEOREM NothingEverUnstored == SmsSpec => []NothingUnstored
  <1>1. SmsWorkInv => NothingUnstored
    BY DEF SmsWorkInv, DeletedQueued, IsQueued, NothingUnstored
  <1> QED
    BY <1>1, SmsWorkHolds, PTL

\* A message with a part missing is queued only once everything of it that has
\* a stamp is older than the grace period (concat.rs, FRAGMENT_GRACE_MS), and
\* the state stays within its types.
THEOREM PartsAreWaitedFor == SmsSpec => [](SmsTypeOK /\ WaitsForAll)
  <1>1. SmsWorkInv => SmsTypeOK /\ WaitsForAll
    BY WorkImpliesTypes DEF SmsWorkInv
  <1> QED
    BY <1>1, SmsWorkHolds, PTL

\* The books balance: for each fingerprint the fragments queued are no more than
\* the ledger's count and what this pass is about to add to it, nor than what
\* the network delivered (inbox.rs, seen_before; edge-store, record_ingested_sms).
THEOREM BooksHold == SmsSpec => [](SmsWorkInv /\ BookInv)
  <1>1. SmsInit => SmsWorkInv /\ BookInv
    BY SmsInitially, BooksInitially
  <1>2. SmsWorkInv /\ BookInv /\ [SmsNext]_smsVars => (SmsWorkInv /\ BookInv)'
    BY SmsStep, BooksStep
  <1> QED
    BY <1>1, <1>2, PTL DEF SmsSpec

\* A fragment is queued once per delivery, however often its delete fails and it
\* is listed again (inbox.rs, seen_before), unless a pass ended between the queue
\* and the ledger or the ledger was pruned of it; with it the waiting for parts
\* and the types.
THEOREM StoredOnceEach == SmsSpec => []SmsInv
  <1>1. SmsWorkInv /\ BookInv => SmsInv
    BY WorkImpliesTypes, BooksImplyStoredOnce DEF SmsWorkInv, SmsInv
  <1> QED
    BY <1>1, BooksHold, PTL
=============================================================================
