---------------------------- MODULE IdMapProofs ----------------------------
(***************************************************************************)
(* Proofs about id maps: what parsing, sorting, linear and binary search   *)
(* of UserIds compute, for any width of an id and any number of extents.   *)
(***************************************************************************)
EXTENDS UserIds, WellFoundedInduction, NaturalsInduction, TLAPS

-----------------------------------------------------------------------------
(***************************************************************************)
(* Induction, in the form of least and greatest elements.                  *)
(***************************************************************************)
Below == {p \in Nat \X Nat : p[1] < p[2]}

\* A set of natural numbers that is not empty has a least element.
LEMMA Least ==
  ASSUME NEW T \in SUBSET Nat, T # {}
  PROVE  \E x \in T : \A y \in T : x <= y
<1>1. IsWellFoundedOn(Below, Nat)
  BY NatLessThanWellFounded, Zenon DEF OpToRel, Below
<1>2. \E x \in T : \A y \in T : ~(<<y, x>> \in Below)
  BY <1>1, WFMin
<1>3. ASSUME NEW x \in Nat, NEW y \in Nat, ~(<<y, x>> \in Below) PROVE x <= y
  <2>1. ~(y < x)
    BY <1>3 DEF Below
  <2> QED BY <2>1
<1> QED BY <1>2, <1>3

\* One that is bounded has a greatest.
LEMMA Greatest ==
  ASSUME NEW k \in Nat, NEW T \in SUBSET (0 .. k), T # {}
  PROVE  \E x \in T : \A y \in T : y <= x
<1> DEFINE U == {u \in Nat : \E x \in T : u = k - x}
<1>1. \A x \in T : x \in Nat /\ x <= k /\ k - x \in Nat
  OBVIOUS
<1>2. U # {} /\ U \in SUBSET Nat
  BY <1>1
<1>3. PICK u \in U : \A v \in U : u <= v
  BY <1>2, Least
<1>4. PICK x \in T : u = k - x
  OBVIOUS
<1>5. \A y \in T : k - x <= k - y
  BY <1>1, <1>3, <1>4
<1>6. \A y \in T : y <= x
  <2> HIDE DEF U
  <2> QED BY <1>1, <1>5
<1> QED BY <1>6

\* Induction over a set of natural numbers.
LEMMA Induct ==
  ASSUME NEW S \in SUBSET Nat, 0 \in S, \A n \in S : n + 1 \in S
  PROVE  S = Nat
<1> SUFFICES ASSUME Nat \ S # {} PROVE FALSE
  OBVIOUS
<1>1. PICK x \in Nat \ S : \A y \in Nat \ S : x <= y
  BY Least
<1>2. x # 0 /\ x - 1 \in Nat /\ x - 1 \notin Nat \ S
  BY <1>1
<1> QED BY <1>2

-----------------------------------------------------------------------------
(***************************************************************************)
(* Maps.                                                                   *)
(***************************************************************************)
\* The sizes of the numbers involved.
LEMMA Sizes == Modulus \in Nat /\ NoId \in Nat /\ NoId >= 1 /\ Modulus = NoId + 1
<1>1. Modulus \in Nat /\ OverflowId \in 0 .. NoId - 1
  BY UserIdsAssumption
<1>2. NoId = Modulus - 1
  BY DEF NoId
<1> QED BY <1>1, <1>2

\* An extent whose ids and kernel ids do not wrap.
Sound(e) ==
  /\ e \in [first : Id, lower : Id, count : Id] /\ e.count > 0
  /\ e.first + e.count <= NoId /\ e.lower + e.count <= NoId

\* Two extents without a common id (up: kernel id).
Apart(a, b, up) ==
  First(a, up) + a.count <= First(b, up) \/ First(b, up) + b.count <= First(a, up)

\* A complete map.
WholeMap(s) ==
  /\ Len(s) \in Nat /\ s = [i \in 1 .. Len(s) |-> s[i]] /\ \A i \in 1 .. Len(s) : Sound(s[i])
  /\ \A i, j \in 1 .. Len(s) : i # j => Apart(s[i], s[j], TRUE) /\ Apart(s[i], s[j], FALSE)

Ascends(s, up) == \A i, j \in 1 .. Len(s) : i < j => First(s[i], up) <= First(s[j], up)

\* The extent is about the id.
Hit(e, up, id) == First(e, up) <= id /\ id < First(e, up) + e.count

\* The pairs of ids and kernel ids of a map.
Pairs(s) ==
  {p \in Id \X Id : \E j \in 1 .. Len(s) : \E o \in 0 .. s[j].count - 1 :
     p[1] = s[j].first + o /\ p[2] = s[j].lower + o}

\* The result of a search is the extent about the id, if there is one.
Found(r, s, up, id) ==
  /\ \A j \in 1 .. Len(s) : Hit(s[j], up, id) => r = s[j]
  /\ (\A j \in 1 .. Len(s) : ~Hit(s[j], up, id)) => r = NULL

\* What is below the modulus is its own remainder.
LEMMA Remainder ==
  ASSUME NEW x \in Nat, x <= NoId
  PROVE  x % Modulus = x
BY Sizes

\* The ids of a sound extent do not reach NoId.
LEMMA FirstNat ==
  ASSUME NEW e, Sound(e), NEW up \in BOOLEAN
  PROVE  /\ First(e, up) \in Nat /\ e.count \in Nat /\ e.count >= 1
         /\ First(e, up) + e.count <= NoId
BY Sizes DEF Sound, First, Id

\* A single id lies in an extent if the extent is about it.
LEMMA WithinOne ==
  ASSUME NEW e, Sound(e), NEW up \in BOOLEAN, NEW id \in Id
  PROVE  /\ Within(id, 1, First(e, up), e.count) <=> Hit(e, up, id)
         /\ Last(id, 1) = id /\ Last(First(e, up), e.count) = First(e, up) + e.count - 1
<1>1. First(e, up) \in Nat /\ e.count \in Nat /\ e.count >= 1 /\ First(e, up) + e.count <= NoId
  BY FirstNat
<1>2. id \in Nat /\ id <= NoId
  BY Sizes DEF Id
<1>3. Last(id, 1) = id
  <2>1. id + 1 - 1 = id
    BY <1>2
  <2> QED BY <1>2, <2>1, Remainder DEF Last
<1>4. Last(First(e, up), e.count) = First(e, up) + e.count - 1
  <2>1. First(e, up) + e.count - 1 \in Nat /\ First(e, up) + e.count - 1 <= NoId
    BY <1>1, Sizes
  <2> QED BY <2>1, Remainder DEF Last
<1> QED BY <1>1, <1>2, <1>3, <1>4 DEF Within, Hit

\* Only one extent of a map is about an id.
LEMMA OneHit ==
  ASSUME NEW s, WholeMap(s), NEW up \in BOOLEAN, NEW id \in Id,
         NEW i \in 1 .. Len(s), NEW j \in 1 .. Len(s), Hit(s[i], up, id), Hit(s[j], up, id)
  PROVE  i = j
<1>1. Sound(s[i]) /\ Sound(s[j])
  BY DEF WholeMap
<1>2. i # j => Apart(s[i], s[j], up)
  BY DEF WholeMap
<1>3. id \in Nat
  BY Sizes DEF Id
<1> QED BY <1>1, <1>2, <1>3, FirstNat DEF Apart, Hit

\* The linear search.
LEMMA SearchBaseFinds ==
  ASSUME NEW s, WholeMap(s), NEW up \in BOOLEAN, NEW id \in Id
  PROVE  Found(SearchBase(s, Len(s), up, id, 1), s, up, id)
<1> DEFINE hits == {i \in (1 .. Len(s)) \cap DOMAIN s :
                      Within(id, 1, First(s[i], up), s[i].count)}
<1>1. hits = {i \in 1 .. Len(s) : Hit(s[i], up, id)}
  <2>1. DOMAIN s = 1 .. Len(s)
    BY DEF WholeMap
  <2>2. \A i \in 1 .. Len(s) : Within(id, 1, First(s[i], up), s[i].count) <=> Hit(s[i], up, id)
    BY WithinOne DEF WholeMap
  <2> QED BY <2>1, <2>2
<1>2. SearchBase(s, Len(s), up, id, 1)
        = IF hits = {} THEN NULL ELSE s[CHOOSE i \in hits : \A j \in hits : i <= j]
  BY DEF SearchBase
<1>3. CASE hits = {}
  BY <1>1, <1>2, <1>3 DEF Found
<1>4. ASSUME NEW j \in 1 .. Len(s), Hit(s[j], up, id)
      PROVE  SearchBase(s, Len(s), up, id, 1) = s[j]
  <2>1. hits = {j}
    BY <1>1, <1>4, OneHit
  <2>2. (CHOOSE i \in hits : \A k \in hits : i <= k) = j
    <3>1. \A k \in hits : j <= k
      BY <2>1, <1>4 DEF WholeMap
    <3> QED BY <2>1, <3>1
  <2> QED BY <1>2, <2>1, <2>2
<1> QED BY <1>1, <1>3, <1>4 DEF Found

-----------------------------------------------------------------------------
(***************************************************************************)
(* Binary search.                                                          *)
(***************************************************************************)
\* How an extent, if there is one, compares.
Comp(s, up, id, i) == IF i \in DOMAIN s THEN cmp_map_id(s[i], up, id, 1) ELSE -1

\* One turn of bsearch() over num extents from base, where g tells how it
\* goes on.
Turn(s, up, id, g, base, num) ==
  LET pivot == base + num \div 2
      c == Comp(s, up, id, pivot + 1)
  IN IF num = 0 THEN NULL
     ELSE IF c = 0 THEN s[pivot + 1]
     ELSE IF c > 0 THEN g[<<pivot + 1, (num - 1) \div 2>>]
     ELSE g[<<base, num \div 2>>]

\* How an extent compares with an id.
LEMMA Compares ==
  ASSUME NEW e, Sound(e), NEW up \in BOOLEAN, NEW id \in Id
  PROVE  \/ cmp_map_id(e, up, id, 1) = 0 /\ Hit(e, up, id)
         \/ cmp_map_id(e, up, id, 1) = -1 /\ id < First(e, up)
         \/ cmp_map_id(e, up, id, 1) = 1 /\ id >= First(e, up) + e.count
<1>1. /\ Within(id, 1, First(e, up), e.count) <=> Hit(e, up, id)
      /\ Last(id, 1) = id
  BY WithinOne
<1>2. First(e, up) \in Nat /\ e.count \in Nat /\ id \in Nat
  BY FirstNat, Sizes DEF Id
<1> QED BY <1>1, <1>2 DEF cmp_map_id, Hit

\* Halves of a natural number.
LEMMA Halves ==
  ASSUME NEW num \in Nat, num # 0
  PROVE  /\ num \div 2 \in Nat /\ num \div 2 < num /\ (num - 1) \div 2 \in Nat
         /\ (num - 1) \div 2 < num /\ num \div 2 + 1 + (num - 1) \div 2 = num
OBVIOUS

\* What a comparison at the pivot can be.
LEMMA CompIs ==
  ASSUME NEW s, WholeMap(s), NEW up \in BOOLEAN, NEW id \in Id, NEW i \in Nat
  PROVE  Comp(s, up, id, i) \in {-1, 0, 1}
<1>1. CASE i \in DOMAIN s
  <2>1. Sound(s[i])
    BY <1>1 DEF WholeMap
  <2> QED BY <1>1, <2>1, Compares DEF Comp
<1>2. CASE i \notin DOMAIN s
  BY <1>2 DEF Comp
<1> QED BY <1>1, <1>2

\* A turn only asks how shorter searches go on.
LEMMA TurnLocal ==
  ASSUME NEW s, WholeMap(s), NEW up \in BOOLEAN, NEW id \in Id, NEW g, NEW h,
         NEW base \in Nat, NEW num \in Nat,
         \A b \in Nat, m \in Nat : m < num => g[<<b, m>>] = h[<<b, m>>]
  PROVE  Turn(s, up, id, g, base, num) = Turn(s, up, id, h, base, num)
<1>1. CASE num = 0
  BY <1>1 DEF Turn
<1>2. CASE num # 0
  <2>1. base + num \div 2 + 1 \in Nat
    BY <1>2, Halves
  <2>2. /\ g[<<base + num \div 2 + 1, (num - 1) \div 2>>]
             = h[<<base + num \div 2 + 1, (num - 1) \div 2>>]
        /\ g[<<base, num \div 2>>] = h[<<base, num \div 2>>]
    BY <1>2, <2>1, Halves
  <2> QED BY <1>2, <2>2 DEF Turn
<1> QED BY <1>1, <1>2

\* The recursive definition of bsearch() defines a function.
Search(s, up, id, n, f) ==
  f = [left \in Nat \X (0 .. n) |-> Turn(s, up, id, f, left[1], left[2])]

\* There is such a function.
LEMMA SearchExists ==
  ASSUME NEW s, WholeMap(s), NEW up \in BOOLEAN, NEW id \in Id, NEW n \in Nat
  PROVE  \E f : Search(s, up, id, n, f)
<1> DEFINE D == Nat \X (0 .. n)
           Upto(k, g) ==
             /\ g = [left \in D |-> g[left]]
             /\ \A base \in Nat, num \in 0 .. n :
                  num <= k => g[<<base, num>>] = Turn(s, up, id, g, base, num)
           K == {k \in Nat : \E g : Upto(k, g)}
<1>1. 0 \in K
  <2> DEFINE g == [left \in D |-> NULL]
  <2>1. \A base \in Nat, num \in 0 .. n : num <= 0 => Turn(s, up, id, g, base, num) = NULL
    BY DEF Turn
  <2>2. Upto(0, g)
    BY <2>1
  <2> QED BY <2>2
<1>2. ASSUME NEW k \in K PROVE k + 1 \in K
  <2>0. k \in Nat /\ k + 1 \in Nat
    OBVIOUS
  <2>1. PICK g : Upto(k, g)
    BY <1>2
  <2> DEFINE h == [left \in D |-> IF left[2] = k + 1
                                  THEN Turn(s, up, id, g, left[1], left[2]) ELSE g[left]]
  <2>2. ASSUME NEW base \in Nat, NEW num \in 0 .. n, num <= k + 1
        PROVE  h[<<base, num>>] = Turn(s, up, id, h, base, num)
    <3>1. \A b \in Nat, m \in Nat : m < num => g[<<b, m>>] = h[<<b, m>>]
      BY <2>2
    <3>2. Turn(s, up, id, g, base, num) = Turn(s, up, id, h, base, num)
      <4> HIDE DEF h, D
      <4> QED BY <3>1, TurnLocal
    <3>3. CASE num = k + 1
      <4>1. h[<<base, num>>] = Turn(s, up, id, g, base, num)
        BY <3>3
      <4> QED BY <3>2, <4>1
    <3>4. CASE num # k + 1
      <4>1. h[<<base, num>>] = g[<<base, num>>]
        BY <3>4
      <4>2. g[<<base, num>>] = Turn(s, up, id, g, base, num)
        <5>1. num <= k
          BY <2>0, <2>2, <3>4
        <5> HIDE DEF h, K, D
        <5> QED BY <2>1, <5>1
      <4> QED BY <3>2, <4>1, <4>2
    <3> QED BY <3>3, <3>4
  <2>3. h = [left \in D |-> h[left]]
    OBVIOUS
  <2>4. Upto(k + 1, h)
    <3> HIDE DEF h, D
    <3> QED BY <2>2, <2>3
  <2>5. \E f : Upto(k + 1, f)
    BY <2>4
  <2> HIDE DEF Upto
  <2> QED BY <2>0, <2>5
<1>3. n \in K
  <2>1. K = Nat
    <3>1. K \in SUBSET Nat
      OBVIOUS
    <3> HIDE DEF K
    <3> QED BY <1>1, <1>2, <3>1, Induct
  <2> QED BY <2>1
<1>4. PICK f : Upto(n, f)
  BY <1>3
<1>5. \A left \in D : f[left] = Turn(s, up, id, f, left[1], left[2])
  <2>1. ASSUME NEW left \in D PROVE f[left] = Turn(s, up, id, f, left[1], left[2])
    <3>1. left[1] \in Nat /\ left[2] \in 0 .. n /\ left = <<left[1], left[2]>> /\ left[2] <= n
      BY <2>1
    <3> QED BY <1>4, <3>1
  <2> QED BY <2>1
<1>6. f = [left \in D |-> Turn(s, up, id, f, left[1], left[2])]
  BY <1>4, <1>5
<1> QED BY <1>6 DEF Search

\* bsearch() is a function with that definition.
LEMMA BsearchIs ==
  ASSUME NEW s, WholeMap(s), NEW up \in BOOLEAN, NEW id \in Id, NEW n \in Nat
  PROVE  \E f : Search(s, up, id, n, f) /\ Bsearch(s, n, up, id, 1) = f[<<0, n>>]
<1> DEFINE f == CHOOSE g : Search(s, up, id, n, g)
<1>1. Search(s, up, id, n, f)
  BY SearchExists
<1>2. Bsearch(s, n, up, id, 1) = f[<<0, n>>]
  BY Zenon DEF Bsearch, Search, Turn, Comp
<1> QED BY <1>1, <1>2

\* Where the extents ascend, an extent that ends before an id rules out those
\* before it, and one that starts after an id rules out those after it.
LEMMA Sides ==
  ASSUME NEW s, WholeMap(s), NEW up \in BOOLEAN, Ascends(s, up), NEW id \in Id,
         NEW i \in 1 .. Len(s), NEW j \in 1 .. Len(s)
  PROVE  /\ id >= First(s[i], up) + s[i].count /\ j <= i => ~Hit(s[j], up, id)
         /\ id < First(s[i], up) /\ i <= j => ~Hit(s[j], up, id)
<1>1. /\ First(s[i], up) \in Nat /\ s[i].count \in Nat /\ s[i].count >= 1
      /\ First(s[j], up) \in Nat /\ s[j].count \in Nat /\ s[j].count >= 1
  BY FirstNat DEF WholeMap
<1>2. id \in Nat /\ i \in Nat /\ j \in Nat
  BY Sizes DEF Id, WholeMap
<1>3. /\ i < j => First(s[i], up) <= First(s[j], up)
      /\ j < i => First(s[j], up) <= First(s[i], up)
  BY DEF Ascends
<1>4. i # j => Apart(s[i], s[j], up)
  BY DEF WholeMap
<1>5. CASE i = j
  BY <1>1, <1>2, <1>5 DEF Hit
<1>6. CASE i < j
  BY <1>1, <1>2, <1>3, <1>4, <1>6 DEF Hit, Apart
<1>7. CASE j < i
  BY <1>1, <1>2, <1>3, <1>4, <1>7 DEF Hit, Apart
<1> QED BY <1>2, <1>5, <1>6, <1>7

\* The result is right for num extents from base.
FoundIn(r, s, up, id, base, num) ==
  /\ \A j \in base + 1 .. base + num : Hit(s[j], up, id) => r = s[j]
  /\ (\A j \in base + 1 .. base + num : ~Hit(s[j], up, id)) => r = NULL

\* A turn is right if those it relies on are.
LEMMA TurnFinds ==
  ASSUME NEW s, WholeMap(s), NEW up \in BOOLEAN, Ascends(s, up), NEW id \in Id, NEW f,
         NEW base \in Nat, NEW num \in Nat, base + num <= Len(s),
         \A b, m \in Nat : m < num /\ b + m <= Len(s) => FoundIn(f[<<b, m>>], s, up, id, b, m)
  PROVE  FoundIn(Turn(s, up, id, f, base, num), s, up, id, base, num)
<1>0. Len(s) \in Nat /\ DOMAIN s = 1 .. Len(s)
  BY DEF WholeMap
<1>1. CASE num = 0
  <2>1. Turn(s, up, id, f, base, num) = NULL
    BY <1>1 DEF Turn
  <2> QED BY <1>1, <2>1 DEF FoundIn
<1>2. CASE num # 0
  <2> DEFINE half == num \div 2
             rest == (num - 1) \div 2
             i == base + half + 1
             r == Turn(s, up, id, f, base, num)
  <2>1. half \in Nat /\ rest \in Nat /\ half < num /\ rest < num /\ half + 1 + rest = num
    BY <1>2, Halves
  <2> HIDE DEF half, rest
  <2>2. i \in 1 .. Len(s) /\ i \in Nat
    BY <1>0, <2>1
  <2>3. \A j \in base + 1 .. base + num : j \in 1 .. Len(s)
    BY <1>0
  <2>4. Comp(s, up, id, i) = cmp_map_id(s[i], up, id, 1)
    BY <1>0, <2>2 DEF Comp
  <2>5. CASE Comp(s, up, id, i) = 0
    <3>1. r = s[i]
      BY <1>2, <2>5 DEF Turn, half
    <3>2. Hit(s[i], up, id)
      <4>1. Sound(s[i])
        BY <2>2 DEF WholeMap
      <4> QED BY <2>4, <2>5, <4>1, Compares
    <3>3. i \in base + 1 .. base + num
      BY <2>1, <2>2
    <3>4. \A j \in base + 1 .. base + num : Hit(s[j], up, id) => j = i
      BY <2>2, <2>3, <3>2, OneHit
    <3> QED BY <3>1, <3>2, <3>3, <3>4 DEF FoundIn
  <2>6. CASE Comp(s, up, id, i) = 1
    <3>1. r = f[<<i, rest>>]
      BY <1>2, <2>6 DEF Turn, half, rest
    <3>2. FoundIn(r, s, up, id, i, rest)
      <4>1. i + rest <= Len(s)
        BY <1>0, <2>1
      <4> QED BY <2>1, <2>2, <3>1, <4>1
    <3>3. id >= First(s[i], up) + s[i].count
      <4>1. Sound(s[i])
        BY <2>2 DEF WholeMap
      <4> QED BY <2>4, <2>6, <4>1, Compares
    <3>4. \A j \in base + 1 .. i : ~Hit(s[j], up, id)
      <4>1. ASSUME NEW j \in base + 1 .. i PROVE ~Hit(s[j], up, id)
        <5>1. j \in 1 .. Len(s) /\ j <= i
          BY <1>0, <2>2
        <5> HIDE DEF i
        <5> QED BY <2>2, <3>3, <5>1, Sides
      <4> QED BY <4>1
    <3>5. \A j \in base + 1 .. base + num : j \in base + 1 .. i \/ j \in i + 1 .. i + rest
      BY <2>1, <2>2
    <3>6. \A j \in i + 1 .. i + rest : j \in base + 1 .. base + num
      BY <2>1, <2>2
    <3>7. FoundIn(r, s, up, id, base, num)
      <4> HIDE DEF i, r
      <4> QED BY <3>2, <3>4, <3>5, <3>6 DEF FoundIn
    <3> QED BY <3>7
  <2>7. CASE Comp(s, up, id, i) = -1
    <3>1. r = f[<<base, half>>]
      BY <1>2, <2>7 DEF Turn, half
    <3>2. FoundIn(r, s, up, id, base, half)
      <4>1. base + half <= Len(s)
        BY <1>0, <2>1
      <4> QED BY <2>1, <3>1, <4>1
    <3>3. id < First(s[i], up)
      <4>1. Sound(s[i])
        BY <2>2 DEF WholeMap
      <4> QED BY <2>4, <2>7, <4>1, Compares
    <3>4. \A j \in i .. base + num : ~Hit(s[j], up, id)
      <4>1. ASSUME NEW j \in i .. base + num PROVE ~Hit(s[j], up, id)
        <5>1. j \in 1 .. Len(s) /\ i <= j
          BY <1>0, <2>2
        <5> HIDE DEF i
        <5> QED BY <2>2, <3>3, <5>1, Sides
      <4> QED BY <4>1
    <3>5. \A j \in base + 1 .. base + num : j \in i .. base + num \/ j \in base + 1 .. base + half
      BY <2>1, <2>2
    <3>6. \A j \in base + 1 .. base + half : j \in base + 1 .. base + num
      BY <2>1
    <3>7. FoundIn(r, s, up, id, base, num)
      <4> HIDE DEF i, r
      <4> QED BY <3>2, <3>4, <3>5, <3>6 DEF FoundIn
    <3> QED BY <3>7
  <2>8. Comp(s, up, id, i) \in {-1, 0, 1}
    BY <2>2, CompIs
  <2> QED BY <2>5, <2>6, <2>7, <2>8
<1> QED BY <1>1, <1>2

\* The binary search of extents that ascend.
LEMMA BsearchFinds ==
  ASSUME NEW s, WholeMap(s), NEW up \in BOOLEAN, Ascends(s, up), NEW id \in Id
  PROVE  Found(Bsearch(s, Len(s), up, id, 1), s, up, id)
<1> DEFINE n == Len(s)
<1>0. n \in Nat
  BY DEF WholeMap
<1>1. PICK f : Search(s, up, id, n, f) /\ Bsearch(s, n, up, id, 1) = f[<<0, n>>]
  BY <1>0, BsearchIs
<1>2. \A b \in Nat, m \in 0 .. n : f[<<b, m>>] = Turn(s, up, id, f, b, m)
  BY <1>1 DEF Search
<1> DEFINE Right(b, m) == FoundIn(f[<<b, m>>], s, up, id, b, m)
           K == {k \in Nat : \A b, m \in Nat : m <= k /\ b + m <= n => Right(b, m)}
<1> HIDE DEF Right
<1>3. ASSUME NEW b \in Nat, NEW m \in Nat, b + m <= n,
             \A c, l \in Nat : l < m /\ c + l <= n => Right(c, l)
      PROVE  Right(b, m)
  <2>1. FoundIn(Turn(s, up, id, f, b, m), s, up, id, b, m)
    BY <1>3, TurnFinds DEF Right
  <2>2. m \in 0 .. n
    BY <1>0, <1>3
  <2> QED BY <1>2, <2>1, <2>2 DEF Right
<1>4. 0 \in K
  <2>1. ASSUME NEW b \in Nat, NEW m \in Nat, m <= 0, b + m <= n PROVE Right(b, m)
    <3>1. \A c, l \in Nat : ~(l < m)
      BY <2>1
    <3> QED BY <1>3, <2>1, <3>1
  <2> QED BY <2>1
<1>5. ASSUME NEW k \in K PROVE k + 1 \in K
  <2>1. k \in Nat /\ \A c, l \in Nat : l <= k /\ c + l <= n => Right(c, l)
    OBVIOUS
  <2>2. ASSUME NEW b \in Nat, NEW m \in Nat, m <= k + 1, b + m <= n PROVE Right(b, m)
    <3>1. \A c, l \in Nat : l < m => l <= k
      BY <2>1, <2>2
    <3> QED BY <1>3, <2>1, <2>2, <3>1
  <2> QED BY <2>1, <2>2
<1>6. K = Nat
  <2>1. K \in SUBSET Nat
    OBVIOUS
  <2> HIDE DEF K
  <2> QED BY <1>4, <1>5, <2>1, Induct
<1>7. Right(0, n)
  <2>1. n \in K
    BY <1>0, <1>6
  <2> QED BY <1>0, <2>1
<1>8. 0 + 1 .. 0 + n = 1 .. n
  BY <1>0
<1> QED BY <1>1, <1>7, <1>8 DEF Right, FoundIn, Found

-----------------------------------------------------------------------------
(***************************************************************************)
(* Sorting.                                                                *)
(***************************************************************************)
\* p puts the keys K of 1 .. n in order.
Orders(p, n, K) ==
  /\ p \in [1 .. n -> 1 .. n]
  /\ \A j \in 1 .. n : \E i \in 1 .. n : p[i] = j
  /\ \A i, j \in 1 .. n : p[i] = p[j] => i = j
  /\ \A i, j \in 1 .. n : i < j => K[p[i]] <= K[p[j]]

\* One more key goes after those that are not greater.
LEMMA OrderInsert ==
  ASSUME NEW n \in Nat, NEW K \in [1 .. n + 1 -> Nat], NEW p, Orders(p, n, K)
  PROVE  \E q : Orders(q, n + 1, K)
<1> DEFINE T == {i \in 0 .. n : i = 0 \/ (i # 0 /\ K[p[i]] <= K[n + 1])}
<1>1. PICK c \in T : \A i \in T : i <= c
  <2>1. T \in SUBSET (0 .. n) /\ 0 \in T
    OBVIOUS
  <2> HIDE DEF T
  <2> QED BY <2>1, Greatest
<1> DEFINE q == [i \in 1 .. n + 1 |->
                   IF i <= c THEN p[i] ELSE IF i = c + 1 THEN n + 1 ELSE p[i - 1]]
<1>2. c \in 0 .. n /\ c \in Nat
  OBVIOUS
<1>3. /\ \A i \in 1 .. c : q[i] = p[i] /\ i \in 1 .. n
      /\ q[c + 1] = n + 1
      /\ \A i \in c + 2 .. n + 1 : q[i] = p[i - 1] /\ i - 1 \in 1 .. n
      /\ \A i \in 1 .. n + 1 : i \in 1 .. c \/ i = c + 1 \/ i \in c + 2 .. n + 1
  BY <1>2
<1>4. \A i \in 1 .. n : p[i] \in 1 .. n /\ p[i] \in 1 .. n + 1 /\ p[i] # n + 1
  <2> HIDE DEF T, q
  <2>1. \A i \in 1 .. n : p[i] \in 1 .. n
    BY DEF Orders
  <2>2. \A k \in 1 .. n : k \in 1 .. n + 1 /\ k # n + 1
    OBVIOUS
  <2> QED BY <2>1, <2>2
<1>5. \A i \in 1 .. n + 1 : K[i] \in Nat
  OBVIOUS
<1>6. \A i \in 1 .. c : K[p[i]] <= K[n + 1]
  <2>1. CASE c = 0
    BY <2>1
  <2>2. CASE c # 0
    <3>1. K[p[c]] <= K[n + 1] /\ c \in 1 .. n
      BY <1>2, <2>2
    <3>2. \A i \in 1 .. c : i = c \/ (i \in 1 .. n /\ K[p[i]] <= K[p[c]])
      <4> HIDE DEF T, q
      <4>1. \A i \in 1 .. c : i \in 1 .. n /\ (i = c \/ i < c)
        BY <1>2
      <4> QED BY <3>1, <4>1 DEF Orders
    <3>3. \A i \in 1 .. c : K[p[i]] \in Nat /\ K[p[c]] \in Nat /\ K[n + 1] \in Nat
      BY <1>2, <1>4, <1>5, <2>2
    <3> HIDE DEF T, q
    <3> QED BY <3>1, <3>2, <3>3
  <2> QED BY <2>1, <2>2
<1>7. \A i \in c + 1 .. n : K[n + 1] <= K[p[i]]
  <2>1. ASSUME NEW i \in c + 1 .. n PROVE K[n + 1] <= K[p[i]]
    <3>1. i \in 1 .. n /\ i \in 0 .. n /\ i # 0 /\ i > c
      BY <1>2
    <3>2. i \notin T
      BY <1>1, <1>2, <3>1
    <3>3. ~(K[p[i]] <= K[n + 1])
      BY <3>1, <3>2
    <3>4. K[p[i]] \in Nat /\ K[n + 1] \in Nat
      BY <1>4, <1>5, <3>1
    <3> HIDE DEF T, q
    <3> QED BY <3>3, <3>4
  <2> QED BY <2>1
<1> HIDE DEF T
<1>8. q = [i \in 1 .. n + 1 |-> q[i]]
  OBVIOUS
<1> HIDE DEF q
<1>9. q \in [1 .. n + 1 -> 1 .. n + 1]
  <2>1. n + 1 \in 1 .. n + 1
    OBVIOUS
  <2>2. \A i \in 1 .. n + 1 : q[i] \in 1 .. n + 1
    BY <1>3, <1>4, <2>1
  <2> QED BY <1>8, <2>2
<1>10. ASSUME NEW j \in 1 .. n + 1 PROVE \E i \in 1 .. n + 1 : q[i] = j
  <2>1. CASE j = n + 1
    BY <1>2, <1>3, <2>1
  <2>2. CASE j # n + 1
    <3>1. PICK i \in 1 .. n : p[i] = j
      BY <2>2 DEF Orders
    <3>2. CASE i <= c
      <4>1. i \in 1 .. c /\ i \in 1 .. n + 1
        BY <1>2, <3>2
      <4> QED BY <1>3, <3>1, <4>1
    <3>3. CASE ~(i <= c)
      <4>1. i + 1 \in c + 2 .. n + 1 /\ i + 1 \in 1 .. n + 1 /\ i + 1 - 1 = i
        BY <1>2, <3>3
      <4> QED BY <1>3, <3>1, <4>1
    <3> QED BY <3>2, <3>3
  <2> QED BY <2>1, <2>2
<1>11. ASSUME NEW i \in 1 .. n + 1, NEW j \in 1 .. n + 1, i < j
       PROVE  q[i] # q[j] /\ K[q[i]] <= K[q[j]]
  <2>1. CASE i \in 1 .. c /\ j \in 1 .. c
    <3>1. q[i] = p[i] /\ q[j] = p[j] /\ i \in 1 .. n /\ j \in 1 .. n /\ i # j
      BY <1>3, <1>11, <2>1
    <3> QED BY <1>11, <3>1 DEF Orders
  <2>2. CASE i \in 1 .. c /\ j = c + 1
    <3>1. q[i] = p[i] /\ q[j] = n + 1 /\ i \in 1 .. n
      BY <1>3, <2>2
    <3> QED BY <1>4, <1>6, <2>2, <3>1
  <2>3. CASE i \in 1 .. c /\ j \in c + 2 .. n + 1
    <3>1. q[i] = p[i] /\ q[j] = p[j - 1] /\ i \in 1 .. n /\ j - 1 \in 1 .. n /\ i < j - 1 /\ i # j - 1
      BY <1>2, <1>3, <2>3
    <3>2. PICK k \in 1 .. n : k = j - 1
      BY <3>1
    <3>3. q[j] = p[k] /\ i < k /\ i # k
      BY <3>1, <3>2
    <3>4. p[i] # p[k] /\ K[p[i]] <= K[p[k]]
      BY <3>1, <3>3 DEF Orders
    <3> QED BY <3>1, <3>3, <3>4
  <2>4. CASE i = c + 1 /\ j \in c + 2 .. n + 1
    <3>1. q[i] = n + 1 /\ q[j] = p[j - 1] /\ j - 1 \in 1 .. n /\ j - 1 \in c + 1 .. n
      BY <1>2, <1>3, <2>4
    <3> QED BY <1>4, <1>7, <3>1
  <2>5. CASE i \in c + 2 .. n + 1 /\ j \in c + 2 .. n + 1
    <3>1. /\ q[i] = p[i - 1] /\ q[j] = p[j - 1] /\ i - 1 \in 1 .. n /\ j - 1 \in 1 .. n
          /\ i - 1 < j - 1 /\ i - 1 # j - 1
      BY <1>2, <1>3, <1>11, <2>5
    <3> QED BY <3>1 DEF Orders
  <2> QED BY <1>2, <1>3, <1>11, <2>1, <2>2, <2>3, <2>4, <2>5
<1>12. \A i, j \in 1 .. n + 1 : q[i] = q[j] => i = j
  <2>1. \A i, j \in 1 .. n + 1 : i < j \/ j < i \/ i = j
    OBVIOUS
  <2> QED BY <1>11, <2>1
<1>13. Orders(q, n + 1, K)
  BY <1>9, <1>10, <1>11, <1>12 DEF Orders
<1> QED BY <1>13

\* Any keys can be put in order.
LEMMA OrderExists ==
  ASSUME NEW n \in Nat, NEW K \in [1 .. n -> Nat]
  PROVE  \E p : Orders(p, n, K)
<1> DEFINE S == {k \in Nat : k <= n => \E p : Orders(p, k, K)}
<1>1. 0 \in S
  <2> DEFINE p == [i \in 1 .. 0 |-> i]
  <2>1. 1 .. 0 = {}
    OBVIOUS
  <2>2. Orders(p, 0, K)
    BY <2>1 DEF Orders
  <2> QED BY <2>2
<1>2. ASSUME NEW k \in S PROVE k + 1 \in S
  <2>1. k \in Nat
    OBVIOUS
  <2>2. ASSUME k + 1 <= n PROVE \E q : Orders(q, k + 1, K)
    <3> DEFINE L == [i \in 1 .. k + 1 |-> K[i]]
    <3>1. PICK p : Orders(p, k, K)
      BY <2>1, <2>2
    <3>2. \A i \in 1 .. k + 1 : i \in 1 .. n
      BY <2>1, <2>2
    <3>3. L \in [1 .. k + 1 -> Nat]
      BY <3>2
    <3>4. \A i \in 1 .. k : i \in 1 .. k + 1
      BY <2>1
    <3>5. \A i \in 1 .. k + 1 : L[i] = K[i]
      OBVIOUS
    <3> HIDE DEF L
    <3>6. Orders(p, k, L)
      BY <3>1, <3>4, <3>5 DEF Orders
    <3>7. PICK q : Orders(q, k + 1, L)
      BY <2>1, <3>3, <3>6, OrderInsert
    <3>8. Orders(q, k + 1, K)
      BY <3>5, <3>7 DEF Orders
    <3> QED BY <3>8
  <2> QED BY <2>1, <2>2
<1>3. S = Nat
  <2>1. S \in SUBSET Nat
    OBVIOUS
  <2> HIDE DEF S
  <2> QED BY <1>1, <1>2, <2>1, Induct
<1>4. n \in S
  BY <1>3
<1> QED BY <1>4

\* sort() of a map gives the same map in order.
LEMMA SortedIs ==
  ASSUME NEW s, WholeMap(s), NEW up \in BOOLEAN
  PROVE  /\ Len(SortedBy(s, up)) = Len(s) /\ WholeMap(SortedBy(s, up))
         /\ Ascends(SortedBy(s, up), up) /\ Pairs(SortedBy(s, up)) = Pairs(s)
<1> DEFINE n == Len(s)
           K == [i \in 1 .. n |-> First(s[i], up)]
           p == Order(s, up)
           r == SortedBy(s, up)
<1>0. n \in Nat /\ DOMAIN s = 1 .. n
  BY DEF WholeMap
<1>1. K \in [1 .. n -> Nat]
  BY FirstNat DEF WholeMap
<1>2. PICK o : Orders(o, n, K)
  BY <1>0, <1>1, OrderExists
<1>3. /\ o \in Bijection(1 .. n, 1 .. n)
      /\ \A i, j \in 1 .. n : i < j => First(s[o[i]], up) <= First(s[o[j]], up)
  <2>1. o \in Injection(1 .. n, 1 .. n) /\ o \in Surjection(1 .. n, 1 .. n)
    BY <1>2 DEF Orders, Injection, IsInjective, Surjection
  <2>2. \A i \in 1 .. n : o[i] \in 1 .. n
    BY <1>2 DEF Orders
  <2> QED BY <1>2, <2>1, <2>2 DEF Orders, Bijection
<1>4. /\ p \in Bijection(1 .. n, 1 .. n)
      /\ \A i, j \in 1 .. n : i < j => First(s[p[i]], up) <= First(s[p[j]], up)
  BY <1>0, <1>3 DEF Order
<1>5. /\ p \in [1 .. n -> 1 .. n] /\ \A i, j \in 1 .. n : p[i] = p[j] => i = j
      /\ \A j \in 1 .. n : \E i \in 1 .. n : p[i] = j
  BY <1>4 DEF Bijection, Injection, Surjection, IsInjective
<1>6. r = [i \in 1 .. n |-> s[p[i]]]
  BY <1>0 DEF SortedBy
<1> HIDE DEF r, p
<1>7. Len(r) = n /\ DOMAIN r = 1 .. n /\ \A i \in 1 .. n : r[i] = s[p[i]] /\ p[i] \in 1 .. n
  BY <1>0, <1>5, <1>6
<1>8. r = [i \in 1 .. n |-> r[i]]
  BY <1>6
<1>9. WholeMap(r)
  <2>1. \A i \in 1 .. n : Sound(r[i])
    BY <1>7 DEF WholeMap
  <2>2. ASSUME NEW i \in 1 .. n, NEW j \in 1 .. n, i # j
        PROVE  Apart(r[i], r[j], TRUE) /\ Apart(r[i], r[j], FALSE)
    <3>1. p[i] # p[j] /\ p[i] \in 1 .. n /\ p[j] \in 1 .. n
      BY <1>5, <1>7, <2>2
    <3> QED BY <1>7, <3>1 DEF WholeMap
  <2> QED BY <1>0, <1>7, <1>8, <2>1, <2>2 DEF WholeMap
<1>10. Ascends(r, up)
  BY <1>4, <1>7 DEF Ascends
<1>11. Pairs(r) = Pairs(s)
  <2> DEFINE Of(e, x) == \E a \in 0 .. e.count - 1 : x[1] = e.first + a /\ x[2] = e.lower + a
  <2>1. Pairs(s) = {x \in Id \X Id : \E j \in 1 .. n : Of(s[j], x)}
    BY DEF Pairs
  <2>2. Pairs(r) = {x \in Id \X Id : \E j \in 1 .. n : Of(r[j], x)}
    BY <1>7 DEF Pairs
  <2> HIDE DEF Of
  <2>3. \A x : (\E j \in 1 .. n : Of(s[j], x)) <=> (\E j \in 1 .. n : Of(r[j], x))
    BY <1>5, <1>7
  <2> QED BY <2>1, <2>2, <2>3
<1> QED BY <1>7, <1>9, <1>10, <1>11 DEF r

-----------------------------------------------------------------------------
(***************************************************************************)
(* What a lookup returns.                                                  *)
(***************************************************************************)
\* The id e translates id to, down or up.
Value(e, up, id) == IF e = NULL THEN NoId ELSE (id - First(e, up) + First(e, ~up)) % Modulus

\* The pair of an id and its translation, the id that is mapped first.
Pair(up, id, val) == IF up THEN <<val, id>> ELSE <<id, val>>

\* The value is the other half of a pair of the map, or NoId.
LEMMA ValueRight ==
  ASSUME NEW s, WholeMap(s), NEW up \in BOOLEAN, NEW id \in Id, NEW e, Found(e, s, up, id)
  PROVE  /\ Value(e, up, id) \in Id
         /\ \A k \in Id \ {NoId} : Value(e, up, id) = k <=> Pair(up, id, k) \in Pairs(s)
<1>0. id \in Nat /\ NoId \in Nat /\ NoId \in Id /\ Id \subseteq Nat
  BY Sizes DEF Id
<1>1. ASSUME NEW k \in Id
      PROVE  Pair(up, id, k) \in Pairs(s) <=>
               \E j \in 1 .. Len(s) : \E o \in 0 .. s[j].count - 1 :
                 id = First(s[j], up) + o /\ k = First(s[j], ~up) + o
  BY DEF Pair, Pairs, First
<1>2. \A j \in 1 .. Len(s) : Sound(s[j])
  BY DEF WholeMap
<1>3. ASSUME NEW j \in 1 .. Len(s), Hit(s[j], up, id)
      PROVE  /\ Value(e, up, id) \in Id
             /\ \A k \in Id \ {NoId} : Value(e, up, id) = k <=> Pair(up, id, k) \in Pairs(s)
  <2> DEFINE a == First(s[j], up)
             b == First(s[j], ~up)
             c == s[j].count
  <2>1. /\ a \in Nat /\ b \in Nat /\ c \in Nat /\ c >= 1 /\ a + c <= NoId /\ b + c <= NoId
        /\ a <= id /\ id < a + c
    BY <1>2, <1>3, FirstNat DEF Hit
  <2>2. e = s[j] /\ e # NULL
    BY <1>2, <1>3, UserIdsAssumption DEF Found, Sound
  <2>3. Value(e, up, id) = id - a + b
    <3>1. id - a + b \in Nat /\ id - a + b <= NoId
      BY <1>0, <2>1
    <3>2. (id - a + b) % Modulus = id - a + b
      BY <3>1, Remainder
    <3> QED BY <2>2, <3>2 DEF Value
  <2>4. Value(e, up, id) \in Id
    BY <1>0, <2>1, <2>3 DEF Id
  <2>5. ASSUME NEW k \in Id, k = id - a + b PROVE Pair(up, id, k) \in Pairs(s)
    <3>1. id - a \in 0 .. c - 1 /\ id = a + (id - a) /\ k = b + (id - a)
      BY <1>0, <2>1, <2>5
    <3> QED BY <1>1, <3>1
  <2>6. ASSUME NEW k \in Id, Pair(up, id, k) \in Pairs(s) PROVE k = id - a + b
    <3>1. PICK i \in 1 .. Len(s) : \E o \in 0 .. s[i].count - 1 :
             id = First(s[i], up) + o /\ k = First(s[i], ~up) + o
      BY <1>1, <2>6
    <3>2. PICK o \in 0 .. s[i].count - 1 : id = First(s[i], up) + o /\ k = First(s[i], ~up) + o
      BY <3>1
    <3>3. First(s[i], up) \in Nat /\ First(s[i], ~up) \in Nat /\ s[i].count \in Nat
      BY <1>2, FirstNat
    <3>4. Hit(s[i], up, id)
      BY <1>0, <3>2, <3>3 DEF Hit
    <3>5. i = j
      BY <1>3, <3>4, OneHit
    <3> QED BY <1>0, <2>1, <3>2, <3>5
  <2> QED BY <2>3, <2>4, <2>5, <2>6
<1>4. ASSUME \A j \in 1 .. Len(s) : ~Hit(s[j], up, id)
      PROVE  /\ Value(e, up, id) \in Id
             /\ \A k \in Id \ {NoId} : Value(e, up, id) = k <=> Pair(up, id, k) \in Pairs(s)
  <2>1. Value(e, up, id) = NoId
    BY <1>4 DEF Found, Value
  <2>2. ASSUME NEW k \in Id, Pair(up, id, k) \in Pairs(s) PROVE FALSE
    <3>1. PICK i \in 1 .. Len(s) : \E o \in 0 .. s[i].count - 1 :
             id = First(s[i], up) + o /\ k = First(s[i], ~up) + o
      BY <1>1, <2>2
    <3>2. First(s[i], up) \in Nat /\ s[i].count \in Nat
      BY <1>2, FirstNat
    <3>3. Hit(s[i], up, id)
      BY <1>0, <3>1, <3>2 DEF Hit
    <3> QED BY <1>4, <3>3
  <2> QED BY <1>0, <2>1, <2>2
<1> QED BY <1>3, <1>4

\* Down: the kernel id of an id.
LEMMA ValueDown ==
  ASSUME NEW s, WholeMap(s), NEW id \in Id, NEW e, Found(e, s, FALSE, id)
  PROVE  /\ Value(e, FALSE, id) \in Id
         /\ \A k \in Id \ {NoId} : Value(e, FALSE, id) = k <=> <<id, k>> \in Pairs(s)
<1>1. \A k : Pair(FALSE, id, k) = <<id, k>>
  BY DEF Pair
<1>2. /\ Value(e, FALSE, id) \in Id
      /\ \A k \in Id \ {NoId} : Value(e, FALSE, id) = k <=> Pair(FALSE, id, k) \in Pairs(s)
  BY ValueRight
<1> QED BY <1>1, <1>2, Zenon

\* Up: the id of a kernel id.
LEMMA ValueUp ==
  ASSUME NEW s, WholeMap(s), NEW id \in Id, NEW e, Found(e, s, TRUE, id)
  PROVE  /\ Value(e, TRUE, id) \in Id
         /\ \A k \in Id \ {NoId} : Value(e, TRUE, id) = k <=> <<k, id>> \in Pairs(s)
<1>1. \A k : Pair(TRUE, id, k) = <<k, id>>
  BY DEF Pair
<1>2. /\ Value(e, TRUE, id) \in Id
      /\ \A k \in Id \ {NoId} : Value(e, TRUE, id) = k <=> Pair(TRUE, id, k) \in Pairs(s)
  BY ValueRight
<1> QED BY <1>1, <1>2, Zenon

-----------------------------------------------------------------------------
(***************************************************************************)
(* Parsing.                                                                *)
(***************************************************************************)
\* A sum of two ids that wraps is less than either.
LEMMA NoWrap ==
  ASSUME NEW a \in Id, NEW b \in Id, (a + b) % Modulus > a
  PROVE  a + b <= NoId /\ b > 0
<1>1. a \in Nat /\ b \in Nat /\ a <= NoId /\ b <= NoId
  BY Sizes DEF Id
<1>2. CASE a + b > NoId
  <2>1. a + b - Modulus \in Nat /\ a + b - Modulus < a /\ a + b - Modulus < Modulus
    BY <1>1, <1>2, Sizes
  <2>2. (a + b) % Modulus = a + b - Modulus
    BY <1>1, <2>1, Sizes
  <2> QED BY <1>1, <2>1, <2>2, Sizes
<1>3. CASE a + b <= NoId
  <2>1. (a + b) % Modulus = a + b
    BY <1>1, <1>3, Remainder
  <2> QED BY <1>1, <1>3, <2>1
<1> QED BY <1>1, <1>2, <1>3, Sizes

\* A line that is taken is a sound extent.
LEMMA LineSound ==
  ASSUME NEW lines \in Text, NEW i \in 1 .. Len(lines), NEW built, LineOk(lines, i, built)
  PROVE  Sound(Parse(lines[i]))
<1> DEFINE l == lines[i]
           e == Parse(l)
<1>1. l \in Nat \X Nat \X Nat
  <2>1. lines \in Seq((Nat \X Nat \X Nat) \cup {Junk})
    BY UserIdsAssumption
  <2>2. l \in (Nat \X Nat \X Nat) \cup {Junk}
    BY <2>1
  <2> QED BY <2>2 DEF LineOk
<1>2. \A x \in Nat : x % Modulus \in Id
  BY Sizes DEF Id
<1>3. /\ e = [first |-> l[1] % Modulus, lower |-> l[2] % Modulus, count |-> l[3] % Modulus]
      /\ l[1] % Modulus \in Id /\ l[2] % Modulus \in Id /\ l[3] % Modulus \in Id
  BY <1>1, <1>2 DEF Parse, Extent
<1> HIDE DEF l
<1>4. e.first \in Id /\ e.lower \in Id /\ e.count \in Id /\ e \in [first : Id, lower : Id, count : Id]
  BY <1>3
<1>5. (e.first + e.count) % Modulus > e.first /\ (e.lower + e.count) % Modulus > e.lower
  BY DEF LineOk, l
<1> HIDE DEF e
<1>6. e.first + e.count <= NoId /\ e.lower + e.count <= NoId /\ e.count > 0
  BY <1>4, <1>5, NoWrap
<1>7. Sound(e)
  BY <1>4, <1>6 DEF Sound
<1> QED BY <1>7 DEF e, l

\* Sound extents that do not meet are apart.
LEMMA MeetApart ==
  ASSUME NEW a, NEW b, Sound(a), Sound(b), NEW up \in BOOLEAN,
         ~Meet(First(a, up), a.count, First(b, up), b.count)
  PROVE  Apart(a, b, up)
<1>1. /\ First(a, up) \in Nat /\ a.count \in Nat /\ First(b, up) \in Nat /\ b.count \in Nat
  BY FirstNat
<1>2. 0 \in Id
  BY Sizes DEF Id
<1>3. /\ Last(First(a, up), a.count) = First(a, up) + a.count - 1
      /\ Last(First(b, up), b.count) = First(b, up) + b.count - 1
  BY <1>2, WithinOne
<1> QED BY <1>1, <1>3 DEF Meet, Apart

\* A text that is taken to its last line is a map of as many extents, at most
\* UID_GID_MAP_MAX_EXTENTS.
LEMMA BuiltWhole ==
  ASSUME NEW lines \in Text, Len(Built(lines)) = Len(lines)
  PROVE  /\ WholeMap(Built(lines)) /\ Len(Built(lines)) \in 1 .. MaxExtents
<1> DEFINE n == Len(lines)
           T == Taken(lines)
           k == CHOOSE x \in T : \A y \in T : y <= x
           s == Built(lines)
<1>1. lines \in Seq((Nat \X Nat \X Nat) \cup {Junk}) /\ lines # <<>>
  BY UserIdsAssumption
<1>2. n \in Nat /\ n >= 1
  BY <1>1
<1>3. k \in T
  <2>1. T \in SUBSET (0 .. n) /\ 0 \in T
    BY <1>2 DEF Taken
  <2> HIDE DEF T
  <2> QED BY <1>2, <2>1, Greatest
<1>4. k \in Nat /\ k <= n /\ s = Parsed(lines, k)
  BY <1>2, <1>3 DEF Taken, Built
<1> HIDE DEF k, s
<1>5. Len(s) = k /\ DOMAIN s = 1 .. k /\ \A i \in 1 .. k : s[i] = Parse(lines[i])
  BY <1>4 DEF Parsed
<1>6. k = n
  BY <1>5 DEF s
<1>7. \A i \in 1 .. n : LineOk(lines, i, Parsed(lines, i - 1))
  BY <1>3, <1>6 DEF Taken
<1>8. \A i \in 1 .. n : Sound(s[i])
  BY <1>5, <1>6, <1>7, LineSound
<1>9. ASSUME NEW i \in 1 .. n, NEW j \in 1 .. n, j < i, NEW up \in BOOLEAN
      PROVE  Apart(s[j], s[i], up)
  <2> DEFINE b == Parsed(lines, i - 1)
  <2>1. j \in 1 .. i - 1
    BY <1>2, <1>9
  <2>2. j \in DOMAIN b /\ b[j] = s[j]
    BY <1>5, <1>6, <2>1 DEF Parsed
  <2>3. ~MappingsOverlap(b, s[i])
    BY <1>5, <1>6, <1>7 DEF LineOk
  <2>4. ~Meet(First(s[j], up), s[j].count, First(s[i], up), s[i].count)
    BY <2>2, <2>3 DEF MappingsOverlap, First
  <2> QED BY <1>8, <2>4, MeetApart
<1>10. ASSUME NEW i \in 1 .. n, NEW j \in 1 .. n, i # j, NEW up \in BOOLEAN
       PROVE  Apart(s[i], s[j], up)
  <2>1. i < j \/ j < i
    BY <1>2, <1>10
  <2> QED BY <1>9, <2>1 DEF Apart
<1>11. WholeMap(s)
  <2>1. s = [i \in 1 .. k |-> s[i]]
    BY <1>4 DEF Parsed
  <2> QED BY <1>4, <1>5, <1>6, <1>8, <1>10, <2>1 DEF WholeMap
<1>12. n <= MaxExtents
  <2> SUFFICES ASSUME n > MaxExtents PROVE FALSE
    BY <1>2, UserIdsAssumption
  <2> DEFINE i == MaxExtents
  <2>1. i \in 1 .. n /\ i \in Nat /\ i - 1 \in Nat
    BY <1>2, UserIdsAssumption
  <2>2. Len(Parsed(lines, i - 1)) = i - 1
    BY <2>1 DEF Parsed
  <2>3. i = n
    BY <1>7, <2>1, <2>2 DEF LineOk
  <2> QED BY <1>2, <2>1, <2>3
<1>13. s = Built(lines) /\ Len(s) = n
  BY <1>5, <1>6 DEF s
<1> QED BY <1>2, <1>11, <1>12, <1>13, UserIdsAssumption
=============================================================================
