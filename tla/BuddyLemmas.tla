---------------------------- MODULE BuddyLemmas ----------------------------
(***************************************************************************)
(* Facts about the page allocator's pure operators: powers of two, aligned *)
(* blocks and their buddies, and what merging a block into the free lists  *)
(* of a zone, and splitting one off them, does.                            *)
(***************************************************************************)
EXTENDS PageAlloc, FiniteSetTheorems, WellFoundedInduction, TLAPS

LEMMA LeastNat ==
    ASSUME NEW S \in SUBSET Nat, S # {}
    PROVE  \E m \in S : \A k \in S : m <= k
<1> DEFINE R == {ss \in Nat \X Nat : ss[1] < ss[2]}
<1>1. IsWellFoundedOn(R, Nat)
  BY NatLessThanWellFounded DEF OpToRel
<1> HIDE DEF R
<1>2. PICK m \in S : \A y \in S : ~ (<<y, m>> \in R)
  BY <1>1, WFMin
<1>3. \A y \in S : ~ (y < m)
  BY <1>2 DEF R
<1> QED BY <1>3

(* A set of naturals that holds 0 and the successor of each of its members below n
   holds 0 .. n. *)
LEMMA UpTo ==
    ASSUME NEW n \in Nat, NEW S, 0 \in S, \A i \in 1 .. n : i - 1 \in S => i \in S
    PROVE  0 .. n \subseteq S
<1> SUFFICES ASSUME 0 .. n \ S # {} PROVE FALSE
  OBVIOUS
<1>1. PICK m \in 0 .. n \ S : \A k \in 0 .. n \ S : m <= k
  <2>1. 0 .. n \ S \in SUBSET Nat
    OBVIOUS
  <2> QED BY <2>1, LeastNat
<1>2. m # 0
  BY <1>1
<1>3. m \in 1 .. n /\ m - 1 \in 0 .. n
  BY <1>1, <1>2
<1>4. m - 1 \in S
  BY <1>1, <1>3
<1> QED BY <1>1, <1>3, <1>4

(* The function that starts with a and goes on with F exists: F is given its index and
   the value before. *)
Iterable(n, A, a, F) == n \in Nat /\ a \in A /\ F \in [(1 .. n) \X A -> A]
IsIteration(f, n, A, a, F) ==
    f \in [0 .. n -> A] /\ f[0] = a /\ \A i \in 1 .. n : f[i] = F[<<i, f[i - 1]>>]

LEMMA Iterates ==
    ASSUME NEW n, NEW A, NEW a, NEW F, Iterable(n, A, a, F)
    PROVE  \E f : IsIteration(f, n, A, a, F)
<1> USE DEF Iterable, IsIteration
<1> DEFINE G(f, m) == f[0] = a /\ \A i \in 1 .. m : f[i] = F[<<i, f[i - 1]>>]
           S == {m \in 0 .. n : \E f \in [0 .. n -> A] : G(f, m)}
<1>1. 0 \in S
  <2> DEFINE f == [i \in 0 .. n |-> a]
  <2>1. f \in [0 .. n -> A] /\ G(f, 0)
    OBVIOUS
  <2> HIDE DEF f, G
  <2> QED BY <2>1
<1>2. ASSUME NEW m \in 1 .. n, m - 1 \in S PROVE m \in S
  <2>1. PICK f \in [0 .. n -> A] : G(f, m - 1)
    BY <1>2
  <2> DEFINE g == [f EXCEPT ![m] = F[<<m, f[m - 1]>>]]
  <2>2. F[<<m, f[m - 1]>>] \in A
    OBVIOUS
  <2>3. g \in [0 .. n -> A]
    BY <2>2
  <2>4. ASSUME NEW i \in 1 .. m PROVE g[i] = F[<<i, g[i - 1]>>]
    <3>1. CASE i = m
      <4>1. g[i] = F[<<m, f[m - 1]>>] /\ g[i - 1] = f[m - 1]
        BY <3>1
      <4> QED BY <3>1, <4>1
    <3>2. CASE i # m
      <4>1. i \in 1 .. m - 1 /\ g[i] = f[i] /\ g[i - 1] = f[i - 1]
        BY <3>2
      <4> QED BY <2>1, <4>1
    <3> QED BY <3>1, <3>2
  <2>5. g[0] = a
    BY <2>1
  <2>6. G(g, m)
    BY <2>4, <2>5
  <2> HIDE DEF g, G
  <2> QED BY <2>3, <2>6
<1>3. n \in S
  <2> HIDE DEF S
  <2> QED BY <1>1, <1>2, UpTo
<1> QED BY <1>3

-----------------------------------------------------------------------------
(* Powers of two *)

LEMMA Pow2Facts ==
    /\ Pow2[0] = 1
    /\ \A k \in 0 .. MAX_ORDER : Pow2[k] \in Nat \ {0}
    /\ \A k \in 0 .. MAX_ORDER - 1 : Pow2[k + 1] = 2 * Pow2[k]
<1> DEFINE F == [x \in (1 .. MAX_ORDER) \X (Nat \ {0}) |-> 2 * x[2]]
           Def(f) == f = [k \in 0 .. MAX_ORDER |-> IF k = 0 THEN 1 ELSE 2 * f[k - 1]]
<1>0. MAX_ORDER \in Nat \ {0}
  BY SizesAssumption
<1>1. F \in [(1 .. MAX_ORDER) \X (Nat \ {0}) -> Nat \ {0}]
  OBVIOUS
<1>2. PICK f \in [0 .. MAX_ORDER -> Nat \ {0}] :
         f[0] = 1 /\ \A i \in 1 .. MAX_ORDER : f[i] = F[<<i, f[i - 1]>>]
  <2> DEFINE A == Nat \ {0}
  <2>1. Iterable(MAX_ORDER, A, 1, F)
    BY <1>0, <1>1 DEF Iterable
  <2> HIDE DEF F, A
  <2>2. \E f : IsIteration(f, MAX_ORDER, A, 1, F)
    BY <2>1, Iterates
  <2> QED BY <2>2 DEF A, IsIteration
<1>3. Def(f)
  <2>1. \A i \in 1 .. MAX_ORDER : f[i] = 2 * f[i - 1]
    <3>1. \A i \in 1 .. MAX_ORDER : <<i, f[i - 1]>> \in (1 .. MAX_ORDER) \X (Nat \ {0})
      BY <1>0
    <3>2. \A x \in (1 .. MAX_ORDER) \X (Nat \ {0}) : F[x] = 2 * x[2]
      OBVIOUS
    <3> HIDE DEF F
    <3> QED BY <1>2, <3>1, <3>2
  <2>2. \A k \in 0 .. MAX_ORDER : f[k] = IF k = 0 THEN 1 ELSE 2 * f[k - 1]
    BY <1>0, <1>2, <2>1
  <2>3. f = [k \in 0 .. MAX_ORDER |-> f[k]]
    OBVIOUS
  <2> QED BY <2>2, <2>3
<1>4. Def(Pow2)
  <2>1. \E g : g = [k \in 0 .. MAX_ORDER |-> IF k = 0 THEN 1 ELSE 2 * g[k - 1]]
    BY <1>3
  <2> QED BY <2>1 DEF Pow2
<1>5. \A k \in 0 .. MAX_ORDER : Pow2[k] = IF k = 0 THEN 1 ELSE 2 * Pow2[k - 1]
  BY <1>4
<1>6. 0 .. MAX_ORDER \subseteq {k \in 0 .. MAX_ORDER : Pow2[k] \in Nat \ {0}}
  <2> DEFINE S == {k \in 0 .. MAX_ORDER : Pow2[k] \in Nat \ {0}}
  <2>1. 0 \in S
    BY <1>0, <1>5
  <2>2. ASSUME NEW k \in 1 .. MAX_ORDER, k - 1 \in S PROVE k \in S
    BY <1>0, <1>5, <2>2
  <2> HIDE DEF S
  <2>3. MAX_ORDER \in Nat
    BY <1>0
  <2>4. 0 .. MAX_ORDER \subseteq S
    BY <2>1, <2>2, <2>3, UpTo
  <2> QED BY <2>4 DEF S
<1>7. ASSUME NEW k \in 0 .. MAX_ORDER - 1 PROVE Pow2[k + 1] = 2 * Pow2[k]
  <2>1. k + 1 \in 0 .. MAX_ORDER /\ k + 1 # 0 /\ (k + 1) - 1 = k
    BY <1>0
  <2> QED BY <1>5, <2>1
<1> QED BY <1>0, <1>5, <1>6, <1>7

-----------------------------------------------------------------------------
(* Division by a power of two *)

LEMMA DivMod ==
    ASSUME NEW p \in Nat, NEW m \in Nat \ {0}
    PROVE  /\ p \div m \in Nat /\ p % m \in 0 .. m - 1
           /\ p = m * (p \div m) + (p % m)
OBVIOUS

LEMMA DivModUnique ==
    ASSUME NEW m \in Nat \ {0}, NEW d \in Nat, NEW e \in Nat, NEW r \in 0 .. m - 1,
           NEW s \in 0 .. m - 1, m * d + r = m * e + s
    PROVE  d = e /\ r = s
<1>1. CASE d < e
  <2>1. m * (e - d) = r - s /\ e - d >= 1
    BY <1>1
  <2>2. m * (e - d) >= m
    BY <2>1
  <2> QED BY <2>1, <2>2
<1>2. CASE e < d
  <2>1. m * (d - e) = s - r /\ d - e >= 1
    BY <1>2
  <2>2. m * (d - e) >= m
    BY <2>1
  <2> QED BY <2>1, <2>2
<1>3. CASE d = e
  BY <1>3
<1> QED BY <1>1, <1>2, <1>3

LEMMA DivModIs ==
    ASSUME NEW m \in Nat \ {0}, NEW d \in Nat, NEW r \in 0 .. m - 1
    PROVE  (m * d + r) \div m = d /\ (m * d + r) % m = r
<1> DEFINE p == m * d + r
<1>1. p \in Nat
  OBVIOUS
<1> HIDE DEF p
<1>2. /\ p \div m \in Nat /\ p % m \in 0 .. m - 1
      /\ p = m * (p \div m) + (p % m)
  BY <1>1, DivMod
<1>3. p = m * d + r
  BY DEF p
<1>4. p \div m = d /\ p % m = r
  BY <1>2, <1>3, DivModUnique
<1> QED BY <1>4 DEF p

-----------------------------------------------------------------------------
(* Aligned page frame numbers and buddies *)

Aligned(p, k) == p \in Nat /\ p % Pow2[k] = 0

LEMMA AlignedIs ==
    ASSUME NEW k \in 0 .. MAX_ORDER, NEW p
    PROVE  Aligned(p, k) <=> \E d \in Nat : p = Pow2[k] * d
<1>0. Pow2[k] \in Nat \ {0}
  BY Pow2Facts
<1>1. ASSUME Aligned(p, k) PROVE \E d \in Nat : p = Pow2[k] * d
  <2> DEFINE m == Pow2[k]
  <2>0. m \in Nat \ {0} /\ p \in Nat /\ p % m = 0
    BY <1>0, <1>1 DEF Aligned
  <2> HIDE DEF m
  <2> DEFINE d == p \div m
  <2>1. d \in Nat /\ p = m * d + 0
    BY <2>0, DivMod
  <2> HIDE DEF d
  <2>2. p = m * d
    BY <2>0, <2>1
  <2> QED BY <2>1, <2>2 DEF m
<1>2. ASSUME NEW d \in Nat, p = Pow2[k] * d PROVE Aligned(p, k)
  <2> DEFINE m == Pow2[k]
  <2>0. m \in Nat \ {0} /\ 0 \in 0 .. m - 1
    BY <1>0
  <2> HIDE DEF m
  <2>1. (m * d + 0) % m = 0
    BY <2>0, DivModIs
  <2>2. m * d + 0 = m * d /\ m * d \in Nat
    BY <2>0
  <2>3. (m * d) % m = 0
    BY <2>1, <2>2
  <2> QED BY <1>2, <2>2, <2>3 DEF Aligned, m
<1> QED BY <1>1, <1>2

LEMMA AlignFacts ==
    ASSUME NEW k \in 0 .. MAX_ORDER, NEW p \in Nat
    PROVE  /\ Aligned(Align(p, k), k)
           /\ p \in Align(p, k) .. Align(p, k) + Pow2[k] - 1
<1>0. Pow2[k] \in Nat \ {0}
  BY Pow2Facts
<1>1. /\ p \div Pow2[k] \in Nat /\ p % Pow2[k] \in 0 .. Pow2[k] - 1
      /\ p = Pow2[k] * (p \div Pow2[k]) + (p % Pow2[k])
  BY <1>0, DivMod
<1>2. Align(p, k) = Pow2[k] * (p \div Pow2[k])
  BY <1>0, <1>1 DEF Align
<1>3. Aligned(Align(p, k), k)
  BY <1>1, <1>2, AlignedIs
<1>4. Align(p, k) = p - (p % Pow2[k])
  BY DEF Align
<1> DEFINE m == Pow2[k]
           r == p % m
<1>5. m \in Nat \ {0} /\ r \in 0 .. m - 1 /\ Align(p, k) = p - r
  BY <1>0, <1>1, <1>4
<1> HIDE DEF m, r
<1>6. p \in Align(p, k) .. Align(p, k) + m - 1
  BY <1>5
<1> QED BY <1>3, <1>6 DEF m

LEMMA AlignUnique ==
    ASSUME NEW k \in 0 .. MAX_ORDER, NEW a, Aligned(a, k), NEW p \in a .. a + Pow2[k] - 1
    PROVE  Align(p, k) = a
<1>0. Pow2[k] \in Nat \ {0} /\ a \in Nat
  BY Pow2Facts DEF Aligned
<1>1. PICK d \in Nat : a = Pow2[k] * d
  BY AlignedIs
<1> DEFINE m == Pow2[k]
           r == p - a
<1>2. m \in Nat \ {0} /\ r \in 0 .. m - 1 /\ p = m * d + r
  BY <1>0, <1>1
<1> HIDE DEF m, r
<1>3. (m * d + r) % m = r
  BY <1>2, DivModIs
<1>4. p % Pow2[k] = p - a
  BY <1>2, <1>3 DEF m, r
<1> QED BY <1>0, <1>4 DEF Align

LEMMA AlignedDown ==
    ASSUME NEW k \in 0 .. MAX_ORDER - 1, NEW p, Aligned(p, k + 1)
    PROVE  Aligned(p, k) /\ Aligned(p + Pow2[k], k)
<1>0. Pow2[k] \in Nat \ {0} /\ Pow2[k + 1] = 2 * Pow2[k] /\ k + 1 \in 0 .. MAX_ORDER
      /\ k \in 0 .. MAX_ORDER
  BY Pow2Facts, SizesAssumption
<1>1. PICK d \in Nat : p = Pow2[k + 1] * d
  BY <1>0, AlignedIs
<1>2. p = Pow2[k] * (2 * d) /\ p + Pow2[k] = Pow2[k] * (2 * d + 1)
  BY <1>0, <1>1
<1>3. 2 * d \in Nat /\ 2 * d + 1 \in Nat
  OBVIOUS
<1> QED BY <1>0, <1>2, <1>3, AlignedIs

LEMMA AlignedBelow ==
    ASSUME NEW k \in 0 .. MAX_ORDER, NEW j \in 0 .. k, NEW p, Aligned(p, k)
    PROVE  Aligned(p, j)
<1> DEFINE S == {i \in 0 .. k : Aligned(p, k - i)}
<1>0. MAX_ORDER \in Nat \ {0}
  BY SizesAssumption
<1>1. 0 \in S
  OBVIOUS
<1>2. ASSUME NEW i \in 1 .. k, i - 1 \in S PROVE i \in S
  <2>1. Aligned(p, k - (i - 1)) /\ k - (i - 1) = (k - i) + 1 /\ k - i \in 0 .. MAX_ORDER - 1
    BY <1>0, <1>2
  <2>2. Aligned(p, k - i)
    BY <2>1, AlignedDown
  <2> QED BY <2>2
<1>3. 0 .. k \subseteq S
  <2>1. k \in Nat
    OBVIOUS
  <2> HIDE DEF S
  <2> QED BY <1>1, <1>2, <2>1, UpTo
<1>4. k - j \in S /\ k - (k - j) = j
  BY <1>3
<1> QED BY <1>4

(* The buddies of order k are the halves of the aligned block of order k + 1. *)
LEMMA Buddies ==
    ASSUME NEW k \in 0 .. MAX_ORDER - 1, NEW p, Aligned(p, k)
    PROVE  LET a == Align(p, k + 1)
               b == __find_buddy_pfn(p, k)
           IN  /\ Aligned(a, k + 1) /\ Aligned(b, k) /\ Align(b, k + 1) = a
               /\ __find_buddy_pfn(b, k) = p
               /\ \/ p = a /\ b = a + Pow2[k]
                  \/ b = a /\ p = a + Pow2[k]
<1> DEFINE m == Pow2[k]
           a == Align(p, k + 1)
           b == __find_buddy_pfn(p, k)
<1>0. m \in Nat \ {0} /\ Pow2[k + 1] = 2 * m /\ k + 1 \in 0 .. MAX_ORDER
      /\ k \in 0 .. MAX_ORDER /\ p \in Nat
  BY Pow2Facts, SizesAssumption DEF Aligned
<1>1. PICK d \in Nat : p = m * d
  BY <1>0, AlignedIs
<1> HIDE DEF m
<1>2. d \div 2 \in Nat /\ d % 2 \in 0 .. 1 /\ d = 2 * (d \div 2) + (d % 2)
  BY DivMod
<1> DEFINE e == d \div 2
<1>3. \A x \in Nat : (m * x) \div m = x
  <2> TAKE x \in Nat
  <2>1. (m * x + 0) \div m = x
    BY <1>0, DivModIs
  <2> QED BY <1>0, <2>1
<1>4. \A x \in Nat : m * (2 * x + 1) = m * (2 * x) + m /\ m * (2 * x) = (2 * m) * x
  BY <1>0
<1>5. \A x \in Nat : (2 * x) % 2 = 0 /\ (2 * x + 1) % 2 = 1
  OBVIOUS
<1> HIDE DEF e
<1>6. e \in Nat /\ d \in {2 * e, 2 * e + 1} /\ 2 * e \in Nat /\ 2 * e + 1 \in Nat
  BY <1>2 DEF e
<1> DEFINE c == m * (2 * e)
<1>7. c \in Nat /\ c + m = m * (2 * e + 1)
  BY <1>0, <1>4, <1>6
<1>8. __find_buddy_pfn(c, k) = c + m
  BY <1>0, <1>3, <1>5, <1>6 DEF __find_buddy_pfn, m
<1>9. __find_buddy_pfn(c + m, k) = c
  <2>1. ((c + m) \div m) % 2 = 1
    BY <1>3, <1>5, <1>6, <1>7
  <2> QED BY <1>0, <1>7, <2>1 DEF __find_buddy_pfn, m
<1>10. Aligned(c, k + 1)
  BY <1>0, <1>4, <1>6, AlignedIs
<1>11. Aligned(c, k) /\ Aligned(c + m, k)
  BY <1>10, AlignedDown DEF m
<1>12. p \in {c, c + m}
  BY <1>1, <1>6, <1>7
<1> HIDE DEF c
<1>13. Align(c, k + 1) = c /\ Align(c + m, k + 1) = c
  <2>1. c \in c .. c + Pow2[k + 1] - 1 /\ c + m \in c .. c + Pow2[k + 1] - 1
    BY <1>0, <1>7
  <2> QED BY <1>0, <1>10, <2>1, AlignUnique
<1>14. CASE p = c
  BY <1>8, <1>9, <1>10, <1>11, <1>13, <1>14 DEF m
<1>15. CASE p = c + m
  BY <1>8, <1>9, <1>10, <1>11, <1>13, <1>15 DEF m
<1> QED BY <1>12, <1>14, <1>15

LEMMA AlignAgain ==
    ASSUME NEW k \in 0 .. MAX_ORDER - 1, NEW p \in Nat
    PROVE  Align(Align(p, k), k + 1) = Align(p, k + 1)
<1> DEFINE q == Align(p, k)
           a == Align(q, k + 1)
           m == Pow2[k]
<1>0. m \in Nat \ {0} /\ Pow2[k + 1] = 2 * m /\ k + 1 \in 0 .. MAX_ORDER
      /\ k \in 0 .. MAX_ORDER
  BY Pow2Facts, SizesAssumption DEF Aligned
<1>1. Aligned(q, k) /\ p \in q .. q + m - 1 /\ q \in Nat
  BY <1>0, AlignFacts DEF Aligned
<1> HIDE DEF q, m
<1>2. Aligned(a, k + 1) /\ (q = a \/ q = a + m)
  BY <1>1, Buddies DEF m
<1>3. p \in a .. a + Pow2[k + 1] - 1
  BY <1>0, <1>1, <1>2 DEF Aligned
<1>4. Align(p, k + 1) = a
  BY <1>0, <1>2, <1>3, AlignUnique
<1> QED BY <1>4 DEF q

LEMMA Pow2Mono ==
    ASSUME NEW k \in 0 .. MAX_ORDER, NEW j \in 0 .. k
    PROVE  Pow2[j] <= Pow2[k]
<1> DEFINE S == {i \in 0 .. k : Pow2[k - i] <= Pow2[k]}
<1>0. MAX_ORDER \in Nat \ {0} /\ Pow2[k] \in Nat
  BY SizesAssumption, Pow2Facts
<1>1. 0 \in S
  BY <1>0
<1>2. ASSUME NEW i \in 1 .. k, i - 1 \in S PROVE i \in S
  <2>1. Pow2[k - (i - 1)] <= Pow2[k] /\ k - (i - 1) = (k - i) + 1 /\ k - i \in 0 .. MAX_ORDER - 1
    BY <1>0, <1>2
  <2>2. Pow2[k - i] \in Nat /\ Pow2[(k - i) + 1] = 2 * Pow2[k - i]
    BY <1>0, <2>1, Pow2Facts
  <2> QED BY <1>0, <2>1, <2>2
<1>3. 0 .. k \subseteq S
  <2>1. k \in Nat
    OBVIOUS
  <2> HIDE DEF S
  <2> QED BY <1>1, <1>2, <2>1, UpTo
<1>4. k - j \in S /\ k - (k - j) = j
  BY <1>3
<1> QED BY <1>4

(* The frames of a block, and those of the halves of a block *)
LEMMA FramesIn ==
    ASSUME NEW p \in Int, NEW k \in 0 .. MAX_ORDER
    PROVE  /\ p \in Frames(<<p, k>>) /\ Frames(<<p, k>>) \subseteq Int
           /\ \A q : q \in Frames(<<p, k>>) <=> q \in Int /\ p <= q /\ q < p + Pow2[k]
BY Pow2Facts DEF Frames

LEMMA Halves ==
    ASSUME NEW k \in 0 .. MAX_ORDER - 1, NEW p, Aligned(p, k)
    PROVE  LET a == Align(p, k + 1)
               b == __find_buddy_pfn(p, k)
           IN  /\ Frames(<<a, k + 1>>) = Frames(<<p, k>>) \cup Frames(<<b, k>>)
               /\ Frames(<<p, k>>) \cap Frames(<<b, k>>) = {}
<1> DEFINE a == Align(p, k + 1)
           b == __find_buddy_pfn(p, k)
           m == Pow2[k]
<1>0. /\ m \in Nat \ {0} /\ Pow2[k + 1] = 2 * m /\ k + 1 \in 0 .. MAX_ORDER
      /\ k \in 0 .. MAX_ORDER /\ p \in Nat
  BY Pow2Facts, SizesAssumption DEF Aligned
<1>1. /\ a \in Nat /\ b \in Nat
      /\ \/ p = a /\ b = a + m
         \/ b = a /\ p = a + m
  BY Buddies DEF Aligned
<1>2. Frames(<<a, k + 1>>) = a .. a + 2 * m - 1 /\ Frames(<<p, k>>) = p .. p + m - 1
      /\ Frames(<<b, k>>) = b .. b + m - 1
  BY <1>0 DEF Frames
<1> HIDE DEF a, b, m
<1>3. Frames(<<a, k + 1>>) = Frames(<<p, k>>) \cup Frames(<<b, k>>)
  BY <1>0, <1>1, <1>2
<1>4. Frames(<<p, k>>) \cap Frames(<<b, k>>) = {}
  BY <1>0, <1>1, <1>2
<1> QED BY <1>3, <1>4 DEF a, b

-----------------------------------------------------------------------------
(* Lists of page frames, each at most once *)

IsList(s) == s \in Seq(Pfns) /\ \A i, j \in DOMAIN s : s[i] = s[j] => i = j

LEMMA ListPush ==
    ASSUME NEW s, IsList(s), NEW p \in Pfns, p \notin SeqRange(s)
    PROVE  /\ IsList(<<p>> \o s) /\ SeqRange(<<p>> \o s) = SeqRange(s) \cup {p}
           /\ Len(<<p>> \o s) = Len(s) + 1 /\ Head(<<p>> \o s) = p /\ <<p>> \o s # <<>>
<1> DEFINE n == Len(s)
           t == <<p>> \o s
<1>1. s \in Seq(Pfns) /\ n \in Nat /\ DOMAIN s = 1 .. n
  BY DEF IsList
<1>2. t \in Seq(Pfns) /\ Len(t) = n + 1 /\ DOMAIN t = 1 .. n + 1
  BY <1>1
<1>3. t[1] = p /\ \A i \in 1 .. n : t[i + 1] = s[i]
  BY <1>1
<1>4. \A i \in 2 .. n + 1 : i - 1 \in 1 .. n /\ t[i] = s[i - 1]
  BY <1>1, <1>3
<1>5. Head(t) = p /\ t # <<>>
  BY <1>1, <1>2, <1>3
<1> HIDE DEF t, n
<1>6. \A i \in 1 .. n : s[i] # p
  BY <1>1 DEF SeqRange
<1>7. \A i, j \in DOMAIN t : t[i] = t[j] => i = j
  <2> SUFFICES ASSUME NEW i \in 1 .. n + 1, NEW j \in 1 .. n + 1, t[i] = t[j] PROVE i = j
    BY <1>2
  <2>1. CASE i = 1 \/ j = 1
    BY <1>1, <1>3, <1>4, <1>6, <2>1
  <2>2. CASE i # 1 /\ j # 1
    <3>1. i - 1 \in 1 .. n /\ j - 1 \in 1 .. n /\ s[i - 1] = s[j - 1]
      BY <1>1, <1>4, <2>2
    <3>2. i - 1 = j - 1
      BY <1>1, <3>1 DEF IsList
    <3> QED BY <3>2
  <2> QED BY <2>1, <2>2
<1>8. SeqRange(t) = SeqRange(s) \cup {p}
  <2>1. ASSUME NEW i \in 1 .. n + 1 PROVE t[i] \in SeqRange(s) \cup {p}
    <3>1. CASE i = 1
      BY <1>3, <3>1
    <3>2. CASE i # 1
      <4>1. i \in 2 .. n + 1
        BY <1>1, <3>2
      <4>2. i - 1 \in 1 .. n /\ t[i] = s[i - 1]
        BY <1>4, <4>1
      <4> QED BY <1>1, <4>2 DEF SeqRange
    <3> QED BY <3>1, <3>2
  <2>2. ASSUME NEW i \in 1 .. n PROVE s[i] \in SeqRange(t)
    <3>1. i + 1 \in 1 .. n + 1 /\ t[i + 1] = s[i]
      BY <1>1, <1>3
    <3> QED BY <1>2, <3>1 DEF SeqRange
  <2>3. p \in SeqRange(t)
    <3>1. 1 \in 1 .. n + 1
      BY <1>1
    <3> QED BY <1>2, <1>3, <3>1 DEF SeqRange
  <2> QED BY <1>1, <1>2, <2>1, <2>2, <2>3 DEF SeqRange
<1> QED BY <1>2, <1>5, <1>7, <1>8 DEF IsList, t, n

LEMMA ListAppend ==
    ASSUME NEW s, IsList(s), NEW p \in Pfns, p \notin SeqRange(s)
    PROVE  /\ IsList(Append(s, p)) /\ SeqRange(Append(s, p)) = SeqRange(s) \cup {p}
           /\ Len(Append(s, p)) = Len(s) + 1
<1> DEFINE n == Len(s)
           t == Append(s, p)
<1>1. s \in Seq(Pfns) /\ n \in Nat /\ DOMAIN s = 1 .. n
  BY DEF IsList
<1>2. t \in Seq(Pfns) /\ Len(t) = n + 1 /\ DOMAIN t = 1 .. n + 1
  BY <1>1
<1>3. t[n + 1] = p /\ \A i \in 1 .. n : t[i] = s[i]
  BY <1>1
<1> HIDE DEF t, n
<1>6. \A i \in 1 .. n : s[i] # p
  BY <1>1 DEF SeqRange
<1>7. \A i, j \in DOMAIN t : t[i] = t[j] => i = j
  BY <1>1, <1>2, <1>3, <1>6 DEF IsList
<1>8. SeqRange(t) = SeqRange(s) \cup {p}
  <2>1. ASSUME NEW i \in 1 .. n + 1 PROVE t[i] \in SeqRange(s) \cup {p}
    <3>1. CASE i = n + 1
      BY <1>3, <3>1
    <3>2. CASE i # n + 1
      <4>1. i \in 1 .. n
        BY <1>1, <3>2
      <4> QED BY <1>1, <1>3, <4>1 DEF SeqRange
    <3> QED BY <3>1, <3>2
  <2>2. ASSUME NEW i \in 1 .. n PROVE s[i] \in SeqRange(t)
    <3>1. i \in 1 .. n + 1 /\ t[i] = s[i]
      BY <1>1, <1>3
    <3> QED BY <1>2, <3>1 DEF SeqRange
  <2>3. p \in SeqRange(t)
    <3>1. n + 1 \in 1 .. n + 1
      BY <1>1
    <3> QED BY <1>2, <1>3, <3>1 DEF SeqRange
  <2> QED BY <1>1, <1>2, <2>1, <2>2, <2>3 DEF SeqRange
<1> QED BY <1>2, <1>7, <1>8 DEF IsList, t, n

LEMMA ListTail ==
    ASSUME NEW s, IsList(s), s # <<>>
    PROVE  /\ IsList(Tail(s)) /\ SeqRange(Tail(s)) = SeqRange(s) \ {Head(s)}
           /\ Len(Tail(s)) = Len(s) - 1 /\ Len(s) \in Nat \ {0}
           /\ Head(s) \in SeqRange(s) /\ Head(s) \in Pfns
<1> DEFINE n == Len(s)
           t == Tail(s)
           h == Head(s)
<1>1. s \in Seq(Pfns) /\ n \in Nat \ {0} /\ DOMAIN s = 1 .. n
  BY DEF IsList
<1>2. t \in Seq(Pfns) /\ Len(t) = n - 1 /\ DOMAIN t = 1 .. n - 1
  BY <1>1
<1>3. h = s[1] /\ \A i \in 1 .. n - 1 : t[i] = s[i + 1]
  BY <1>1
<1> HIDE DEF t, n, h
<1>4. h \in SeqRange(s) /\ h \in Pfns
  <2>1. 1 \in 1 .. n
    BY <1>1
  <2> QED BY <1>1, <1>3, <2>1 DEF SeqRange
<1>7. \A i, j \in DOMAIN t : t[i] = t[j] => i = j
  <2> SUFFICES ASSUME NEW i \in 1 .. n - 1, NEW j \in 1 .. n - 1, t[i] = t[j] PROVE i = j
    BY <1>2
  <2>1. i + 1 \in 1 .. n /\ j + 1 \in 1 .. n /\ s[i + 1] = s[j + 1]
    BY <1>1, <1>3
  <2>2. i + 1 = j + 1
    BY <1>1, <2>1 DEF IsList
  <2> QED BY <2>2
<1>8. SeqRange(t) = SeqRange(s) \ {h}
  <2>1. ASSUME NEW i \in 1 .. n - 1 PROVE t[i] \in SeqRange(s) \ {h}
    <3>1. i + 1 \in 1 .. n /\ i + 1 # 1 /\ 1 \in 1 .. n /\ t[i] = s[i + 1]
      BY <1>1, <1>3
    <3> QED BY <1>1, <1>3, <3>1 DEF SeqRange, IsList
  <2>2. ASSUME NEW i \in 1 .. n, s[i] # h PROVE s[i] \in SeqRange(t)
    <3>1. i - 1 \in 1 .. n - 1 /\ t[i - 1] = s[(i - 1) + 1] /\ (i - 1) + 1 = i
      BY <1>1, <1>3, <2>2
    <3> QED BY <1>2, <3>1 DEF SeqRange
  <2> QED BY <1>1, <1>2, <2>1, <2>2 DEF SeqRange
<1> QED BY <1>1, <1>2, <1>4, <1>7, <1>8 DEF IsList, t, n, h

LEMMA ListWithout ==
    ASSUME NEW s, IsList(s), NEW p, p \in SeqRange(s)
    PROVE  /\ IsList(Without(s, p)) /\ SeqRange(Without(s, p)) = SeqRange(s) \ {p}
           /\ Len(Without(s, p)) = Len(s) - 1
<1> DEFINE n == Len(s)
           at == {i \in DOMAIN s : s[i] = p}
           c == CHOOSE i \in at : TRUE
           t == [j \in 1 .. n - 1 |-> IF j < c THEN s[j] ELSE s[j + 1]]
<1>1. s \in Seq(Pfns) /\ n \in Nat /\ DOMAIN s = 1 .. n
  BY DEF IsList
<1>2. at # {}
  BY DEF SeqRange
<1>3. c \in 1 .. n /\ s[c] = p
  BY <1>1, <1>2
<1>4. Without(s, p) = t
  BY <1>2 DEF Without
<1> HIDE DEF n, c, at
<1>5. n - 1 \in Nat
  BY <1>1, <1>3
<1>6. \A j \in 1 .. n - 1 : t[j] = (IF j < c THEN s[j] ELSE s[j + 1])
  OBVIOUS
<1>7. t \in [1 .. n - 1 -> Pfns]
  <2>1. \A j \in 1 .. n : s[j] \in Pfns
    BY <1>1
  <2>2. \A j \in 1 .. n - 1 : j \in 1 .. n /\ j + 1 \in 1 .. n
    BY <1>1
  <2> QED BY <2>1, <2>2
<1> HIDE DEF t
<1>8. t \in Seq(Pfns) /\ Len(t) = n - 1 /\ DOMAIN t = 1 .. n - 1
  BY <1>5, <1>7
<1>9. \A i, j \in 1 .. n : s[i] = s[j] => i = j
  BY <1>1 DEF IsList
<1>10. \A i, j \in DOMAIN t : t[i] = t[j] => i = j
  <2> SUFFICES ASSUME NEW i \in 1 .. n - 1, NEW j \in 1 .. n - 1, t[i] = t[j] PROVE i = j
    BY <1>8
  <2> DEFINE x == IF i < c THEN i ELSE i + 1
             y == IF j < c THEN j ELSE j + 1
  <2>1. x \in 1 .. n /\ y \in 1 .. n /\ t[i] = s[x] /\ t[j] = s[y]
    BY <1>1, <1>3, <1>6
  <2>2. x = y
    BY <1>9, <2>1
  <2> QED BY <1>3, <2>2
<1>11. SeqRange(t) = SeqRange(s) \ {p}
  <2>1. ASSUME NEW i \in 1 .. n - 1 PROVE t[i] \in SeqRange(s) \ {p}
    <3> DEFINE x == IF i < c THEN i ELSE i + 1
    <3>1. x \in 1 .. n /\ x # c /\ t[i] = s[x]
      BY <1>1, <1>3, <1>6
    <3>2. s[x] # p
      BY <1>3, <1>9, <3>1
    <3> QED BY <1>1, <3>1, <3>2 DEF SeqRange
  <2>2. ASSUME NEW i \in 1 .. n, s[i] # p PROVE s[i] \in SeqRange(t)
    <3> DEFINE y == IF i < c THEN i ELSE i - 1
    <3>0. i # c
      BY <1>3, <2>2
    <3>1. y \in 1 .. n - 1 /\ t[y] = s[i]
      BY <1>1, <1>3, <1>6, <3>0
    <3> QED BY <1>8, <3>1 DEF SeqRange
  <2> QED BY <1>1, <1>8, <2>1, <2>2 DEF SeqRange
<1> QED BY <1>4, <1>8, <1>10, <1>11 DEF IsList, n

LEMMA ListCut ==
    ASSUME NEW s, IsList(s), NEW m \in 0 .. Len(s)
    PROVE  /\ IsList(SubSeq(s, 1, m)) /\ SeqRange(SubSeq(s, 1, m)) = {s[i] : i \in 1 .. m}
           /\ Len(SubSeq(s, 1, m)) = m
<1> DEFINE n == Len(s)
           t == SubSeq(s, 1, m)
<1>1. s \in Seq(Pfns) /\ n \in Nat /\ DOMAIN s = 1 .. n
  BY DEF IsList
<1>2. t \in Seq(Pfns) /\ Len(t) = m /\ DOMAIN t = 1 .. m
  BY <1>1
<1>3. \A i \in 1 .. m : t[i] = s[i]
  BY <1>1
<1> HIDE DEF t, n
<1>4. \A i, j \in DOMAIN t : t[i] = t[j] => i = j
  BY <1>1, <1>2, <1>3 DEF IsList, n
<1>5. SeqRange(t) = {s[i] : i \in 1 .. m}
  BY <1>2, <1>3 DEF SeqRange
<1> QED BY <1>2, <1>4, <1>5 DEF IsList, t

-----------------------------------------------------------------------------
(* The free blocks of a zone *)

(* Who has a page frame: own maps each frame to an owner, which for the frames of a
   free block is that block. *)
FreeIn(p, k) == <<"free", p, k>>
FreeOwners == {FreeIn(p, k) : p \in Pfns, k \in Orders}

PageRec == [buddy : BOOLEAN, private : Orders, count : Int, head : BOOLEAN,
            corder : Orders, tail : Pfns \cup {NoPage}]

(* R[k] is the set of first frames of the free blocks of order k of zone z, and pg are
   the struct pages. *)
BlocksOwned(R, z, own) ==
    \A k \in Orders : \A p \in R[k] :
       /\ IsBlock(<<p, k>>) /\ page_zone_id[p] = z
       /\ \A q \in Frames(<<p, k>>) : own[q] = FreeIn(p, k)
OwnedInBlocks(R, z, own) ==
    \A q \in Pfns : page_zone_id[q] = z =>
       \A p \in Pfns, k \in Orders : own[q] = FreeIn(p, k) => p \in R[k] /\ q \in Frames(<<p, k>>)
FlagsSay(pg, R, z) ==
    \A p \in Pfns, k \in Orders : page_zone_id[p] = z =>
       (pg[p].buddy /\ pg[p].private = k <=> p \in R[k])
NoBuddies(R) ==
    \A k \in 0 .. MAX_ORDER - 2 : \A p \in R[k] : __find_buddy_pfn(p, k) \notin R[k]

FreeSets(pg, R, z, own) ==
    /\ R \in [Orders -> SUBSET Pfns] /\ pg \in [Pfns -> PageRec]
    /\ BlocksOwned(R, z, own) /\ OwnedInBlocks(R, z, own) /\ FlagsSay(pg, R, z) /\ NoBuddies(R)

Sets(area) == [k \in Orders |-> SeqRange(area[k])]

ZoneInv(v, z, own) ==
    /\ DOMAIN v.area = Orders /\ DOMAIN v.free = Orders
    /\ \A k \in Orders : IsList(v.area[k]) /\ v.free[k] = Len(v.area[k])
    /\ FreeSets(v.page, Sets(v.area), z, own)

(* How a change of the owners may look to the rest: the frames of Q get owners of T,
   free frames of the zone may become part of other free blocks. *)
Moves(own, own2, z, Q, T) ==
    /\ \A q \in Q : q \in Pfns /\ page_zone_id[q] = z /\ own2[q] \in T
    /\ \A q \in Pfns \ Q : \/ own2[q] = own[q]
                           \/ /\ page_zone_id[q] = z
                              /\ own[q] \in FreeOwners /\ own2[q] \in FreeOwners

(* Only the buddy mark and the order of the zone's pages change. *)
MarksOnly(pg, pg2, z) ==
    \A q \in Pfns :
       /\ page_zone_id[q] # z => pg2[q] = pg[q]
       /\ pg2[q].count = pg[q].count /\ pg2[q].head = pg[q].head
       /\ pg2[q].corder = pg[q].corder /\ pg2[q].tail = pg[q].tail

LEMMA FreeInUnique ==
    \A p, k, q, j : FreeIn(p, k) = FreeIn(q, j) <=> p = q /\ k = j
BY DEF FreeIn

LEMMA OrdersFacts ==
    /\ MAX_ORDER \in Nat \ {0} /\ 0 \in Orders
    /\ \A k \in Orders : k \in Nat /\ k \in 0 .. MAX_ORDER /\ k \in 0 .. MAX_ORDER - 1
BY SizesAssumption DEF Orders

LEMMA BlockFacts ==
    ASSUME NEW p, NEW k, IsBlock(<<p, k>>)
    PROVE  /\ p \in Pfns /\ p \in Nat /\ k \in Orders /\ Aligned(p, k) /\ p \in Frames(<<p, k>>)
           /\ \A q \in Frames(<<p, k>>) : q \in Pfns /\ q \in Nat /\ page_zone_id[q] = page_zone_id[p]
<1>1. p \in Pfns /\ k \in Orders /\ p % Pow2[k] = 0
  BY DEF IsBlock, Blocks
<1>2. p \in Nat /\ k \in 0 .. MAX_ORDER
  BY <1>1, PfnsAssumption, OrdersFacts
<1>3. p \in Frames(<<p, k>>)
  BY <1>2, FramesIn
<1> QED BY <1>1, <1>2, <1>3, PfnsAssumption DEF IsBlock, Aligned

(* A frame that is not free has no buddy mark. *)
LEMMA NotFreeNoMark ==
    ASSUME NEW pg, NEW R, NEW z, NEW own, FreeSets(pg, R, z, own),
           NEW q \in Pfns, page_zone_id[q] = z, own[q] \notin FreeOwners
    PROVE  pg[q].buddy = FALSE
<1>1. pg[q] \in PageRec
  BY DEF FreeSets
<1>2. pg[q].private \in Orders /\ pg[q].buddy \in BOOLEAN
  BY <1>1 DEF PageRec
<1>3. ASSUME pg[q].buddy PROVE FALSE
  <2>1. q \in R[pg[q].private]
    BY <1>2, <1>3 DEF FreeSets, FlagsSay
  <2>2. IsBlock(<<q, pg[q].private>>) /\ \A r \in Frames(<<q, pg[q].private>>) : own[r] = FreeIn(q, pg[q].private)
    BY <1>2, <2>1 DEF FreeSets, BlocksOwned
  <2>3. own[q] = FreeIn(q, pg[q].private)
    BY <2>2, BlockFacts
  <2> QED BY <1>2, <2>3 DEF FreeOwners
<1> QED BY <1>2, <1>3

-----------------------------------------------------------------------------
(* Merging *)

(* The block that p of order k has grown into at order j, and that block's buddy *)
Base(p, j) == Align(p, j)
Bud(p, j) == __find_buddy_pfn(Align(p, j), j)

(* The buddies of the orders from k to n - 1 are free blocks of the zone. *)
Merges(R, p, k, n) == \A j \in k .. n - 1 : Bud(p, j) \in R[j]

(* A block of the zone that is free in no list *)
Taken(z, own, p, k) ==
    /\ IsBlock(<<p, k>>) /\ page_zone_id[p] = z
    /\ \A q \in Frames(<<p, k>>) : own[q] \notin FreeOwners

Merging(pg, R, z, own, p, k, n) ==
    /\ FreeSets(pg, R, z, own) /\ Taken(z, own, p, k)
    /\ n \in k .. MAX_ORDER - 1 /\ Merges(R, p, k, n)

LEMMA MergePath ==
    ASSUME NEW pg, NEW R, NEW z, NEW own, NEW p, NEW k, NEW n, Merging(pg, R, z, own, p, k, n)
    PROVE  /\ \A q \in Frames(<<Base(p, n), n>>) :
                 /\ q \in Pfns /\ page_zone_id[q] = z
                 /\ \/ q \in Frames(<<p, k>>)
                    \/ \E j \in k .. n - 1 : own[q] = FreeIn(Bud(p, j), j)
           /\ Frames(<<p, k>>) \subseteq Frames(<<Base(p, n), n>>)
           /\ \A j \in k .. n - 1 : Frames(<<Bud(p, j), j>>) \subseteq Frames(<<Base(p, n), n>>)
<1> USE DEF Merging
<1> DEFINE A(m) == \A q \in Frames(<<Base(p, m), m>>) :
                 /\ q \in Pfns /\ page_zone_id[q] = z
                 /\ \/ q \in Frames(<<p, k>>)
                    \/ \E j \in k .. m - 1 : own[q] = FreeIn(Bud(p, j), j)
           B(m) == Frames(<<p, k>>) \subseteq Frames(<<Base(p, m), m>>)
           D(m) == \A j \in k .. m - 1 : Frames(<<Bud(p, j), j>>) \subseteq Frames(<<Base(p, m), m>>)
           S == {i \in 0 .. n - k : A(k + i) /\ B(k + i) /\ D(k + i)}
<1>0. /\ p \in Pfns /\ p \in Nat /\ k \in Orders /\ k \in Nat /\ n \in Orders /\ n \in Nat
      /\ MAX_ORDER \in Nat \ {0} /\ Aligned(p, k) /\ page_zone_id[p] = z /\ k <= n
      /\ \A q \in Frames(<<p, k>>) : q \in Pfns /\ page_zone_id[q] = z
  BY BlockFacts, OrdersFacts DEF Taken, Orders
<1>1. A(k) /\ B(k) /\ D(k)
  <2>1. Base(p, k) = p
    <3>1. p \in p .. p + Pow2[k] - 1
      BY <1>0, OrdersFacts, Pow2Facts
    <3> QED BY <1>0, <3>1, OrdersFacts, AlignUnique DEF Base
  <2>2. k .. k - 1 = {}
    BY <1>0
  <2> QED BY <1>0, <2>1, <2>2
<1>2. ASSUME NEW m \in k .. n - 1, A(m), B(m), D(m) PROVE A(m + 1) /\ B(m + 1) /\ D(m + 1)
  <2> DEFINE b == Bud(p, m)
             a == Base(p, m)
             a2 == Base(p, m + 1)
  <2>1. m \in Orders /\ m \in 0 .. MAX_ORDER /\ m \in 0 .. MAX_ORDER - 1
    BY <1>0 DEF Orders
  <2>2. Aligned(a, m)
    BY <1>0, <2>1, AlignFacts DEF Base
  <2>3. a2 = Align(a, m + 1) /\ b = __find_buddy_pfn(a, m)
    BY <1>0, <2>1, AlignAgain DEF Base, Bud
  <2>4. Frames(<<a2, m + 1>>) = Frames(<<a, m>>) \cup Frames(<<b, m>>)
    BY <2>1, <2>2, <2>3, Halves
  <2>5. /\ IsBlock(<<b, m>>) /\ page_zone_id[b] = z
        /\ \A q \in Frames(<<b, m>>) : own[q] = FreeIn(b, m)
    BY <1>2, <2>1 DEF Merges, FreeSets, BlocksOwned
  <2>6. \A q \in Frames(<<b, m>>) : q \in Pfns /\ page_zone_id[q] = z
    BY <2>5, BlockFacts
  <2>7. m \in k .. (m + 1) - 1 /\ k .. m - 1 \subseteq k .. (m + 1) - 1
        /\ \A j \in k .. (m + 1) - 1 : j = m \/ j \in k .. m - 1
    BY <1>0
  <2> HIDE DEF a, a2, b
  <2>8. A(m + 1)
    <3> SUFFICES ASSUME NEW q \in Frames(<<Base(p, m + 1), m + 1>>)
                 PROVE  /\ q \in Pfns /\ page_zone_id[q] = z
                        /\ \/ q \in Frames(<<p, k>>)
                           \/ \E j \in k .. (m + 1) - 1 : own[q] = FreeIn(Bud(p, j), j)
      OBVIOUS
    <3>1. CASE q \in Frames(<<a, m>>)
      BY <1>2, <2>7, <3>1 DEF a
    <3>2. CASE q \in Frames(<<b, m>>)
      BY <2>5, <2>6, <2>7, <3>2 DEF b
    <3> QED BY <2>4, <3>1, <3>2 DEF a2
  <2>9. B(m + 1)
    BY <1>2, <2>4 DEF a, a2
  <2>10. D(m + 1)
    BY <1>2, <2>4, <2>7 DEF a, a2, b
  <2> QED BY <2>8, <2>9, <2>10
<1> HIDE DEF A, B, D
<1>3. 0 \in S
  <2>1. k + 0 = k /\ 0 \in 0 .. n - k
    BY <1>0
  <2> QED BY <1>1, <2>1
<1>4. ASSUME NEW i \in 1 .. n - k, i - 1 \in S PROVE i \in S
  <2>1. k + (i - 1) \in k .. n - 1 /\ (k + (i - 1)) + 1 = k + i /\ i \in 0 .. n - k
    BY <1>0
  <2>2. A(k + (i - 1)) /\ B(k + (i - 1)) /\ D(k + (i - 1))
    BY <1>4
  <2>3. A(k + i) /\ B(k + i) /\ D(k + i)
    BY <1>2, <2>1, <2>2
  <2> QED BY <2>1, <2>3
<1>5. A(n) /\ B(n) /\ D(n)
  <2>1. n - k \in Nat /\ n - k \in 0 .. n - k /\ k + (n - k) = n
    BY <1>0
  <2> HIDE DEF S
  <2>2. 0 .. n - k \subseteq S
    BY <1>3, <1>4, <2>1, UpTo
  <2>3. n - k \in S
    BY <2>1, <2>2
  <2> QED BY <2>1, <2>3 DEF S
<1> QED BY <1>5 DEF A, B, D

LEMMA MergeBase ==
    ASSUME NEW pg, NEW R, NEW z, NEW own, NEW p, NEW k, NEW n, Merging(pg, R, z, own, p, k, n)
    PROVE  /\ Aligned(Base(p, n), n) /\ Base(p, n) \in Frames(<<Base(p, n), n>>)
           /\ Base(p, n) \in Pfns /\ page_zone_id[Base(p, n)] = z
<1> DEFINE base == Base(p, n)
           F == Frames(<<base, n>>)
<1>1. p \in Nat /\ n \in 0 .. MAX_ORDER
  BY BlockFacts, OrdersFacts DEF Merging, Taken
<1>2. Aligned(base, n)
  BY <1>1, AlignFacts DEF Base
<1>3. base \in F
  <2>1. base \in Int
    BY <1>2 DEF Aligned
  <2> HIDE DEF base
  <2> QED BY <1>1, <2>1, FramesIn
<1> DEFINE P(q) == \/ q \in Frames(<<p, k>>)
                   \/ \E j \in k .. n - 1 : own[q] = FreeIn(Bud(p, j), j)
<1>4. \A q \in F : /\ q \in Pfns /\ page_zone_id[q] = z
                   /\ P(q)
  BY MergePath
<1> HIDE DEF P, F
<1> QED BY <1>2, <1>3, <1>4 DEF F

Merged(own, p, n) ==
    [q \in Pfns |-> IF q \in Frames(<<Base(p, n), n>>) THEN FreeIn(Base(p, n), n) ELSE own[q]]

MergeStep(pg, R, z, own, p, k, n, pg2, R2) ==
    /\ Merging(pg, R, z, own, p, k, n)
    /\ n < MAX_ORDER - 1 => Bud(p, n) \notin R[n]
    /\ pg2 \in [Pfns -> PageRec] /\ R2 \in [Orders -> SUBSET Pfns]
    /\ \A q \in Pfns :
          /\ q = Base(p, n) => pg2[q].buddy = TRUE /\ pg2[q].private = n
          /\ q # Base(p, n) /\ (\E j \in k .. n - 1 : q = Bud(p, j)) => pg2[q].buddy = FALSE
          /\ q # Base(p, n) /\ (\A j \in k .. n - 1 : q # Bud(p, j)) => pg2[q] = pg[q]
    /\ \A j \in Orders :
          /\ j \in k .. n - 1 => R2[j] = R[j] \ {Bud(p, j)}
          /\ j = n => R2[j] = R[j] \cup {Base(p, n)}
          /\ j \notin k .. n => R2[j] = R[j]

LEMMA MergeSets ==
    ASSUME NEW pg, NEW R, NEW z, NEW own, NEW p, NEW k, NEW n, NEW pg2, NEW R2,
           MergeStep(pg, R, z, own, p, k, n, pg2, R2)
    PROVE  /\ FreeSets(pg2, R2, z, Merged(own, p, n))
           /\ Moves(own, Merged(own, p, n), z, Frames(<<p, k>>), FreeOwners)
<1> DEFINE base == Base(p, n)
           F == Frames(<<base, n>>)
           own2 == Merged(own, p, n)
           bud(j) == Bud(p, j)
           Gone(q, j) == j \in k .. n - 1 /\ q = bud(j)
<1>0. /\ p \in Pfns /\ p \in Nat /\ k \in Orders /\ k \in Nat /\ n \in Orders /\ n \in Nat
      /\ MAX_ORDER \in Nat \ {0} /\ Aligned(p, k) /\ page_zone_id[p] = z /\ k <= n
      /\ n \in 0 .. MAX_ORDER /\ n \in 0 .. MAX_ORDER - 1
      /\ n \notin k .. n - 1 /\ \A j \in k .. n - 1 : j \in Orders
      /\ \A j \in Orders : j = n \/ j \in k .. n - 1 \/ j \notin k .. n
  BY BlockFacts, OrdersFacts DEF MergeStep, Merging, Taken, Orders
<1>1. /\ \A q \in F : /\ q \in Pfns /\ page_zone_id[q] = z
                      /\ \/ q \in Frames(<<p, k>>)
                         \/ \E j \in k .. n - 1 : own[q] = FreeIn(bud(j), j)
      /\ Frames(<<p, k>>) \subseteq F
      /\ \A j \in k .. n - 1 : Frames(<<bud(j), j>>) \subseteq F
  BY MergePath DEF MergeStep
<1>2. Aligned(base, n) /\ base \in F /\ IsBlock(<<base, n>>) /\ page_zone_id[base] = z
      /\ base \in Pfns
  <2>1. Aligned(base, n)
    BY <1>0, AlignFacts DEF Base
  <2>2. base \in F
    BY <1>0, <2>1, FramesIn DEF Aligned
  <2>3. base \in Pfns /\ page_zone_id[base] = z /\ base % Pow2[n] = 0
    BY <1>1, <2>1, <2>2 DEF Aligned
  <2>4. IsBlock(<<base, n>>)
    BY <1>0, <1>1, <2>3 DEF IsBlock, Blocks
  <2> QED BY <2>1, <2>2, <2>3, <2>4
<1>3. /\ R \in [Orders -> SUBSET Pfns] /\ BlocksOwned(R, z, own) /\ OwnedInBlocks(R, z, own)
      /\ FlagsSay(pg, R, z) /\ NoBuddies(R)
      /\ pg2 \in [Pfns -> PageRec] /\ R2 \in [Orders -> SUBSET Pfns]
  BY DEF MergeStep, Merging, FreeSets
<1>4. \A q \in Pfns : own2[q] = IF q \in F THEN FreeIn(base, n) ELSE own[q]
  BY DEF Merged
<1>5. \A j \in Orders : /\ j \in k .. n - 1 => R2[j] = R[j] \ {bud(j)}
                        /\ j = n => R2[j] = R[j] \cup {base}
                        /\ j \notin k .. n => R2[j] = R[j]
  BY DEF MergeStep
<1>6. \A q \in Pfns :
          /\ q = base => pg2[q].buddy = TRUE /\ pg2[q].private = n
          /\ q # base /\ (\E j \in k .. n - 1 : q = bud(j)) => pg2[q].buddy = FALSE
          /\ q # base /\ (\A j \in k .. n - 1 : q # bud(j)) => pg2[q] = pg[q]
  BY DEF MergeStep
<1>7. n < MAX_ORDER - 1 => bud(n) \notin R[n]
  BY DEF MergeStep
<1>8. \A q \in Frames(<<p, k>>) : own[q] \notin FreeOwners
  BY DEF MergeStep, Merging, Taken
<1>9. \A j \in k .. n - 1 : bud(j) \in R[j]
  BY DEF MergeStep, Merging, Merges
<1> HIDE DEF base, F, own2, bud
<1>10. \A j \in Orders, q \in Pfns : q \in R2[j] <=> (q \in R[j] /\ ~ Gone(q, j)) \/ (q = base /\ j = n)
  BY <1>0, <1>3, <1>5
(* A frame of the merged block that is in a free block is in one of those that went. *)
<1>11. ASSUME NEW q \in F, NEW r, NEW j \in Orders, r \in Pfns, own[q] = FreeIn(r, j) PROVE Gone(r, j)
  <2>1. q \notin Frames(<<p, k>>)
    BY <1>8, <1>11 DEF FreeOwners
  <2>2. PICK i \in k .. n - 1 : own[q] = FreeIn(bud(i), i)
    BY <1>1, <2>1
  <2>3. r = bud(i) /\ j = i
    BY <1>11, <2>2 DEF FreeIn
  <2> QED BY <2>3
<1>12. ASSUME NEW j \in Orders, NEW r \in R[j]
       PROVE  /\ r \in Pfns /\ IsBlock(<<r, j>>) /\ page_zone_id[r] = z /\ r \in Frames(<<r, j>>)
              /\ \A q \in Frames(<<r, j>>) : q \in Pfns /\ own[q] = FreeIn(r, j)
              /\ own[r] = FreeIn(r, j)
  <2>1. IsBlock(<<r, j>>) /\ page_zone_id[r] = z /\ \A q \in Frames(<<r, j>>) : own[q] = FreeIn(r, j)
    BY <1>3 DEF BlocksOwned
  <2> QED BY <2>1, BlockFacts
<1> HIDE DEF Gone
<1>13. BlocksOwned(R2, z, own2)
  <2> SUFFICES ASSUME NEW j \in Orders, NEW r \in R2[j]
               PROVE  /\ IsBlock(<<r, j>>) /\ page_zone_id[r] = z
                      /\ \A q \in Frames(<<r, j>>) : own2[q] = FreeIn(r, j)
    BY DEF BlocksOwned
  <2>0. r \in Pfns
    BY <1>3
  <2>1. CASE r = base /\ j = n
    BY <1>1, <1>2, <1>4, <2>1 DEF F
  <2>2. CASE r \in R[j] /\ ~ Gone(r, j)
    <3>1. ASSUME NEW q \in Frames(<<r, j>>) PROVE q \notin F /\ q \in Pfns /\ own[q] = FreeIn(r, j)
      BY <1>11, <1>12, <2>0, <2>2
    <3> QED BY <1>4, <1>12, <2>2, <3>1
  <2> QED BY <1>10, <2>0, <2>1, <2>2
<1>14. OwnedInBlocks(R2, z, own2)
  <2> SUFFICES ASSUME NEW q \in Pfns, page_zone_id[q] = z, NEW r \in Pfns, NEW j \in Orders,
                      own2[q] = FreeIn(r, j)
               PROVE  r \in R2[j] /\ q \in Frames(<<r, j>>)
    BY DEF OwnedInBlocks
  <2>1. CASE q \in F
    <3>1. r = base /\ j = n
      BY <1>4, <2>1, FreeInUnique
    <3> QED BY <1>10, <2>1, <3>1 DEF F
  <2>2. CASE q \notin F
    <3>1. r \in R[j] /\ q \in Frames(<<r, j>>)
      BY <1>3, <1>4, <2>2 DEF OwnedInBlocks
    <3>2. ~ Gone(r, j)
      BY <1>1, <2>2, <3>1 DEF Gone
    <3> QED BY <1>10, <3>1, <3>2
  <2> QED BY <2>1, <2>2
<1>15. FlagsSay(pg2, R2, z)
  <2> SUFFICES ASSUME NEW r \in Pfns, NEW j \in Orders, page_zone_id[r] = z
               PROVE  pg2[r].buddy /\ pg2[r].private = j <=> r \in R2[j]
    BY DEF FlagsSay
  <2>1. CASE r = base
    <3>1. r \in R[j] => Gone(r, j)
      BY <1>2, <1>11, <1>12, <2>1
    <3> QED BY <1>6, <1>10, <2>1, <3>1
  <2>2. CASE r # base /\ \E i \in k .. n - 1 : r = bud(i)
    <3>1. PICK i \in k .. n - 1 : r = bud(i)
      BY <2>2
    <3>2. r \in R[i] /\ i \in Orders
      BY <1>0, <1>9, <3>1
    <3>3. r \in R[j] => Gone(r, j)
      <4>1. ASSUME r \in R[j] PROVE j = i
        <5>1. own[r] = FreeIn(r, j) /\ own[r] = FreeIn(r, i)
          BY <1>12, <3>2, <4>1
        <5> QED BY <5>1 DEF FreeIn
      <4> QED BY <3>1, <4>1 DEF Gone
    <3> QED BY <1>6, <1>10, <2>2, <3>3
  <2>3. CASE r # base /\ \A i \in k .. n - 1 : r # bud(i)
    <3>1. ~ Gone(r, j) /\ pg2[r] = pg[r]
      BY <1>6, <2>3 DEF Gone
    <3>2. pg[r].buddy /\ pg[r].private = j <=> r \in R[j]
      BY <1>3 DEF FlagsSay
    <3> QED BY <1>10, <2>3, <3>1, <3>2
  <2> QED BY <2>1, <2>2, <2>3
<1>16. NoBuddies(R2)
  <2> SUFFICES ASSUME NEW j \in 0 .. MAX_ORDER - 2, NEW r \in R2[j],
                      __find_buddy_pfn(r, j) \in R2[j]
               PROVE  FALSE
    BY DEF NoBuddies
  <2> DEFINE s == __find_buddy_pfn(r, j)
  <2>1. j \in Orders /\ j \in 0 .. MAX_ORDER - 1
    BY <1>0 DEF Orders
  <2>2. r \in Pfns /\ s \in Pfns
    BY <1>3, <2>1
  <2>3. Aligned(r, j)
    <3>1. IsBlock(<<r, j>>)
      BY <1>13, <2>1 DEF BlocksOwned
    <3> QED BY <3>1, BlockFacts
  <2>4. __find_buddy_pfn(s, j) = r /\ s # r
    <3>1. Pow2[j] \in Nat \ {0} /\ Align(r, j + 1) \in Nat
      BY <1>0, <2>1, <2>3, Pow2Facts, Buddies DEF Aligned
    <3> QED BY <2>1, <2>3, <3>1, Buddies
  <2>5. ~ (r \in R[j] /\ s \in R[j])
    BY <1>3 DEF NoBuddies
  <2>6. bud(n) = __find_buddy_pfn(base, n)
    BY DEF bud, base, Bud, Base
  <2>7. j = n /\ (r = base \/ s = base)
    BY <1>10, <2>1, <2>2, <2>5
  <2>8. n < MAX_ORDER - 1
    BY <1>0, <2>7
  <2>9. bud(n) \in Pfns /\ bud(n) # base /\ bud(n) \in R2[n]
    <3>1. CASE r = base
      BY <2>2, <2>4, <2>6, <2>7, <3>1
    <3>2. CASE s = base
      BY <2>2, <2>4, <2>6, <2>7, <3>2
    <3> QED BY <2>7, <3>1, <3>2
  <2>10. bud(n) \in R[n]
    BY <1>0, <1>10, <2>9
  <2> QED BY <1>7, <2>8, <2>10
<1>17. Moves(own, own2, z, Frames(<<p, k>>), FreeOwners)
  <2>1. FreeIn(base, n) \in FreeOwners
    BY <1>0, <1>2 DEF FreeOwners
  <2>2. ASSUME NEW q \in Frames(<<p, k>>) PROVE q \in Pfns /\ page_zone_id[q] = z /\ own2[q] \in FreeOwners
    BY <1>1, <1>4, <2>1
  <2>3. ASSUME NEW q \in Pfns \ Frames(<<p, k>>)
        PROVE  \/ own2[q] = own[q]
               \/ page_zone_id[q] = z /\ own[q] \in FreeOwners /\ own2[q] \in FreeOwners
    <3>1. CASE q \notin F
      BY <1>4, <3>1
    <3>2. CASE q \in F
      <4>1. PICK j \in k .. n - 1 : own[q] = FreeIn(bud(j), j)
        BY <1>1, <3>2
      <4>2. bud(j) \in Pfns /\ j \in Orders
        BY <1>0, <1>9, <1>12
      <4>3. own[q] \in FreeOwners
        BY <4>1, <4>2 DEF FreeOwners
      <4> QED BY <1>1, <1>4, <2>1, <3>2, <4>3
    <3> QED BY <3>1, <3>2
  <2> QED BY <2>2, <2>3 DEF Moves
<1> QED BY <1>3, <1>13, <1>14, <1>15, <1>16, <1>17 DEF FreeSets, own2

(* Max and Min are what their names say. *)
LEMMA MaxIs ==
    ASSUME NEW n \in Nat, NEW S \in SUBSET (0 .. n), S # {}
    PROVE  Max(S) \in S /\ \A y \in S : y <= Max(S)
<1> DEFINE T == {x \in 0 .. n : n - x \in S}
<1>1. PICK y \in S : TRUE
  OBVIOUS
<1>2. n - y \in T
  OBVIOUS
<1>3. PICK m \in T : \A x \in T : m <= x
  <2>1. T \in SUBSET Nat
    OBVIOUS
  <2>2. T # {}
    BY <1>2
  <2> HIDE DEF T
  <2> QED BY <2>1, <2>2, LeastNat
<1>4. n - m \in S /\ m \in 0 .. n
  BY <1>3
<1>5. ASSUME NEW x \in S PROVE n - m >= x
  <2>1. n - x \in T
    OBVIOUS
  <2>2. m <= n - x
    BY <1>3, <2>1
  <2> QED BY <1>4, <2>2
<1>6. \E x \in S : \A w \in S : x >= w
  BY <1>4, <1>5
<1>7. Max(S) \in S /\ \A w \in S : Max(S) >= w
  BY <1>6 DEF Max
<1> QED BY <1>7

LEMMA MinIs ==
    ASSUME NEW S \in SUBSET Nat, S # {}
    PROVE  Min(S) \in S /\ \A y \in S : Min(S) <= y
<1>1. \E m \in S : \A y \in S : m <= y
  BY LeastNat
<1> QED BY <1>1 DEF Min

(* The loop stops at an order where nothing is left to merge. *)
LEMMA MergedOrderIs ==
    ASSUME NEW v, NEW z, NEW own, ZoneInv(v, z, own), NEW p, NEW k, Taken(z, own, p, k)
    PROVE  LET n == MergedOrder(v, p, k)
               R == Sets(v.area)
           IN  /\ n \in k .. MAX_ORDER - 1 /\ Merges(R, p, k, n)
               /\ n < MAX_ORDER - 1 => Bud(p, n) \notin R[n]
<1> DEFINE R == Sets(v.area)
           Is(j) == page_is_buddy(v, Base(p, j), Bud(p, j), j)
           S == {m \in k .. MAX_ORDER - 1 : \A j \in k .. m - 1 : Is(j)}
           n == Max(S)
<1>0. /\ FreeSets(v.page, R, z, own)
      /\ k \in Nat /\ k \in Orders /\ MAX_ORDER \in Nat \ {0} /\ k <= MAX_ORDER - 1
  BY BlockFacts, OrdersFacts DEF ZoneInv, Taken
<1>1. MergedOrder(v, p, k) = n
  BY DEF MergedOrder, Base, Bud
<1> HIDE DEF R, Is
<1>2. n \in S /\ \A y \in S : y <= n
  <2>1. k \in S
    BY <1>0
  <2>2. S \in SUBSET (0 .. MAX_ORDER - 1) /\ MAX_ORDER - 1 \in Nat
    BY <1>0
  <2> HIDE DEF S
  <2> QED BY <2>1, <2>2, MaxIs
<1>3. n \in k .. MAX_ORDER - 1 /\ \A j \in k .. n - 1 : Is(j)
  BY <1>2
<1>4. n < MAX_ORDER - 1 => ~ Is(n)
  <2> SUFFICES ASSUME n < MAX_ORDER - 1, Is(n) PROVE FALSE
    OBVIOUS
  <2> HIDE DEF n
  <2>0. n \in Nat /\ k <= n
    BY <1>0, <1>3
  <2>1. n + 1 \in k .. MAX_ORDER - 1 /\ \A j \in k .. (n + 1) - 1 : j = n \/ j \in k .. n - 1
    BY <1>0, <2>0
  <2>2. \A j \in k .. (n + 1) - 1 : Is(j)
    BY <1>3, <2>1
  <2>3. n + 1 \in S
    BY <2>1, <2>2
  <2> QED BY <1>2, <2>0, <2>3
<1> HIDE DEF n, S
(* With the block merged up to order j, the code's test is that of the free sets. *)
<1>5. ASSUME NEW j \in k .. MAX_ORDER - 1, Merges(R, p, k, j)
      PROVE  Is(j) <=> Bud(p, j) \in R[j]
  <2>1. j \in Orders /\ j \in Nat /\ j \in 0 .. MAX_ORDER
    BY <1>0 DEF Orders
  <2>2. Base(p, j) \in Pfns /\ page_zone_id[Base(p, j)] = z
    <3>1. Merging(v.page, R, z, own, p, k, j)
      BY <1>0, <1>5 DEF Merging
    <3>2. /\ Aligned(Base(p, j), j) /\ Base(p, j) \in Frames(<<Base(p, j), j>>)
          /\ Base(p, j) \in Pfns /\ page_zone_id[Base(p, j)] = z
      BY <3>1, MergeBase
    <3> QED BY <3>2
  <2>3. ASSUME Is(j) PROVE Bud(p, j) \in R[j]
    <3>1. /\ Bud(p, j) \in Pfns /\ v.page[Bud(p, j)].buddy /\ v.page[Bud(p, j)].private = j
          /\ page_zone_id[Bud(p, j)] = z
      BY <2>2, <2>3 DEF Is, page_is_buddy
    <3> QED BY <1>0, <2>1, <3>1 DEF FreeSets, FlagsSay
  <2>4. ASSUME Bud(p, j) \in R[j] PROVE Is(j)
    <3>1. Bud(p, j) \in Pfns /\ page_zone_id[Bud(p, j)] = z
      BY <1>0, <2>1, <2>4 DEF FreeSets, BlocksOwned
    <3>2. v.page[Bud(p, j)].buddy /\ v.page[Bud(p, j)].private = j
      BY <1>0, <2>1, <2>4, <3>1 DEF FreeSets, FlagsSay
    <3> QED BY <2>2, <3>1, <3>2 DEF Is, page_is_buddy
  <2> QED BY <2>3, <2>4
<1>6. Merges(R, p, k, n)
  <2> DEFINE Bad == {j \in k .. n - 1 : Bud(p, j) \notin R[j]}
  <2> SUFFICES ASSUME Bad # {} PROVE FALSE
    BY DEF Merges
  <2>1. PICK j \in Bad : \A i \in Bad : j <= i
    <3>1. Bad \in SUBSET Nat
      BY <1>0, <1>3
    <3> HIDE DEF Bad
    <3> QED BY <3>1, LeastNat
  <2>2. j \in k .. n - 1 /\ Bud(p, j) \notin R[j] /\ j \in k .. MAX_ORDER - 1
    BY <1>0, <1>3, <2>1
  <2>3. Merges(R, p, k, j)
    <3>1. ASSUME NEW i \in k .. j - 1 PROVE Bud(p, i) \in R[i]
      <4>1. i \in k .. n - 1 /\ ~ (j <= i)
        BY <1>0, <1>3, <2>2
      <4> QED BY <2>1, <4>1
    <3> QED BY <3>1 DEF Merges
  <2> QED BY <1>3, <1>5, <2>2, <2>3
<1> QED BY <1>1, <1>3, <1>4, <1>5, <1>6 DEF R

(* __free_one_page makes the frames of its block free, with no two buddies left. *)
FreedOne(v, w, z, own, own2, Q) ==
    /\ ZoneInv(w, z, own2) /\ Moves(own, own2, z, Q, FreeOwners) /\ MarksOnly(v.page, w.page, z)

LEMMA FreeOne ==
    ASSUME NEW v, NEW z, NEW own, ZoneInv(v, z, own), NEW p, NEW k, Taken(z, own, p, k)
    PROVE  \E own2 : FreedOne(v, __free_one_page(v, p, k), z, own, own2, Frames(<<p, k>>))
<1> DEFINE R == Sets(v.area)
           w == __free_one_page(v, p, k)
           n == MergedOrder(v, p, k)
           base == Base(p, n)
           pg == v.page
           pg2 == w.page
           R2 == Sets(w.area)
<1>1. /\ n \in k .. MAX_ORDER - 1 /\ Merges(R, p, k, n)
      /\ n < MAX_ORDER - 1 => Bud(p, n) \notin R[n]
  BY MergedOrderIs
<1>2. /\ FreeSets(pg, R, z, own) /\ DOMAIN v.area = Orders /\ DOMAIN v.free = Orders
      /\ \A j \in Orders : IsList(v.area[j]) /\ v.free[j] = Len(v.area[j])
      /\ pg \in [Pfns -> PageRec]
      /\ k \in Nat /\ k \in Orders /\ MAX_ORDER \in Nat \ {0} /\ k <= MAX_ORDER - 1
  BY BlockFacts, OrdersFacts DEF ZoneInv, FreeSets, Taken
<1>3. /\ n \in Orders /\ n \in Nat /\ k <= n /\ \A j \in k .. n - 1 : j \in Orders
      /\ n \notin k .. n - 1
  BY <1>1, <1>2 DEF Orders
<1>4. pg2 = [q \in Pfns |->
                    IF q = base THEN [pg[q] EXCEPT !.buddy = TRUE, !.private = n]
                    ELSE IF q \in {Bud(p, j) : j \in k .. n - 1}
                    THEN [pg[q] EXCEPT !.buddy = FALSE, !.private = 0]
                    ELSE pg[q]]
  BY DEF __free_one_page, Base, Bud
<1>5. \E soon : w.area = [j \in Orders |->
                    IF j \in k .. n - 1 THEN Without(v.area[j], Bud(p, j))
                    ELSE IF j # n THEN v.area[j]
                    ELSE IF soon THEN Append(v.area[j], base) ELSE <<base>> \o v.area[j]]
  BY DEF __free_one_page, Base, Bud
<1>6. w.free = [j \in Orders |->
                    IF j \in k .. n - 1 THEN v.free[j] - 1
                    ELSE IF j = n THEN v.free[j] + 1 ELSE v.free[j]]
  BY DEF __free_one_page
<1> HIDE DEF w, n, base, R, pg
<1>7. base \in Pfns /\ base \notin R[n] /\ \A j \in k .. n - 1 : Bud(p, j) \in R[j]
  <2>1. /\ \A q \in Frames(<<base, n>>) :
              /\ q \in Pfns
              /\ \/ q \in Frames(<<p, k>>)
                 \/ \E j \in k .. n - 1 : own[q] = FreeIn(Bud(p, j), j)
    <3>1. Merging(pg, R, z, own, p, k, n)
      BY <1>1, <1>2 DEF Merging
    <3> QED BY <3>1, MergePath DEF base
  <2>2. base \in Frames(<<base, n>>)
    <3>1. p \in Nat /\ n \in 0 .. MAX_ORDER
      BY <1>3, BlockFacts, OrdersFacts DEF Taken
    <3>2. base \in Int
      BY <3>1, AlignFacts DEF base, Base, Aligned
    <3> QED BY <3>1, <3>2, FramesIn
  <2>3. base \notin R[n]
    <3> SUFFICES ASSUME base \in R[n] PROVE FALSE
      OBVIOUS
    <3>1. own[base] = FreeIn(base, n)
      BY <1>2, <1>3, <2>2 DEF FreeSets, BlocksOwned
    <3>2. base \notin Frames(<<p, k>>)
      BY <1>3, <2>1, <2>2, <3>1 DEF Taken, FreeOwners
    <3>3. PICK j \in k .. n - 1 : own[base] = FreeIn(Bud(p, j), j)
      BY <2>1, <2>2, <3>2
    <3>4. n = j
      BY <3>1, <3>3 DEF FreeIn
    <3> QED BY <1>3, <3>4
  <2> QED BY <1>1, <2>1, <2>2, <2>3 DEF Merges
<1>8. pg2 \in [Pfns -> PageRec] /\ MarksOnly(pg, pg2, z)
  <2>1. 0 \in Orders
    BY OrdersFacts
  <2>2. ASSUME NEW q \in Pfns
        PROVE  /\ pg2[q] \in PageRec
               /\ pg2[q].count = pg[q].count /\ pg2[q].head = pg[q].head
               /\ pg2[q].corder = pg[q].corder /\ pg2[q].tail = pg[q].tail
    <3>1. pg[q] \in PageRec
      BY <1>2
    <3>2. CASE q = base
      <4>1. pg2[q] = [pg[q] EXCEPT !.buddy = TRUE, !.private = n]
        BY <1>4, <3>2
      <4> QED BY <1>3, <3>1, <4>1 DEF PageRec
    <3>3. CASE q # base /\ q \in {Bud(p, j) : j \in k .. n - 1}
      <4>1. pg2[q] = [pg[q] EXCEPT !.buddy = FALSE, !.private = 0]
        BY <1>4, <3>3
      <4> QED BY <2>1, <3>1, <4>1 DEF PageRec
    <3>4. CASE q # base /\ q \notin {Bud(p, j) : j \in k .. n - 1}
      BY <1>4, <3>1, <3>4
    <3> QED BY <3>2, <3>3, <3>4
  <2>3. ASSUME NEW q \in Pfns, page_zone_id[q] # z PROVE pg2[q] = pg[q]
    <3>1. q # base
      <4>1. page_zone_id[base] = z
        <5>1. Merging(pg, R, z, own, p, k, n)
          BY <1>1, <1>2 DEF Merging
        <5>2. /\ Aligned(Base(p, n), n) /\ Base(p, n) \in Frames(<<Base(p, n), n>>)
              /\ Base(p, n) \in Pfns /\ page_zone_id[Base(p, n)] = z
          BY <5>1, MergeBase
        <5> QED BY <5>2 DEF base
      <4> QED BY <2>3, <4>1
    <3>2. ASSUME NEW j \in k .. n - 1 PROVE q # Bud(p, j)
      <4>1. Bud(p, j) \in R[j] /\ j \in Orders
        BY <1>3, <1>7
      <4>2. page_zone_id[Bud(p, j)] = z
        BY <1>2, <4>1 DEF FreeSets, BlocksOwned
      <4> QED BY <2>3, <4>2
    <3> QED BY <1>4, <3>1, <3>2
  <2>4. pg2 \in [Pfns -> PageRec]
    <3>1. pg2 = [q \in Pfns |-> pg2[q]]
      BY <1>4
    <3> QED BY <2>2, <3>1
  <2> QED BY <2>2, <2>3, <2>4 DEF MarksOnly
<1>9. DOMAIN w.area = Orders /\ DOMAIN w.free = Orders
  BY <1>5, <1>6
<1>10. ASSUME NEW j \in Orders
       PROVE  /\ IsList(w.area[j]) /\ w.free[j] = Len(w.area[j])
              /\ j \in k .. n - 1 => SeqRange(w.area[j]) = R[j] \ {Bud(p, j)}
              /\ j = n => SeqRange(w.area[j]) = R[j] \cup {base}
              /\ j \notin k .. n => SeqRange(w.area[j]) = R[j]
  <2>1. IsList(v.area[j]) /\ v.free[j] = Len(v.area[j]) /\ R[j] = SeqRange(v.area[j])
    BY <1>2 DEF R, Sets
  <2>2. CASE j \in k .. n - 1
    <3>1. w.area[j] = Without(v.area[j], Bud(p, j)) /\ w.free[j] = v.free[j] - 1
      BY <1>5, <1>6, <2>2
    <3>2. Bud(p, j) \in SeqRange(v.area[j])
      BY <1>7, <2>1, <2>2
    <3>3. j # n /\ j \in k .. n
      BY <1>2, <1>3, <2>2
    <3> QED BY <2>1, <2>2, <3>1, <3>2, <3>3, ListWithout
  <2>3. CASE j = n
    <3>1. /\ w.area[j] = Append(v.area[j], base) \/ w.area[j] = <<base>> \o v.area[j]
          /\ w.free[j] = v.free[j] + 1
      BY <1>3, <1>5, <1>6, <2>3
    <3>2. base \notin SeqRange(v.area[j]) /\ base \in Pfns
      BY <1>7, <2>1, <2>3
    <3>3. j \notin k .. n - 1 /\ j \in k .. n
      BY <1>2, <1>3, <2>3
    <3>4. CASE w.area[j] = Append(v.area[j], base)
      BY <2>1, <2>3, <3>1, <3>2, <3>3, <3>4, ListAppend
    <3>5. CASE w.area[j] = <<base>> \o v.area[j]
      BY <2>1, <2>3, <3>1, <3>2, <3>3, <3>5, ListPush
    <3> QED BY <3>1, <3>4, <3>5
  <2>4. CASE j \notin k .. n
    <3>1. j # n /\ j \notin k .. n - 1
      BY <1>2, <1>3, <2>4
    <3>2. w.area[j] = v.area[j] /\ w.free[j] = v.free[j]
      BY <1>5, <1>6, <3>1
    <3> QED BY <2>1, <2>4, <3>1, <3>2
  <2>5. j = n \/ j \in k .. n - 1 \/ j \notin k .. n
    BY <1>2, <1>3
  <2> QED BY <2>2, <2>3, <2>4, <2>5
<1>11. MergeStep(pg, R, z, own, p, k, n, pg2, R2)
  <2>1. R2 \in [Orders -> SUBSET Pfns] /\ \A j \in Orders : R2[j] = SeqRange(w.area[j])
    <3>1. \A j \in Orders : SeqRange(w.area[j]) \in SUBSET Pfns
      BY <1>10 DEF IsList, SeqRange
    <3> QED BY <3>1 DEF Sets
  <2>2. ASSUME NEW q \in Pfns
        PROVE  /\ q = base => pg2[q].buddy = TRUE /\ pg2[q].private = n
               /\ q # base /\ (\E j \in k .. n - 1 : q = Bud(p, j)) => pg2[q].buddy = FALSE
               /\ q # base /\ (\A j \in k .. n - 1 : q # Bud(p, j)) => pg2[q] = pg[q]
    <3>1. pg[q] \in PageRec
      BY <1>2
    <3>2. ASSUME q = base PROVE pg2[q].buddy = TRUE /\ pg2[q].private = n
      <4>1. pg2[q] = [pg[q] EXCEPT !.buddy = TRUE, !.private = n]
        BY <1>4, <3>2
      <4> QED BY <3>1, <4>1 DEF PageRec
    <3>3. ASSUME q # base, NEW j \in k .. n - 1, q = Bud(p, j) PROVE pg2[q].buddy = FALSE
      <4>1. pg2[q] = [pg[q] EXCEPT !.buddy = FALSE, !.private = 0]
        BY <1>4, <3>3
      <4> QED BY <3>1, <4>1 DEF PageRec
    <3>4. ASSUME q # base, \A j \in k .. n - 1 : q # Bud(p, j) PROVE pg2[q] = pg[q]
      BY <1>4, <3>4
    <3> QED BY <3>2, <3>3, <3>4
  <2> QED BY <1>1, <1>2, <1>8, <1>10, <2>1, <2>2 DEF MergeStep, Merging, base
<1>12. /\ FreeSets(pg2, R2, z, Merged(own, p, n))
       /\ Moves(own, Merged(own, p, n), z, Frames(<<p, k>>), FreeOwners)
  BY <1>11, MergeSets
<1>13. ZoneInv(w, z, Merged(own, p, n))
  BY <1>9, <1>10, <1>12 DEF ZoneInv
<1>14. FreedOne(v, w, z, own, Merged(own, p, n), Frames(<<p, k>>))
  BY <1>8, <1>12, <1>13 DEF FreedOne, pg
<1> QED BY <1>14 DEF w

-----------------------------------------------------------------------------
(* Splitting *)

(* The upper half of the first block of order j + 1 within block p *)
Half(p, j) == p + Pow2[j]

(* What remains of the frames of an aligned block without its first ones is in the
   upper halves, each frame in one. *)
LEMMA HalvesOf ==
    ASSUME NEW k \in Orders, NEW lo \in 0 .. k, NEW p, Aligned(p, k)
    PROVE  /\ \A j \in lo .. k - 1 :
                 /\ Aligned(Half(p, j), j) /\ Half(p, j) \in Frames(<<Half(p, j), j>>)
                 /\ __find_buddy_pfn(Half(p, j), j) = p
                 /\ Frames(<<Half(p, j), j>>) \subseteq Frames(<<p, k>>) \ Frames(<<p, lo>>)
           /\ \A q \in Frames(<<p, k>>) \ Frames(<<p, lo>>) :
                 \E j \in lo .. k - 1 : q \in Frames(<<Half(p, j), j>>)
           /\ \A i, j \in lo .. k - 1 : \A q :
                 q \in Frames(<<Half(p, i), i>>) /\ q \in Frames(<<Half(p, j), j>>) => i = j
           /\ Frames(<<p, lo>>) \subseteq Frames(<<p, k>>)
           /\ p \in Frames(<<p, lo>>)
<1>0. /\ k \in Nat /\ MAX_ORDER \in Nat \ {0} /\ k \in 0 .. MAX_ORDER /\ lo \in Nat /\ p \in Nat
      /\ lo \in 0 .. MAX_ORDER
      /\ \A j \in lo .. k - 1 : j \in Nat /\ j \in 0 .. MAX_ORDER /\ j \in 0 .. MAX_ORDER - 1
                                /\ j + 1 \in 0 .. k /\ j + 1 \in 0 .. MAX_ORDER /\ lo \in 0 .. j
  BY OrdersFacts DEF Aligned
<1>1. \A j \in 0 .. MAX_ORDER : \A q : q \in Frames(<<p, j>>) <=> q \in Int /\ p <= q /\ q < p + Pow2[j]
  <2> TAKE j \in 0 .. MAX_ORDER
  <2>1. p \in Int
    BY <1>0
  <2> QED BY <2>1, FramesIn
<1>2. ASSUME NEW j \in lo .. k - 1
      PROVE  /\ Pow2[j] \in Nat \ {0} /\ Pow2[j + 1] = 2 * Pow2[j]
             /\ Pow2[j + 1] <= Pow2[k] /\ Pow2[lo] <= Pow2[j] /\ Pow2[k] \in Nat /\ Pow2[lo] \in Nat
             /\ Aligned(Half(p, j), j) /\ Aligned(p, j + 1) /\ Half(p, j) \in Nat
             /\ \A q : q \in Frames(<<Half(p, j), j>>) <=> q \in Int /\ p + Pow2[j] <= q /\ q < p + Pow2[j + 1]
  <2>1. Pow2[j] \in Nat \ {0} /\ Pow2[j + 1] = 2 * Pow2[j] /\ Pow2[k] \in Nat /\ Pow2[lo] \in Nat
    BY <1>0, Pow2Facts
  <2>2. Aligned(p, j + 1)
    BY <1>0, AlignedBelow
  <2>3. Aligned(p + Pow2[j], j)
    BY <1>0, <2>2, AlignedDown
  <2>4. Pow2[j + 1] <= Pow2[k] /\ Pow2[lo] <= Pow2[j]
    BY <1>0, Pow2Mono
  <2> DEFINE h == Half(p, j)
  <2>5. h \in Int /\ h = p + Pow2[j] /\ h \in Nat
    BY <1>0, <2>1 DEF Half
  <2> HIDE DEF h
  <2>6. \A q : q \in Frames(<<h, j>>) <=> q \in Int /\ h <= q /\ q < h + Pow2[j]
    BY <1>0, <2>5, FramesIn
  <2>7. h + Pow2[j] = p + Pow2[j + 1]
    BY <1>0, <2>1, <2>5
  <2> QED BY <2>1, <2>2, <2>3, <2>4, <2>5, <2>6, <2>7 DEF h, Half
<1>3. ASSUME NEW j \in lo .. k - 1
      PROVE  /\ Aligned(Half(p, j), j) /\ Half(p, j) \in Frames(<<Half(p, j), j>>)
             /\ __find_buddy_pfn(Half(p, j), j) = p
             /\ Frames(<<Half(p, j), j>>) \subseteq Frames(<<p, k>>) \ Frames(<<p, lo>>)
  <2>1. Half(p, j) \in Frames(<<Half(p, j), j>>)
    BY <1>0, <1>2 DEF Half
  <2>2. Align(Half(p, j), j + 1) = p
    <3>1. Pow2[j] \in Nat \ {0} /\ Pow2[j + 1] = 2 * Pow2[j] /\ p \in Nat /\ Half(p, j) = p + Pow2[j]
      BY <1>0, <1>2 DEF Half
    <3>2. Half(p, j) \in p .. p + Pow2[j + 1] - 1
      BY <3>1
    <3> QED BY <1>0, <1>2, <3>2, AlignUnique
  <2>3. __find_buddy_pfn(Half(p, j), j) = p
    <3>1. \/ Half(p, j) = p /\ __find_buddy_pfn(Half(p, j), j) = p + Pow2[j]
          \/ __find_buddy_pfn(Half(p, j), j) = p /\ Half(p, j) = p + Pow2[j]
      <4> DEFINE h == Half(p, j)
      <4>1. Aligned(h, j) /\ j \in 0 .. MAX_ORDER - 1 /\ Align(h, j + 1) = p
        BY <1>0, <1>2, <2>2
      <4> HIDE DEF h
      <4>2. \/ h = Align(h, j + 1) /\ __find_buddy_pfn(h, j) = Align(h, j + 1) + Pow2[j]
            \/ __find_buddy_pfn(h, j) = Align(h, j + 1) /\ h = Align(h, j + 1) + Pow2[j]
        BY <4>1, Buddies
      <4> QED BY <4>1, <4>2 DEF h
    <3>2. Half(p, j) # p
      <4>1. Pow2[j] \in Nat \ {0} /\ p \in Nat /\ Half(p, j) = p + Pow2[j]
        BY <1>0, <1>2 DEF Half
      <4> QED BY <4>1
    <3> QED BY <3>1, <3>2
  <2>4. ASSUME NEW q \in Frames(<<Half(p, j), j>>) PROVE q \in Frames(<<p, k>>) /\ q \notin Frames(<<p, lo>>)
    <3>1. q \in Int /\ p + Pow2[j] <= q /\ q < p + Pow2[j + 1]
      BY <1>2
    <3>2. p <= q /\ q < p + Pow2[k] /\ ~ (q < p + Pow2[lo])
      BY <1>0, <1>2, <3>1
    <3> QED BY <1>0, <1>1, <3>1, <3>2
  <2> QED BY <1>2, <2>1, <2>3, <2>4
<1>4. ASSUME NEW q \in Frames(<<p, k>>) \ Frames(<<p, lo>>)
      PROVE  \E j \in lo .. k - 1 : q \in Frames(<<Half(p, j), j>>)
  <2> DEFINE S == {j \in lo .. k : q < p + Pow2[j]}
  <2>1. q \in Int /\ p <= q /\ q < p + Pow2[k] /\ ~ (q < p + Pow2[lo])
    BY <1>0, <1>1
  <2>2. k \in S /\ S \in SUBSET Nat /\ lo \notin S
    BY <1>0, <2>1
  <2>3. PICK m \in S : \A j \in S : m <= j
    <3> HIDE DEF S
    <3> QED BY <2>2, LeastNat
  <2>4. m \in lo .. k /\ q < p + Pow2[m] /\ m # lo
    BY <2>2, <2>3
  <2>5. m - 1 \in lo .. k - 1 /\ m - 1 \in lo .. k /\ (m - 1) + 1 = m /\ ~ (m <= m - 1)
    BY <1>0, <2>4
  <2>6. ~ (q < p + Pow2[m - 1])
    BY <2>3, <2>5
  <2>7. p + Pow2[m - 1] <= q
    <3>1. Pow2[m - 1] \in Nat
      BY <1>2, <2>5
    <3> QED BY <1>0, <2>1, <2>6, <3>1
  <2>8. q \in Frames(<<Half(p, m - 1), m - 1>>)
    BY <1>2, <2>1, <2>4, <2>5, <2>7
  <2> QED BY <2>5, <2>8
<1>5. ASSUME NEW i \in lo .. k - 1, NEW j \in lo .. k - 1, NEW q,
             q \in Frames(<<Half(p, i), i>>), q \in Frames(<<Half(p, j), j>>), i < j
      PROVE  FALSE
  <2>1. q < p + Pow2[i + 1] /\ p + Pow2[j] <= q /\ q \in Int
    BY <1>2, <1>5
  <2>2. Pow2[i + 1] <= Pow2[j]
    <3>1. i + 1 \in 0 .. j
      BY <1>0, <1>5
    <3> QED BY <1>0, <3>1, Pow2Mono
  <2>3. Pow2[i + 1] \in Nat /\ Pow2[j] \in Nat
    BY <1>0, Pow2Facts
  <2> QED BY <1>0, <2>1, <2>2, <2>3
<1>6. \A i, j \in lo .. k - 1 : \A q :
         q \in Frames(<<Half(p, i), i>>) /\ q \in Frames(<<Half(p, j), j>>) => i = j
  <2> SUFFICES ASSUME NEW i \in lo .. k - 1, NEW j \in lo .. k - 1, NEW q,
                      q \in Frames(<<Half(p, i), i>>), q \in Frames(<<Half(p, j), j>>), i # j
               PROVE  FALSE
    OBVIOUS
  <2>1. i < j \/ j < i
    BY <1>0
  <2> QED BY <1>5, <2>1
<1>7. Frames(<<p, lo>>) \subseteq Frames(<<p, k>>) /\ p \in Frames(<<p, lo>>)
  <2>1. Pow2[lo] <= Pow2[k] /\ Pow2[lo] \in Nat \ {0} /\ Pow2[k] \in Nat \ {0}
    BY <1>0, Pow2Mono, Pow2Facts
  <2> QED BY <1>0, <1>1, <2>1
<1> QED BY <1>3, <1>4, <1>6, <1>7

SplitOwn(own, p, lo, k, x) ==
    [q \in Pfns |->
       IF q \notin Frames(<<p, k>>) THEN own[q]
       ELSE IF q \in Frames(<<p, lo>>) THEN x
       ELSE LET j == CHOOSE j \in lo .. k - 1 : q \in Frames(<<Half(p, j), j>>)
            IN  FreeIn(Half(p, j), j)]

SplitStep(pg, R, z, own, p, lo, k, x, pg2, R2) ==
    /\ FreeSets(pg, R, z, own) /\ k \in Orders /\ lo \in 0 .. k /\ p \in R[k] /\ x \notin FreeOwners
    /\ pg2 \in [Pfns -> PageRec] /\ R2 \in [Orders -> SUBSET Pfns]
    /\ \A q \in Pfns :
          /\ q = p => pg2[q].buddy = FALSE
          /\ \A j \in lo .. k - 1 : q = Half(p, j) => pg2[q].buddy = TRUE /\ pg2[q].private = j
          /\ q # p /\ (\A j \in lo .. k - 1 : q # Half(p, j)) => pg2[q] = pg[q]
    /\ \A j \in Orders :
          /\ j \in lo .. k - 1 => R2[j] = R[j] \cup {Half(p, j)}
          /\ j = k => R2[j] = R[j] \ {p}
          /\ j \notin lo .. k => R2[j] = R[j]

LEMMA SplitSets ==
    ASSUME NEW pg, NEW R, NEW z, NEW own, NEW p, NEW lo, NEW k, NEW x, NEW pg2, NEW R2,
           SplitStep(pg, R, z, own, p, lo, k, x, pg2, R2)
    PROVE  /\ FreeSets(pg2, R2, z, SplitOwn(own, p, lo, k, x))
           /\ Moves(own, SplitOwn(own, p, lo, k, x), z, Frames(<<p, lo>>), {x})
           /\ IsBlock(<<p, lo>>)
           /\ \A q \in Frames(<<p, lo>>) : own[q] \in FreeOwners
<1> DEFINE own2 == SplitOwn(own, p, lo, k, x)
           F == Frames(<<p, k>>)
           E == Frames(<<p, lo>>)
           half(j) == Half(p, j)
           H(j) == Frames(<<Half(p, j), j>>)
<1>1. /\ R \in [Orders -> SUBSET Pfns] /\ BlocksOwned(R, z, own) /\ OwnedInBlocks(R, z, own)
      /\ FlagsSay(pg, R, z) /\ NoBuddies(R)
      /\ pg2 \in [Pfns -> PageRec] /\ R2 \in [Orders -> SUBSET Pfns] /\ pg \in [Pfns -> PageRec]
  BY DEF SplitStep, FreeSets
<1>2. /\ k \in Orders /\ k \in Nat /\ lo \in 0 .. k /\ lo \in Nat /\ p \in R[k] /\ x \notin FreeOwners
      /\ lo \in Orders /\ k \notin lo .. k - 1
      /\ \A j \in lo .. k - 1 : j \in Orders /\ j \in Nat /\ j # k
      /\ \A j \in Orders : j = k \/ j \in lo .. k - 1 \/ j \notin lo .. k
  BY OrdersFacts DEF SplitStep, Orders
<1>3. ASSUME NEW j \in Orders, NEW r \in R[j]
      PROVE  /\ r \in Pfns /\ IsBlock(<<r, j>>) /\ page_zone_id[r] = z /\ r \in Frames(<<r, j>>)
             /\ Aligned(r, j)
             /\ \A q \in Frames(<<r, j>>) : q \in Pfns /\ own[q] = FreeIn(r, j) /\ page_zone_id[q] = z
             /\ own[r] = FreeIn(r, j)
  <2>1. IsBlock(<<r, j>>) /\ page_zone_id[r] = z /\ \A q \in Frames(<<r, j>>) : own[q] = FreeIn(r, j)
    BY <1>1 DEF BlocksOwned
  <2> QED BY <2>1, BlockFacts
<1>4. /\ p \in Pfns /\ IsBlock(<<p, k>>) /\ page_zone_id[p] = z /\ p \in F /\ Aligned(p, k)
      /\ \A q \in F : q \in Pfns /\ own[q] = FreeIn(p, k) /\ page_zone_id[q] = z
      /\ own[p] = FreeIn(p, k)
  BY <1>2, <1>3
<1>5. /\ \A j \in lo .. k - 1 : /\ Aligned(half(j), j) /\ half(j) \in H(j)
                                /\ __find_buddy_pfn(half(j), j) = p
                                /\ H(j) \subseteq F \ E
      /\ \A q \in F \ E : \E j \in lo .. k - 1 : q \in H(j)
      /\ \A i, j \in lo .. k - 1 : \A q : q \in H(i) /\ q \in H(j) => i = j
      /\ E \subseteq F
      /\ p \in E
  BY <1>2, <1>4, HalvesOf
<1>6. /\ \A q \in Pfns \ F : own2[q] = own[q]
      /\ \A q \in E : own2[q] = x
      /\ \A j \in lo .. k - 1 : \A q \in H(j) : own2[q] = FreeIn(half(j), j)
  <2>1. ASSUME NEW j \in lo .. k - 1, NEW q \in H(j) PROVE own2[q] = FreeIn(half(j), j)
    <3> DEFINE i == CHOOSE i \in lo .. k - 1 : q \in Frames(<<Half(p, i), i>>)
    <3>1. i \in lo .. k - 1 /\ q \in H(i)
      BY <2>1
    <3>2. i = j
      BY <1>5, <2>1, <3>1
    <3>3. q \in F /\ q \notin E /\ q \in Pfns
      BY <1>4, <1>5, <2>1
    <3>4. own2[q] = FreeIn(Half(p, i), i)
      BY <3>3 DEF SplitOwn
    <3> QED BY <3>2, <3>4
  <2>2. \A q \in Pfns \ F : own2[q] = own[q]
    BY DEF SplitOwn
  <2>3. \A q \in E : own2[q] = x
    BY <1>4, <1>5 DEF SplitOwn
  <2> QED BY <2>1, <2>2, <2>3
<1>7. \A q \in Pfns :
          /\ q = p => pg2[q].buddy = FALSE
          /\ \A j \in lo .. k - 1 : q = half(j) => pg2[q].buddy = TRUE /\ pg2[q].private = j
          /\ q # p /\ (\A j \in lo .. k - 1 : q # half(j)) => pg2[q] = pg[q]
  BY DEF SplitStep
<1>8. \A j \in Orders :
          /\ j \in lo .. k - 1 => R2[j] = R[j] \cup {half(j)}
          /\ j = k => R2[j] = R[j] \ {p}
          /\ j \notin lo .. k => R2[j] = R[j]
  BY DEF SplitStep
<1> HIDE DEF own2, F, E, half, H
<1>9. \A j \in lo .. k - 1 : half(j) \in Pfns /\ half(j) # p /\ half(j) \in F /\ page_zone_id[half(j)] = z
  BY <1>4, <1>5
<1>10. \A j \in Orders, q \in Pfns :
          q \in R2[j] <=> \/ q \in R[j] /\ ~ (j = k /\ q = p)
                          \/ j \in lo .. k - 1 /\ q = half(j)
  BY <1>1, <1>2, <1>8
(* A free block that shares a frame with F is the one that is split. *)
<1>11. ASSUME NEW j \in Orders, NEW r \in R[j], NEW q \in Frames(<<r, j>>), q \in F PROVE r = p /\ j = k
  <2>1. own[q] = FreeIn(r, j) /\ own[q] = FreeIn(p, k)
    BY <1>3, <1>4, <1>11
  <2> QED BY <2>1 DEF FreeIn
<1>12. BlocksOwned(R2, z, own2)
  <2> SUFFICES ASSUME NEW j \in Orders, NEW r \in R2[j]
               PROVE  /\ IsBlock(<<r, j>>) /\ page_zone_id[r] = z
                      /\ \A q \in Frames(<<r, j>>) : own2[q] = FreeIn(r, j)
    BY DEF BlocksOwned
  <2>0. r \in Pfns
    BY <1>1
  <2>1. CASE r \in R[j] /\ ~ (j = k /\ r = p)
    <3>1. ASSUME NEW q \in Frames(<<r, j>>) PROVE q \notin F /\ q \in Pfns /\ own[q] = FreeIn(r, j)
      BY <1>3, <1>11, <2>1
    <3> QED BY <1>3, <1>6, <2>1, <3>1
  <2>2. CASE j \in lo .. k - 1 /\ r = half(j)
    <3>1. H(j) = Frames(<<r, j>>)
      BY <2>2 DEF H, half
    <3>2. \A q \in Frames(<<r, j>>) : q \in Pfns /\ page_zone_id[q] = z
      BY <1>4, <1>5, <2>2, <3>1
    <3>3. r % Pow2[j] = 0 /\ page_zone_id[r] = z
      BY <1>5, <1>9, <2>2 DEF Aligned
    <3>4. IsBlock(<<r, j>>)
      BY <2>0, <3>2, <3>3 DEF IsBlock, Blocks
    <3> QED BY <1>6, <2>2, <3>1, <3>3, <3>4
  <2> QED BY <1>10, <2>0, <2>1, <2>2
<1>13. OwnedInBlocks(R2, z, own2)
  <2> SUFFICES ASSUME NEW q \in Pfns, page_zone_id[q] = z, NEW r \in Pfns, NEW j \in Orders,
                      own2[q] = FreeIn(r, j)
               PROVE  r \in R2[j] /\ q \in Frames(<<r, j>>)
    BY DEF OwnedInBlocks
  <2>1. CASE q \notin F
    <3>1. own[q] = FreeIn(r, j)
      BY <1>6, <2>1
    <3>2. r \in R[j] /\ q \in Frames(<<r, j>>)
      BY <1>1, <3>1 DEF OwnedInBlocks
    <3>3. ~ (j = k /\ r = p)
      BY <2>1, <3>2 DEF F
    <3> QED BY <1>10, <3>2, <3>3
  <2>2. q \notin E
    BY <1>2, <1>6 DEF FreeOwners
  <2>3. CASE q \in F
    <3>1. PICK i \in lo .. k - 1 : q \in H(i)
      BY <1>5, <2>2, <2>3
    <3>2. own2[q] = FreeIn(half(i), i)
      BY <1>6, <3>1
    <3>3. r = half(i) /\ j = i
      BY <3>2 DEF FreeIn
    <3> QED BY <1>10, <3>1, <3>3 DEF H, half
  <2> QED BY <2>1, <2>3
<1>14. FlagsSay(pg2, R2, z)
  <2> SUFFICES ASSUME NEW r \in Pfns, NEW j \in Orders, page_zone_id[r] = z
               PROVE  pg2[r].buddy /\ pg2[r].private = j <=> r \in R2[j]
    BY DEF FlagsSay
  <2>1. CASE r = p
    <3>1. r \in R[j] => j = k
      BY <1>3, <1>4, <1>11, <2>1
    <3> QED BY <1>7, <1>9, <1>10, <2>1, <3>1
  <2>2. ASSUME NEW i \in lo .. k - 1, r = half(i) PROVE pg2[r].buddy /\ pg2[r].private = j <=> r \in R2[j]
    <3>1. r \notin R[j]
      BY <1>3, <1>9, <1>11, <2>2
    <3>2. ASSUME j \in lo .. k - 1, r = half(j) PROVE i = j
      BY <1>5, <2>2, <3>2
    <3>3. r \in R2[j] <=> j = i
      BY <1>10, <2>2, <3>1, <3>2
    <3>4. pg2[r].buddy = TRUE /\ pg2[r].private = i
      BY <1>7, <2>2
    <3> QED BY <3>3, <3>4
  <2>3. CASE r # p /\ \A i \in lo .. k - 1 : r # half(i)
    <3>1. pg2[r] = pg[r]
      BY <1>7, <2>3
    <3>2. pg[r].buddy /\ pg[r].private = j <=> r \in R[j]
      BY <1>1 DEF FlagsSay
    <3> QED BY <1>10, <2>3, <3>1, <3>2
  <2> QED BY <2>1, <2>2, <2>3
<1>15. NoBuddies(R2)
  <2> SUFFICES ASSUME NEW j \in 0 .. MAX_ORDER - 2, NEW r \in R2[j],
                      __find_buddy_pfn(r, j) \in R2[j]
               PROVE  FALSE
    BY DEF NoBuddies
  <2> DEFINE s == __find_buddy_pfn(r, j)
  <2>1. j \in Orders /\ j \in 0 .. MAX_ORDER - 1
    BY OrdersFacts DEF Orders
  <2>2. r \in Pfns /\ s \in Pfns
    BY <1>1, <2>1
  <2>3. Aligned(r, j)
    <3>1. IsBlock(<<r, j>>)
      BY <1>12, <2>1 DEF BlocksOwned
    <3> QED BY <3>1, BlockFacts
  <2>4. __find_buddy_pfn(s, j) = r
    BY <2>1, <2>3, Buddies
  <2>5. ~ (r \in R[j] /\ s \in R[j])
    BY <1>1 DEF NoBuddies
  <2> HIDE DEF s
  <2>6. j \in lo .. k - 1 /\ (r = half(j) \/ s = half(j))
    BY <1>10, <2>1, <2>2, <2>5 DEF s
  <2>7. p \in R2[j]
    <3>1. CASE r = half(j)
      BY <1>5, <2>6, <3>1
    <3>2. CASE s = half(j)
      BY <1>5, <2>4, <2>6, <3>2
    <3> QED BY <2>6, <3>1, <3>2
  <2>8. p \in R[j] /\ j # k
    BY <1>2, <1>4, <1>9, <1>10, <2>1, <2>6, <2>7
  <2> QED BY <1>3, <1>4, <1>11, <2>1, <2>8
<1>16. Moves(own, own2, z, E, {x})
  <2>1. \A q \in E : q \in Pfns /\ page_zone_id[q] = z /\ own2[q] \in {x}
    BY <1>4, <1>5, <1>6
  <2>2. ASSUME NEW q \in Pfns \ E
        PROVE  \/ own2[q] = own[q]
               \/ page_zone_id[q] = z /\ own[q] \in FreeOwners /\ own2[q] \in FreeOwners
    <3>1. CASE q \notin F
      BY <1>6, <3>1
    <3>2. CASE q \in F
      <4>1. PICK j \in lo .. k - 1 : q \in H(j)
        BY <1>5, <3>2
      <4>2. own2[q] = FreeIn(half(j), j) /\ own[q] = FreeIn(p, k)
        BY <1>4, <1>6, <3>2, <4>1
      <4>3. half(j) \in Pfns /\ j \in Orders /\ p \in Pfns /\ k \in Orders
        BY <1>2, <1>4, <1>9
      <4> QED BY <1>4, <3>2, <4>2, <4>3 DEF FreeOwners
    <3> QED BY <3>1, <3>2
  <2> QED BY <2>1, <2>2 DEF Moves
<1>17. IsBlock(<<p, lo>>)
  <2>1. Aligned(p, lo)
    <3>1. k \in 0 .. MAX_ORDER
      BY <1>2, OrdersFacts
    <3> QED BY <1>2, <1>4, <3>1, AlignedBelow
  <2>2. \A q \in Frames(<<p, lo>>) : q \in Pfns /\ page_zone_id[q] = page_zone_id[p]
    BY <1>4, <1>5 DEF E
  <2> QED BY <1>2, <1>4, <2>1, <2>2 DEF IsBlock, Blocks, Aligned
<1>18. \A q \in E : own[q] \in FreeOwners
  BY <1>2, <1>4, <1>5 DEF FreeOwners
<1> QED BY <1>1, <1>12, <1>13, <1>14, <1>15, <1>16, <1>17, <1>18 DEF FreeSets, own2, E

(* __rmqueue_smallest takes a block of free frames, if there is one as large. *)
TookOne(v, w, z, own, own2, p, lo, x) ==
    /\ ZoneInv(w, z, own2) /\ Moves(own, own2, z, Frames(<<p, lo>>), {x})
    /\ MarksOnly(v.page, w.page, z)
    /\ IsBlock(<<p, lo>>) /\ page_zone_id[p] = z
    /\ \A q \in Frames(<<p, lo>>) : own[q] \in FreeOwners

LEMMA TakeOne ==
    ASSUME NEW v, NEW z, NEW own, ZoneInv(v, z, own), NEW lo \in Orders, NEW x, x \notin FreeOwners
    PROVE  LET r == __rmqueue_smallest(v, lo)
           IN  \/ r.pfn = NoPage /\ r.v = v
               \/ r.pfn \in Pfns /\ \E own2 : TookOne(v, r.v, z, own, own2, r.pfn, lo, x)
<1> DEFINE S == {k \in lo .. MAX_ORDER - 1 : v.area[k] # <<>>}
           k == Min(S)
           p == Head(v.area[k])
           taken == [page |-> [v.page EXCEPT ![p].buddy = FALSE, ![p].private = 0],
                     area |-> [v.area EXCEPT ![k] = Tail(@)],
                     free |-> [v.free EXCEPT ![k] = @ - 1]]
           w == expand(taken, p, lo, k)
           r == __rmqueue_smallest(v, lo)
           R == Sets(v.area)
           R2 == Sets(w.area)
           pg == v.page
<1>1. CASE S = {}
  <2>1. r = [v |-> v, pfn |-> NoPage]
    BY <1>1 DEF __rmqueue_smallest
  <2> QED BY <2>1
<1>2. CASE S # {}
  <2>1. r = [v |-> w, pfn |-> p]
    BY <1>2 DEF __rmqueue_smallest
  <2> HIDE DEF r
  <2>2. /\ FreeSets(pg, R, z, own) /\ DOMAIN v.area = Orders /\ DOMAIN v.free = Orders
        /\ \A j \in Orders : IsList(v.area[j]) /\ v.free[j] = Len(v.area[j])
        /\ pg \in [Pfns -> PageRec] /\ MAX_ORDER \in Nat \ {0} /\ lo \in Nat /\ lo \in 0 .. MAX_ORDER - 1
    BY OrdersFacts DEF ZoneInv, FreeSets
  <2>3. k \in lo .. MAX_ORDER - 1 /\ v.area[k] # <<>>
    <3>1. S \in SUBSET Nat
      BY <2>2
    <3>2. k \in S
      <4> HIDE DEF S
      <4> QED BY <1>2, <3>1, MinIs
    <3> QED BY <3>2
  <2> HIDE DEF S, k
  <2>4. /\ k \in Orders /\ k \in Nat /\ lo \in 0 .. k /\ k \notin lo .. k - 1
        /\ \A j \in lo .. k - 1 : j \in Orders /\ j \in Nat /\ j # k
        /\ \A j \in Orders : j = k \/ j \in lo .. k - 1 \/ j \notin lo .. k
    BY <2>2, <2>3 DEF Orders
  <2>5. p \in SeqRange(v.area[k]) /\ p \in Pfns /\ p \in R[k]
    <3>1. IsList(v.area[k]) /\ v.area[k] # <<>>
      BY <2>2, <2>3, <2>4
    <3> QED BY <2>4, <3>1, ListTail DEF Sets
  <2> HIDE DEF p
  <2>6. taken.page = [v.page EXCEPT ![p].buddy = FALSE, ![p].private = 0]
        /\ taken.area = [v.area EXCEPT ![k] = Tail(@)] /\ taken.free = [v.free EXCEPT ![k] = @ - 1]
    OBVIOUS
  <2> HIDE DEF taken
  <2> DEFINE Is(q) == \E j \in lo .. k - 1 : q = p + Pow2[j]
             Which(q) == CHOOSE j \in lo .. k - 1 : q = p + Pow2[j]
  <2>7. /\ w.page = [q \in Pfns |->
                 IF Is(q)
                 THEN [taken.page[q] EXCEPT !.buddy = TRUE, !.private = Which(q)]
                 ELSE taken.page[q]]
        /\ w.area = [j \in Orders |->
                 IF j \in lo .. k - 1 THEN <<p + Pow2[j]>> \o taken.area[j] ELSE taken.area[j]]
        /\ w.free = [j \in Orders |->
                 IF j \in lo .. k - 1 THEN taken.free[j] + 1 ELSE taken.free[j]]
    BY DEF expand
  <2>7a. \A q : Is(q) => Which(q) \in lo .. k - 1 /\ q = p + Pow2[Which(q)]
    OBVIOUS
  <2> HIDE DEF w, Which
  <2>8. /\ IsBlock(<<p, k>>) /\ page_zone_id[p] = z /\ Aligned(p, k)
        /\ \A q \in Frames(<<p, k>>) : q \in Pfns /\ own[q] = FreeIn(p, k) /\ page_zone_id[q] = z
    <3>1. IsBlock(<<p, k>>) /\ page_zone_id[p] = z
          /\ \A q \in Frames(<<p, k>>) : own[q] = FreeIn(p, k)
      BY <2>2, <2>4, <2>5 DEF FreeSets, BlocksOwned
    <3> QED BY <3>1, BlockFacts
  <2> DEFINE H(j) == Frames(<<Half(p, j), j>>)
  <2>9. /\ \A j \in lo .. k - 1 : Half(p, j) \in H(j) /\ H(j) \subseteq Frames(<<p, k>>) \ Frames(<<p, lo>>)
        /\ \A i, j \in lo .. k - 1 : \A q : q \in H(i) /\ q \in H(j) => i = j
        /\ p \in Frames(<<p, lo>>)
    <3>1. /\ \A j \in lo .. k - 1 :
                 /\ Aligned(Half(p, j), j) /\ Half(p, j) \in Frames(<<Half(p, j), j>>)
                 /\ __find_buddy_pfn(Half(p, j), j) = p
                 /\ Frames(<<Half(p, j), j>>) \subseteq Frames(<<p, k>>) \ Frames(<<p, lo>>)
          /\ \A q \in Frames(<<p, k>>) \ Frames(<<p, lo>>) :
                 \E j \in lo .. k - 1 : q \in Frames(<<Half(p, j), j>>)
          /\ \A i, j \in lo .. k - 1 : \A q :
                 q \in Frames(<<Half(p, i), i>>) /\ q \in Frames(<<Half(p, j), j>>) => i = j
          /\ Frames(<<p, lo>>) \subseteq Frames(<<p, k>>)
          /\ p \in Frames(<<p, lo>>)
      BY <2>4, <2>8, HalvesOf
    <3> QED BY <3>1
  <2> HIDE DEF H
  <2>10. /\ \A j \in lo .. k - 1 : /\ Half(p, j) \in Pfns /\ Half(p, j) # p /\ page_zone_id[Half(p, j)] = z
                                   /\ Half(p, j) \in Frames(<<p, k>>)
         /\ \A i, j \in lo .. k - 1 : Half(p, i) = Half(p, j) => i = j
    BY <2>8, <2>9
  <2>11. /\ w.page[p] = [pg[p] EXCEPT !.buddy = FALSE, !.private = 0]
         /\ \A j \in lo .. k - 1 : w.page[Half(p, j)] = [pg[Half(p, j)] EXCEPT !.buddy = TRUE, !.private = j]
         /\ \A q \in Pfns : q # p /\ (\A j \in lo .. k - 1 : q # Half(p, j)) => w.page[q] = pg[q]
         /\ w.page = [q \in Pfns |-> w.page[q]]
    <3>1. taken.page[p] = [pg[p] EXCEPT !.buddy = FALSE, !.private = 0]
          /\ \A q \in Pfns \ {p} : taken.page[q] = pg[q]
      BY <2>2, <2>5, <2>6
    <3>2. ~ Is(p)
      BY <2>10 DEF Half
    <3>3. w.page[p] = taken.page[p]
      BY <2>5, <2>7, <3>2
    <3>4. ASSUME NEW j \in lo .. k - 1
          PROVE  w.page[Half(p, j)] = [pg[Half(p, j)] EXCEPT !.buddy = TRUE, !.private = j]
      <4> DEFINE q == Half(p, j)
                 i == Which(q)
      <4>1. q = p + Pow2[j] /\ q \in Pfns \ {p} /\ Is(q)
        BY <2>10 DEF Half
      <4>2. i \in lo .. k - 1 /\ q = p + Pow2[i]
        BY <2>7a, <4>1
      <4>3. i = j
        BY <2>10, <4>2 DEF Half
      <4> HIDE DEF q, Is
      <4>4. w.page[q] = [taken.page[q] EXCEPT !.buddy = TRUE, !.private = i]
        BY <2>7, <4>1
      <4> QED BY <3>1, <4>1, <4>3, <4>4 DEF q
    <3>5. \A q \in Pfns : q # p /\ (\A j \in lo .. k - 1 : q # Half(p, j)) => w.page[q] = pg[q]
      <4> SUFFICES ASSUME NEW q \in Pfns, q # p, \A j \in lo .. k - 1 : q # Half(p, j)
                   PROVE  w.page[q] = pg[q]
        OBVIOUS
      <4>1. ~ Is(q)
        BY DEF Half
      <4> HIDE DEF Is
      <4>2. w.page[q] = taken.page[q]
        BY <2>7, <4>1
      <4> QED BY <3>1, <4>2
    <3> QED BY <2>7, <3>1, <3>3, <3>4, <3>5
  <2>12. ASSUME NEW q \in Pfns
         PROVE  /\ w.page[q] \in PageRec
                /\ w.page[q].count = pg[q].count /\ w.page[q].head = pg[q].head
                /\ w.page[q].corder = pg[q].corder /\ w.page[q].tail = pg[q].tail
                /\ q = p => w.page[q].buddy = FALSE
                /\ \A j \in lo .. k - 1 : q = Half(p, j) => w.page[q].buddy = TRUE /\ w.page[q].private = j
                /\ page_zone_id[q] # z => w.page[q] = pg[q]
    <3>1. pg[q] \in PageRec /\ 0 \in Orders
      BY <2>2, OrdersFacts
    <3>2. CASE q = p
      <4>1. w.page[q] = [pg[q] EXCEPT !.buddy = FALSE, !.private = 0]
        BY <2>11, <3>2
      <4>2. /\ w.page[q] \in PageRec
            /\ w.page[q].count = pg[q].count /\ w.page[q].head = pg[q].head
            /\ w.page[q].corder = pg[q].corder /\ w.page[q].tail = pg[q].tail
            /\ w.page[q].buddy = FALSE
        BY <3>1, <4>1 DEF PageRec
      <4> QED BY <2>8, <2>10, <3>2, <4>2
    <3>3. CASE \E j \in lo .. k - 1 : q = Half(p, j)
      <4>1. PICK j \in lo .. k - 1 : q = Half(p, j)
        BY <3>3
      <4>2. w.page[q] = [pg[q] EXCEPT !.buddy = TRUE, !.private = j] /\ j \in Orders
        BY <2>4, <2>11, <4>1
      <4>3. /\ w.page[q] \in PageRec
            /\ w.page[q].count = pg[q].count /\ w.page[q].head = pg[q].head
            /\ w.page[q].corder = pg[q].corder /\ w.page[q].tail = pg[q].tail
            /\ w.page[q].buddy = TRUE /\ w.page[q].private = j
        BY <3>1, <4>2 DEF PageRec
      <4>4. q # p /\ page_zone_id[q] = z /\ \A i \in lo .. k - 1 : q = Half(p, i) => i = j
        BY <2>10, <4>1
      <4> QED BY <4>3, <4>4
    <3>4. CASE q # p /\ \A j \in lo .. k - 1 : q # Half(p, j)
      BY <2>11, <3>1, <3>4
    <3> QED BY <3>2, <3>3, <3>4
  <2>13. w.page \in [Pfns -> PageRec] /\ MarksOnly(pg, w.page, z)
    BY <2>11, <2>12 DEF MarksOnly
  <2>14. DOMAIN w.area = Orders /\ DOMAIN w.free = Orders
    BY <2>7
  <2>15. ASSUME NEW j \in Orders
         PROVE  /\ IsList(w.area[j]) /\ w.free[j] = Len(w.area[j])
                /\ j \in lo .. k - 1 => SeqRange(w.area[j]) = R[j] \cup {Half(p, j)}
                /\ j = k => SeqRange(w.area[j]) = R[j] \ {p}
                /\ j \notin lo .. k => SeqRange(w.area[j]) = R[j]
    <3>1. IsList(v.area[j]) /\ v.free[j] = Len(v.area[j]) /\ R[j] = SeqRange(v.area[j])
      BY <2>2 DEF Sets
    <3>2. CASE j \in lo .. k - 1
      <4>1. j # k /\ j \in lo .. k /\ taken.area[j] = v.area[j] /\ taken.free[j] = v.free[j]
        BY <2>2, <2>4, <2>6, <3>2
      <4>2. w.area[j] = <<Half(p, j)>> \o v.area[j] /\ w.free[j] = v.free[j] + 1
        BY <2>7, <3>2, <4>1 DEF Half
      <4>3. Half(p, j) \notin SeqRange(v.area[j])
        <5> SUFFICES ASSUME Half(p, j) \in R[j] PROVE FALSE
          BY <3>1
        <5>1. own[Half(p, j)] = FreeIn(Half(p, j), j)
          BY <2>2, <2>9, <3>2 DEF FreeSets, BlocksOwned, H
        <5>2. own[Half(p, j)] = FreeIn(p, k)
          BY <2>8, <2>10, <3>2
        <5>3. j = k
          BY <5>1, <5>2 DEF FreeIn
        <5> QED BY <4>1, <5>3
      <4>4. Half(p, j) \in Pfns
        BY <2>10, <3>2
      <4> QED BY <3>1, <3>2, <4>1, <4>2, <4>3, <4>4, ListPush
    <3>3. CASE j = k
      <4>1. j \notin lo .. k - 1 /\ j \in lo .. k
        BY <2>4, <3>3
      <4>2. taken.area[j] = Tail(v.area[j]) /\ taken.free[j] = v.free[j] - 1
        BY <2>2, <2>4, <2>6, <3>3
      <4>3. w.area[j] = Tail(v.area[j]) /\ w.free[j] = v.free[j] - 1
        BY <2>7, <4>1, <4>2
      <4>4. v.area[j] # <<>> /\ Head(v.area[j]) = p
        BY <2>3, <3>3 DEF p
      <4> QED BY <3>1, <3>3, <4>1, <4>3, <4>4, ListTail
    <3>4. CASE j \notin lo .. k
      <4>1. j # k /\ j \notin lo .. k - 1
        BY <2>4, <3>4
      <4>2. taken.area[j] = v.area[j] /\ taken.free[j] = v.free[j]
        BY <2>2, <2>4, <2>6, <4>1
      <4>3. w.area[j] = v.area[j] /\ w.free[j] = v.free[j]
        BY <2>7, <4>1, <4>2
      <4> QED BY <3>1, <3>4, <4>1, <4>3
    <3> QED BY <2>4, <3>2, <3>3, <3>4
  <2>16. SplitStep(pg, R, z, own, p, lo, k, x, w.page, R2)
    <3>1. R2 \in [Orders -> SUBSET Pfns] /\ \A j \in Orders : R2[j] = SeqRange(w.area[j])
      <4>1. \A j \in Orders : SeqRange(w.area[j]) \in SUBSET Pfns
        BY <2>15 DEF IsList, SeqRange
      <4> QED BY <4>1 DEF Sets
    <3> HIDE DEF R, R2, pg
    <3> QED BY <2>2, <2>4, <2>5, <2>11, <2>12, <2>13, <2>15, <3>1 DEF SplitStep
  <2> DEFINE own2 == SplitOwn(own, p, lo, k, x)
  <2>17. /\ FreeSets(w.page, R2, z, own2)
         /\ Moves(own, own2, z, Frames(<<p, lo>>), {x})
         /\ IsBlock(<<p, lo>>)
         /\ \A q \in Frames(<<p, lo>>) : own[q] \in FreeOwners
    BY <2>16, SplitSets
  <2> HIDE DEF own2
  <2>18. ZoneInv(w, z, own2)
    BY <2>14, <2>15, <2>17 DEF ZoneInv
  <2>19. TookOne(v, w, z, own, own2, p, lo, x)
    BY <2>8, <2>13, <2>17, <2>18 DEF TookOne
  <2>20. r.pfn = p /\ r.v = w /\ \E o : TookOne(v, w, z, own, o, p, lo, x)
    BY <2>1, <2>19
  <2> QED BY <2>5, <2>20 DEF r
<1> QED BY <1>1, <1>2

-----------------------------------------------------------------------------
(* Several pages at once *)

LEMMA MovesCompose ==
    ASSUME NEW own, NEW o1, NEW o2, NEW z, NEW Q1, NEW Q2, NEW T,
           Moves(own, o1, z, Q1, T), Moves(o1, o2, z, Q2, T),
           T = FreeOwners \/ T \cap FreeOwners = {}
    PROVE  Moves(own, o2, z, Q1 \cup Q2, T)
<1>1. ASSUME NEW q \in Q1 \cup Q2 PROVE q \in Pfns /\ page_zone_id[q] = z /\ o2[q] \in T
  <2>1. CASE q \in Q2
    BY <2>1 DEF Moves
  <2>2. CASE q \notin Q2
    <3>1. q \in Q1 /\ q \in Pfns /\ page_zone_id[q] = z /\ o1[q] \in T
      BY <1>1, <2>2 DEF Moves
    <3>2. o2[q] = o1[q] \/ (o1[q] \in FreeOwners /\ o2[q] \in FreeOwners)
      BY <2>2, <3>1 DEF Moves
    <3> QED BY <3>1, <3>2
  <2> QED BY <2>1, <2>2
<1>2. ASSUME NEW q \in Pfns \ (Q1 \cup Q2)
      PROVE  \/ o2[q] = own[q]
             \/ /\ page_zone_id[q] = z
                /\ own[q] \in FreeOwners /\ o2[q] \in FreeOwners
  BY DEF Moves
<1> QED BY <1>1, <1>2 DEF Moves

LEMMA MarksCompose ==
    ASSUME NEW pg, NEW pg1, NEW pg2, NEW z, MarksOnly(pg, pg1, z), MarksOnly(pg1, pg2, z)
    PROVE  MarksOnly(pg, pg2, z)
BY DEF MarksOnly

LEMMA MarksNone ==
    ASSUME NEW pg, NEW z PROVE MarksOnly(pg, pg, z)
BY DEF MarksOnly

LEMMA MovesNone ==
    ASSUME NEW own, NEW z, NEW T PROVE Moves(own, own, z, {}, T)
BY DEF Moves

(* One page is a block of order 0. *)
LEMMA OnePage ==
    ASSUME NEW p \in Pfns
    PROVE  IsBlock(<<p, 0>>) /\ Frames(<<p, 0>>) = {p}
<1>1. p \in Nat /\ Pow2[0] = 1 /\ 0 \in Orders
  BY PfnsAssumption, Pow2Facts, OrdersFacts
<1>2. Frames(<<p, 0>>) = {p}
  <2>1. Frames(<<p, 0>>) = p .. p + 1 - 1
    BY <1>1 DEF Frames
  <2> QED BY <1>1, <2>1
<1>3. p % 1 = 0
  BY <1>1
<1> QED BY <1>1, <1>2, <1>3 DEF IsBlock, Blocks

(* The last i pages of a list *)
LastOf(list, i) == {list[j] : j \in Len(list) + 1 - i .. Len(list)}

(* free_pcppages_bulk makes the last n pages of the list free. *)
Freeable(v, z, own, list, n) ==
    /\ ZoneInv(v, z, own) /\ IsList(list) /\ n \in 0 .. Len(list)
    /\ \A i \in DOMAIN list : page_zone_id[list[i]] = z /\ own[list[i]] \notin FreeOwners

LEMMA FreeBulk ==
    ASSUME NEW v, NEW z, NEW own, NEW list, NEW n, Freeable(v, z, own, list, n)
    PROVE  \E own2 : FreedOne(v, free_pcppages_bulk(v, list, n), z, own, own2, LastOf(list, n))
<1> DEFINE L == Len(list)
           G(u, i) == __free_one_page(u, list[Len(list) + 1 - i], 0)
           Def(f, m) == f = [i \in 0 .. m |-> IF i = 0 THEN v ELSE G(f[i - 1], i)]
           bulk == CHOOSE f : f = [i \in 0 .. n |-> IF i = 0 THEN v
                               ELSE __free_one_page(f[i - 1], list[Len(list) + 1 - i], 0)]
<1>0. n \in Nat /\ L \in Nat /\ n <= L /\ DOMAIN list = 1 .. L /\ list \in [1 .. L -> Pfns]
      /\ \A i, j \in 1 .. L : list[i] = list[j] => i = j
  <2>1. list \in Seq(Pfns) /\ \A i, j \in DOMAIN list : list[i] = list[j] => i = j
    BY DEF Freeable, IsList
  <2>2. L \in Nat /\ DOMAIN list = 1 .. L /\ list \in [1 .. L -> Pfns]
    BY <2>1
  <2> QED BY <2>1, <2>2 DEF Freeable
<1>1. \E f : Def(f, n)
  <2> DEFINE S == {m \in 0 .. n : \E f : Def(f, m)}
  <2> HIDE DEF G
  <2>1. 0 \in S
    <3> DEFINE f == [i \in 0 .. 0 |-> v]
    <3>1. Def(f, 0)
      OBVIOUS
    <3> HIDE DEF Def
    <3> QED BY <1>0, <3>1
  <2>2. ASSUME NEW m \in 1 .. n, m - 1 \in S PROVE m \in S
    <3>1. PICK f : Def(f, m - 1)
      BY <2>2
    <3> DEFINE g == [i \in 0 .. m |-> IF i = m THEN G(f[m - 1], m) ELSE f[i]]
    <3>2. ASSUME NEW i \in 0 .. m PROVE g[i] = IF i = 0 THEN v ELSE G(g[i - 1], i)
      <4>1. CASE i = m
        <5>1. g[i - 1] = f[m - 1] /\ i # 0
          BY <1>0, <4>1
        <5> QED BY <4>1, <5>1
      <4>2. CASE i # m /\ i # 0
        <5>1. i \in 0 .. m - 1 /\ g[i] = f[i] /\ g[i - 1] = f[i - 1]
          BY <1>0, <4>2
        <5> QED BY <3>1, <4>2, <5>1
      <4>3. CASE i # m /\ i = 0
        BY <1>0, <3>1, <4>3
      <4> QED BY <4>1, <4>2, <4>3
    <3>3. g = [i \in 0 .. m |-> g[i]]
      OBVIOUS
    <3> HIDE DEF g
    <3>4. Def(g, m)
      BY <3>2, <3>3
    <3> QED BY <3>4
  <2> HIDE DEF S
  <2>3. 0 .. n \subseteq S
    BY <1>0, <2>1, <2>2, UpTo
  <2>4. n \in S
    BY <1>0, <2>3
  <2> HIDE DEF Def
  <2> QED BY <2>4 DEF S
<1>2. Def(bulk, n)
  <2>1. \E f : f = [i \in 0 .. n |-> IF i = 0 THEN v
                               ELSE __free_one_page(f[i - 1], list[Len(list) + 1 - i], 0)]
    BY <1>1
  <2> QED BY <2>1
<1>3. free_pcppages_bulk(v, list, n) = bulk[n]
  BY DEF free_pcppages_bulk
<1> HIDE DEF bulk
<1>4. bulk[0] = v /\ \A i \in 1 .. n : bulk[i] = G(bulk[i - 1], i)
  <2> HIDE DEF G
  <2> QED BY <1>0, <1>2
<1> DEFINE P(i) == \E o : FreedOne(v, bulk[i], z, own, o, LastOf(list, i))
           S == {i \in 0 .. n : P(i)}
<1>5. 0 \in S
  <2>1. LastOf(list, 0) = {}
    BY <1>0 DEF LastOf
  <2>2. ZoneInv(v, z, own)
    BY DEF Freeable
  <2>3. FreedOne(v, v, z, own, own, {})
    BY <2>2, MovesNone, MarksNone DEF FreedOne
  <2>4. P(0)
    BY <1>4, <2>1, <2>3
  <2> HIDE DEF P
  <2> QED BY <1>0, <2>4
<1>6. ASSUME NEW i \in 1 .. n, i - 1 \in S PROVE i \in S
  <2> DEFINE u == bulk[i - 1]
             p == list[L + 1 - i]
             Q == LastOf(list, i - 1)
  <2>1. PICK o1 : FreedOne(v, u, z, own, o1, Q)
    BY <1>6
  <2>2. L + 1 - i \in 1 .. L /\ p \in Pfns /\ page_zone_id[p] = z /\ own[p] \notin FreeOwners
    BY <1>0 DEF Freeable
  <2>3. p \notin Q /\ LastOf(list, i) = Q \cup {p}
    BY <1>0 DEF LastOf
  <2> HIDE DEF u, p, Q
  <2>4. o1[p] \notin FreeOwners /\ ZoneInv(u, z, o1)
    BY <2>1, <2>2, <2>3 DEF FreedOne, Moves
  <2>5. Taken(z, o1, p, 0) /\ Frames(<<p, 0>>) = {p}
    BY <2>2, <2>4, OnePage DEF Taken
  <2>6. PICK o2 : FreedOne(u, __free_one_page(u, p, 0), z, o1, o2, {p})
    BY <2>4, <2>5, FreeOne
  <2>7. bulk[i] = __free_one_page(u, p, 0)
    BY <1>4 DEF u, p
  <2> DEFINE w == bulk[i]
  <2>8. FreedOne(u, w, z, o1, o2, {p})
    BY <2>6, <2>7
  <2> HIDE DEF w
  <2>9. ZoneInv(w, z, o2) /\ Moves(own, o2, z, Q \cup {p}, FreeOwners) /\ MarksOnly(v.page, w.page, z)
    BY <2>1, <2>8, MovesCompose, MarksCompose DEF FreedOne
  <2>10. FreedOne(v, w, z, own, o2, LastOf(list, i))
    BY <2>3, <2>9 DEF FreedOne
  <2> QED BY <1>0, <2>10 DEF w
<1>7. n \in S
  <2> HIDE DEF S
  <2>1. n \in Nat /\ \A i \in 1 .. n : i - 1 \in S => i \in S
    BY <1>0, <1>6
  <2>2. 0 .. n \subseteq S
    BY <1>5, <2>1, UpTo
  <2> QED BY <2>1, <2>2
<1> QED BY <1>3, <1>7

(* rmqueue_bulk takes a list of different free pages. *)
TookBulk(v, w, z, own, own2, list, x) ==
    /\ ZoneInv(w, z, own2) /\ Moves(own, own2, z, SeqRange(list), {x})
    /\ MarksOnly(v.page, w.page, z)
    /\ IsList(list) /\ \A q \in SeqRange(list) : own[q] \in FreeOwners

LEMMA TakeBulk ==
    ASSUME NEW v, NEW z, NEW own, ZoneInv(v, z, own), NEW n \in Nat, NEW x, x \notin FreeOwners
    PROVE  LET r == rmqueue_bulk(v, n)
           IN  Len(r.list) <= n /\ \E own2 : TookBulk(v, r.v, z, own, own2, r.list, x)
<1> DEFINE R(u) == __rmqueue_smallest(u.v, 0)
           G(u) == [v |-> R(u).v,
                    list |-> u.list \o (IF R(u).pfn = NoPage THEN <<>> ELSE <<R(u).pfn>>)]
           a == [v |-> v, list |-> <<>>]
           Def(f, m) == f = [i \in 0 .. m |-> IF i = 0 THEN a ELSE G(f[i - 1])]
           bulk == CHOOSE f : f = [i \in 0 .. n |->
              IF i = 0 THEN [v |-> v, list |-> <<>>]
              ELSE LET r == __rmqueue_smallest(f[i - 1].v, 0)
                   IN [v |-> r.v,
                       list |-> f[i - 1].list \o
                                  (IF r.pfn = NoPage THEN <<>> ELSE <<r.pfn>>)]]
<1>1. \E f : Def(f, n)
  <2> DEFINE S == {m \in 0 .. n : \E f : Def(f, m)}
  <2> HIDE DEF G, a
  <2>1. 0 \in S
    <3> DEFINE f == [i \in 0 .. 0 |-> a]
    <3>1. Def(f, 0)
      OBVIOUS
    <3> HIDE DEF Def
    <3> QED BY <3>1
  <2>2. ASSUME NEW m \in 1 .. n, m - 1 \in S PROVE m \in S
    <3>1. PICK f : Def(f, m - 1)
      BY <2>2
    <3> DEFINE g == [i \in 0 .. m |-> IF i = m THEN G(f[m - 1]) ELSE f[i]]
    <3>2. ASSUME NEW i \in 0 .. m PROVE g[i] = IF i = 0 THEN a ELSE G(g[i - 1])
      <4>1. CASE i = m
        <5>1. g[i - 1] = f[m - 1] /\ i # 0
          BY <4>1
        <5> QED BY <4>1, <5>1
      <4>2. CASE i # m /\ i # 0
        <5>1. i \in 0 .. m - 1 /\ g[i] = f[i] /\ g[i - 1] = f[i - 1]
          BY <4>2
        <5> QED BY <3>1, <4>2, <5>1
      <4>3. CASE i # m /\ i = 0
        BY <3>1, <4>3
      <4> QED BY <4>1, <4>2, <4>3
    <3>3. g = [i \in 0 .. m |-> g[i]]
      OBVIOUS
    <3> HIDE DEF g
    <3>4. Def(g, m)
      BY <3>2, <3>3
    <3> QED BY <3>4
  <2> HIDE DEF S
  <2>3. 0 .. n \subseteq S
    BY <2>1, <2>2, UpTo
  <2>4. n \in S
    BY <2>3
  <2> HIDE DEF Def
  <2> QED BY <2>4 DEF S
<1>2. Def(bulk, n)
  <2>1. \E f : f = [i \in 0 .. n |->
              IF i = 0 THEN [v |-> v, list |-> <<>>]
              ELSE LET r == __rmqueue_smallest(f[i - 1].v, 0)
                   IN [v |-> r.v,
                       list |-> f[i - 1].list \o
                                  (IF r.pfn = NoPage THEN <<>> ELSE <<r.pfn>>)]]
    BY <1>1
  <2> QED BY <2>1
<1>3. rmqueue_bulk(v, n) = bulk[n]
  BY DEF rmqueue_bulk
<1> HIDE DEF bulk
<1>4. bulk[0] = a /\ \A i \in 1 .. n : bulk[i] = G(bulk[i - 1])
  <2> HIDE DEF G, a
  <2> QED BY <1>2
<1> DEFINE P(u, i) == Len(u.list) <= i /\ \E o : TookBulk(v, u.v, z, own, o, u.list, x)
           S == {i \in 0 .. n : P(bulk[i], i)}
<1>5. 0 \in S
  <2>1. IsList(<<>>) /\ SeqRange(<<>>) = {}
    BY DEF IsList, SeqRange
  <2>2. TookBulk(v, v, z, own, own, <<>>, x)
    BY <2>1, MovesNone, MarksNone DEF TookBulk
  <2>3. P(a, 0)
    BY <2>2
  <2> HIDE DEF P, a
  <2> QED BY <1>4, <2>3
<1>6. ASSUME NEW u, NEW m \in Nat, P(u, m) PROVE P(G(u), m + 1)
  <2>1. PICK o1 : TookBulk(v, u.v, z, own, o1, u.list, x)
    BY <1>6
  <2> DEFINE r == R(u)
  <2>2. ZoneInv(u.v, z, o1) /\ 0 \in Orders
    BY <2>1, OrdersFacts DEF TookBulk
  <2>3. \/ r.pfn = NoPage /\ r.v = u.v
        \/ r.pfn \in Pfns /\ \E o2 : TookOne(u.v, r.v, z, o1, o2, r.pfn, 0, x)
    BY <2>2, TakeOne
  <2> HIDE DEF R
  <2>4. CASE r.pfn = NoPage /\ r.v = u.v
    <3>1. G(u).v = u.v /\ G(u).list = u.list \o <<>>
      BY <2>4
    <3>2. u.list \o <<>> = u.list
      BY <2>1 DEF TookBulk, IsList
    <3>3. Len(u.list) \in Nat /\ Len(u.list) <= m
      BY <1>6, <2>1 DEF TookBulk, IsList
    <3> HIDE DEF G
    <3> QED BY <2>1, <3>1, <3>2, <3>3
  <2>5. CASE r.pfn \in Pfns /\ \E o2 : TookOne(u.v, r.v, z, o1, o2, r.pfn, 0, x)
    <3> DEFINE p == r.pfn
               l2 == Append(u.list, p)
    <3>1. PICK o2 : TookOne(u.v, r.v, z, o1, o2, p, 0, x)
      BY <2>5
    <3>2. p \in Pfns /\ p # NoPage /\ Frames(<<p, 0>>) = {p}
      <4>1. p \in Pfns
        BY <2>5
      <4>2. p # NoPage
        BY <4>1, PfnsAssumption DEF NoPage
      <4> QED BY <4>1, <4>2, OnePage
    <3>3. IsList(u.list) /\ Moves(own, o1, z, SeqRange(u.list), {x})
          /\ MarksOnly(v.page, u.v.page, z) /\ \A q \in SeqRange(u.list) : own[q] \in FreeOwners
      BY <2>1 DEF TookBulk
    <3>4. /\ ZoneInv(r.v, z, o2) /\ Moves(o1, o2, z, {p}, {x}) /\ MarksOnly(u.v.page, r.v.page, z)
          /\ o1[p] \in FreeOwners /\ page_zone_id[p] = z
      BY <3>1, <3>2 DEF TookOne
    <3>5. u.list \o <<p>> = l2
      BY <3>2, <3>3 DEF IsList
    <3>6. G(u).v = r.v /\ G(u).list = l2
      BY <3>2, <3>5
    <3> HIDE DEF p, r, l2, G
    <3>7. p \notin SeqRange(u.list)
      <4> SUFFICES ASSUME p \in SeqRange(u.list) PROVE FALSE
        OBVIOUS
      <4>1. o1[p] = x
        BY <3>3 DEF Moves
      <4> QED BY <3>4, <4>1
    <3>8. own[p] \in FreeOwners
      BY <3>2, <3>3, <3>4, <3>7 DEF Moves
    <3>9. IsList(l2) /\ SeqRange(l2) = SeqRange(u.list) \cup {p} /\ Len(l2) = Len(u.list) + 1
      BY <3>2, <3>3, <3>7, ListAppend DEF l2
    <3>10. Moves(own, o2, z, SeqRange(u.list) \cup {p}, {x})
      <4>1. {x} = FreeOwners \/ {x} \cap FreeOwners = {}
        OBVIOUS
      <4> QED BY <3>3, <3>4, <4>1, MovesCompose
    <3>11. MarksOnly(v.page, r.v.page, z)
      BY <3>3, <3>4, MarksCompose
    <3>12. TookBulk(v, r.v, z, own, o2, l2, x)
      BY <3>3, <3>4, <3>8, <3>9, <3>10, <3>11 DEF TookBulk
    <3>13. Len(u.list) \in Nat /\ Len(u.list) <= m
      BY <1>6, <3>3 DEF IsList
    <3>14. Len(l2) <= m + 1
      BY <3>9, <3>13
    <3> QED BY <3>6, <3>12, <3>14
  <2> QED BY <2>3, <2>4, <2>5
<1> HIDE DEF P
<1>7. n \in S
  <2>1. \A i \in 1 .. n : i - 1 \in S => i \in S
    <3> SUFFICES ASSUME NEW i \in 1 .. n, i - 1 \in S PROVE i \in S
      OBVIOUS
    <3> HIDE DEF G
    <3>1. P(bulk[i - 1], i - 1) /\ bulk[i] = G(bulk[i - 1]) /\ i - 1 \in Nat /\ (i - 1) + 1 = i
      BY <1>4
    <3>2. P(bulk[i], i)
      BY <1>6, <3>1
    <3> QED BY <3>2
  <2> HIDE DEF S
  <2>2. 0 .. n \subseteq S
    BY <1>5, <2>1, UpTo
  <2> QED BY <2>2
<1>8. P(bulk[n], n)
  BY <1>7
<1> QED BY <1>3, <1>8 DEF P
=============================================================================
