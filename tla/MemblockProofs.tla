--------------------------- MODULE MemblockProofs ---------------------------
(***************************************************************************)
(* memblock.memory says of every address what the calls made of it, for    *)
(* every value of the constants of Memblock.tla.  First what merging,      *)
(* inserting, cutting, removing and searching do to an array, then what    *)
(* the growth of an array leaves alone, then the calls.                    *)
(***************************************************************************)
EXTENDS Memblock, WellFoundedInduction, TLAPS

-----------------------------------------------------------------------------
(* Arrays of regions *)

RegionRec == [base : Nat, size : Nat \ {0}, flags : SUBSET Nat]

LEMMA LeastNat ==
    ASSUME NEW S \in SUBSET Nat, S # {}
    PROVE  \E m \in S : \A k \in S : m <= k
<1> DEFINE R == {ss \in Nat \X Nat : ss[1] < ss[2]}
<1>1. IsWellFoundedOn(R, Nat)
  BY NatLessThanWellFounded DEF OpToRel
<1> HIDE DEF R
<1>2. PICK m \in S : \A y \in S : ~ (<<y, m>> \in R)
  BY <1>1, WFMin
<1>3. \A y \in S : ~ (y < m)
  BY <1>2 DEF R
<1> QED BY <1>3

(* A set that holds a and the successor of each of its members below n holds a .. n. *)
LEMMA UpTo ==
    ASSUME NEW a \in Nat, NEW n \in Nat, NEW S, a \in S, \A i \in a + 1 .. n : i - 1 \in S => i \in S
    PROVE  a .. n \subseteq S
<1> SUFFICES ASSUME a .. n \ S # {} PROVE FALSE
  OBVIOUS
<1>1. PICK m \in a .. n \ S : \A k \in a .. n \ S : m <= k
  <2>1. a .. n \ S \in SUBSET Nat
    OBVIOUS
  <2> QED BY <2>1, LeastNat
<1>2. m # a
  BY <1>1
<1>3. m \in a + 1 .. n /\ m - 1 \in a .. n
  BY <1>1, <1>2
<1>4. m - 1 \in S
  BY <1>1, <1>3
<1> QED BY <1>1, <1>3, <1>4

LEMMA MinTwo ==
    ASSUME NEW a \in Int, NEW b \in Int
    PROVE  Min({a, b}) = IF a <= b THEN a ELSE b
<1>1. \E x \in {a, b} : \A y \in {a, b} : x <= y
  OBVIOUS
<1>2. Min({a, b}) \in {a, b} /\ \A y \in {a, b} : Min({a, b}) <= y
  BY <1>1, Zenon DEF Min
<1> QED BY <1>2

LEMMA MaxTwo ==
    ASSUME NEW a \in Int, NEW b \in Int
    PROVE  Max({a, b}) = IF a >= b THEN a ELSE b
<1>1. \E x \in {a, b} : \A y \in {a, b} : x >= y
  OBVIOUS
<1>2. Max({a, b}) \in {a, b} /\ \A y \in {a, b} : Max({a, b}) >= y
  BY <1>1, Zenon DEF Max
<1> QED BY <1>2

-----------------------------------------------------------------------------
(* The loops over an array, round by round *)

(* memblock_merge_regions *)
LEMMA MergeLoop ==
    ASSUME NEW s, Len(s) \in Nat
    PROVE  \E f : /\ f[0] = <<>>
                  /\ \A i \in 1 .. Len(s) : f[i] = MergeStep(f[i - 1], s[i])
                  /\ memblock_merge_regions(s) = f[Len(s)]
<1>0. PICK n \in Nat : n = Len(s)
  OBVIOUS
<1> DEFINE v == <<>>
           G(u, i) == MergeStep(u, s[i])
           Def(f, m) == f = [i \in 0 .. m |-> IF i = 0 THEN v ELSE G(f[i - 1], i)]
           loop == CHOOSE f : f = [i \in 0 .. Len(s) |-> IF i = 0 THEN <<>>
                                                   ELSE MergeStep(f[i - 1], s[i])]
<1>1. \E f : Def(f, n)
  <2> DEFINE S == {m \in 0 .. n : \E f : Def(f, m)}
  <2> HIDE DEF G, v
  <2>1. 0 \in S
    <3> DEFINE f == [i \in 0 .. 0 |-> v]
    <3>1. Def(f, 0)
      OBVIOUS
    <3> HIDE DEF Def
    <3> QED BY <3>1
  <2>2. ASSUME NEW m \in 0 + 1 .. n, m - 1 \in S PROVE m \in S
    <3>0. m \in Nat /\ m # 0 /\ m \in 0 .. n
      BY <1>0, <2>2
    <3>1. PICK f : Def(f, m - 1)
      BY <2>2
    <3> DEFINE g == [i \in 0 .. m |-> IF i = m THEN G(f[m - 1], m) ELSE f[i]]
    <3>2. ASSUME NEW i \in 0 .. m PROVE g[i] = IF i = 0 THEN v ELSE G(g[i - 1], i)
      <4>1. CASE i = m
        <5>1. g[i - 1] = f[m - 1]
          BY <3>0, <4>1
        <5> QED BY <3>0, <4>1, <5>1
      <4>2. CASE i # m /\ i # 0
        <5>1. i \in 0 .. m - 1 /\ g[i] = f[i] /\ g[i - 1] = f[i - 1]
          BY <3>0, <4>2
        <5> QED BY <3>1, <4>2, <5>1
      <4>3. CASE i # m /\ i = 0
        BY <3>0, <3>1, <4>3
      <4> QED BY <4>1, <4>2, <4>3
    <3>3. g = [i \in 0 .. m |-> g[i]]
      OBVIOUS
    <3> HIDE DEF g
    <3>4. Def(g, m)
      BY <3>2, <3>3
    <3> QED BY <3>0, <3>4
  <2> HIDE DEF S
  <2>3. 0 .. n \subseteq S
    BY <1>0, <2>1, <2>2, UpTo
  <2>4. n \in S
    BY <1>0, <2>3
  <2> HIDE DEF Def
  <2> QED BY <2>4 DEF S
<1>2. Def(loop, n)
  <2>1. \E f : f = [i \in 0 .. Len(s) |-> IF i = 0 THEN <<>>
                              ELSE MergeStep(f[i - 1], s[i])]
    BY <1>0, <1>1
  <2> QED BY <1>0, <2>1
<1>3. memblock_merge_regions(s) = loop[Len(s)]
  BY DEF memblock_merge_regions
<1> HIDE DEF loop
<1>4. loop[0] = v /\ \A i \in 1 .. n : loop[i] = G(loop[i - 1], i)
  <2> HIDE DEF G, v
  <2> QED BY <1>0, <1>2
<1> QED BY <1>0, <1>3, <1>4

(* The first round of memblock_add_range *)
PortionsRun(f, s, base, end, flags) ==
    /\ f[0] = [base |-> base, out |-> <<>>]
    /\ \A i \in 1 .. Len(s) : f[i] = PortionStep(f[i - 1], s[i], end, flags)
    /\ Portions(s, base, end, flags) = f[Len(s)].out \o Piece(f[Len(s)].base, end, flags)

LEMMA PortionsLoop ==
    ASSUME NEW s \in Seq(RegionRec), NEW base, NEW end, NEW flags
    PROVE  \E f : PortionsRun(f, s, base, end, flags)
<1>0. PICK n \in Nat : n = Len(s)
  OBVIOUS
<1> DEFINE v == [base |-> base, out |-> <<>>]
           G(u, i) == PortionStep(u, s[i], end, flags)
           Def(f, m) == f = [i \in 0 .. m |-> IF i = 0 THEN v ELSE G(f[i - 1], i)]
           loop == CHOOSE f : f = [i \in 0 .. Len(s) |-> IF i = 0 THEN [base |-> base, out |-> <<>>]
                                                   ELSE PortionStep(f[i - 1], s[i], end, flags)]
<1>1. \E f : Def(f, n)
  <2> DEFINE S == {m \in 0 .. n : \E f : Def(f, m)}
  <2> HIDE DEF G, v
  <2>1. 0 \in S
    <3> DEFINE f == [i \in 0 .. 0 |-> v]
    <3>1. Def(f, 0)
      OBVIOUS
    <3> HIDE DEF Def
    <3> QED BY <3>1
  <2>2. ASSUME NEW m \in 0 + 1 .. n, m - 1 \in S PROVE m \in S
    <3>0. m \in Nat /\ m # 0 /\ m \in 0 .. n
      BY <1>0, <2>2
    <3>1. PICK f : Def(f, m - 1)
      BY <2>2
    <3> DEFINE g == [i \in 0 .. m |-> IF i = m THEN G(f[m - 1], m) ELSE f[i]]
    <3>2. ASSUME NEW i \in 0 .. m PROVE g[i] = IF i = 0 THEN v ELSE G(g[i - 1], i)
      <4>1. CASE i = m
        <5>1. g[i - 1] = f[m - 1]
          BY <3>0, <4>1
        <5> QED BY <3>0, <4>1, <5>1
      <4>2. CASE i # m /\ i # 0
        <5>1. i \in 0 .. m - 1 /\ g[i] = f[i] /\ g[i - 1] = f[i - 1]
          BY <3>0, <4>2
        <5> QED BY <3>1, <4>2, <5>1
      <4>3. CASE i # m /\ i = 0
        BY <3>0, <3>1, <4>3
      <4> QED BY <4>1, <4>2, <4>3
    <3>3. g = [i \in 0 .. m |-> g[i]]
      OBVIOUS
    <3> HIDE DEF g
    <3>4. Def(g, m)
      BY <3>2, <3>3
    <3> QED BY <3>0, <3>4
  <2> HIDE DEF S
  <2>3. 0 .. n \subseteq S
    BY <1>0, <2>1, <2>2, UpTo
  <2>4. n \in S
    BY <1>0, <2>3
  <2> HIDE DEF Def
  <2> QED BY <2>4 DEF S
<1>2. Def(loop, n)
  <2>1. \E f : f = [i \in 0 .. Len(s) |-> IF i = 0 THEN [base |-> base, out |-> <<>>]
                              ELSE PortionStep(f[i - 1], s[i], end, flags)]
    BY <1>0, <1>1
  <2> QED BY <1>0, <2>1
<1>3. Portions(s, base, end, flags) = loop[Len(s)].out \o Piece(loop[Len(s)].base, end, flags)
  BY DEF Portions
<1> HIDE DEF loop
<1>4. loop[0] = v /\ \A i \in 1 .. n : loop[i] = G(loop[i - 1], i)
  <2> HIDE DEF G, v
  <2> QED BY <1>0, <1>2
<1>5. PortionsRun(loop, s, base, end, flags)
  BY <1>0, <1>3, <1>4 DEF PortionsRun
<1> QED BY <1>5

(* memblock_isolate_range *)
IsolateRun(f, s, base, end) ==
    /\ f[0] = <<>>
    /\ \A i \in 1 .. Len(s) : f[i] = f[i - 1] \o Cut(s[i], base, end)
    /\ Isolate(s, base, end) = f[Len(s)]

LEMMA IsolateLoop ==
    ASSUME NEW s, Len(s) \in Nat, NEW base, NEW end
    PROVE  \E f : IsolateRun(f, s, base, end)
<1>0. PICK n \in Nat : n = Len(s)
  OBVIOUS
<1> DEFINE v == <<>>
           G(u, i) == u \o Cut(s[i], base, end)
           Def(f, m) == f = [i \in 0 .. m |-> IF i = 0 THEN v ELSE G(f[i - 1], i)]
           loop == CHOOSE f : f = [i \in 0 .. Len(s) |-> IF i = 0 THEN <<>>
                                                   ELSE f[i - 1] \o Cut(s[i], base, end)]
<1>1. \E f : Def(f, n)
  <2> DEFINE S == {m \in 0 .. n : \E f : Def(f, m)}
  <2> HIDE DEF G, v
  <2>1. 0 \in S
    <3> DEFINE f == [i \in 0 .. 0 |-> v]
    <3>1. Def(f, 0)
      OBVIOUS
    <3> HIDE DEF Def
    <3> QED BY <3>1
  <2>2. ASSUME NEW m \in 0 + 1 .. n, m - 1 \in S PROVE m \in S
    <3>0. m \in Nat /\ m # 0 /\ m \in 0 .. n
      BY <1>0, <2>2
    <3>1. PICK f : Def(f, m - 1)
      BY <2>2
    <3> DEFINE g == [i \in 0 .. m |-> IF i = m THEN G(f[m - 1], m) ELSE f[i]]
    <3>2. ASSUME NEW i \in 0 .. m PROVE g[i] = IF i = 0 THEN v ELSE G(g[i - 1], i)
      <4>1. CASE i = m
        <5>1. g[i - 1] = f[m - 1]
          BY <3>0, <4>1
        <5> QED BY <3>0, <4>1, <5>1
      <4>2. CASE i # m /\ i # 0
        <5>1. i \in 0 .. m - 1 /\ g[i] = f[i] /\ g[i - 1] = f[i - 1]
          BY <3>0, <4>2
        <5> QED BY <3>1, <4>2, <5>1
      <4>3. CASE i # m /\ i = 0
        BY <3>0, <3>1, <4>3
      <4> QED BY <4>1, <4>2, <4>3
    <3>3. g = [i \in 0 .. m |-> g[i]]
      OBVIOUS
    <3> HIDE DEF g
    <3>4. Def(g, m)
      BY <3>2, <3>3
    <3> QED BY <3>0, <3>4
  <2> HIDE DEF S
  <2>3. 0 .. n \subseteq S
    BY <1>0, <2>1, <2>2, UpTo
  <2>4. n \in S
    BY <1>0, <2>3
  <2> HIDE DEF Def
  <2> QED BY <2>4 DEF S
<1>2. Def(loop, n)
  <2>1. \E f : f = [i \in 0 .. Len(s) |-> IF i = 0 THEN <<>>
                              ELSE f[i - 1] \o Cut(s[i], base, end)]
    BY <1>0, <1>1
  <2> QED BY <1>0, <2>1
<1>3. Isolate(s, base, end) = loop[Len(s)]
  BY DEF Isolate
<1> HIDE DEF loop
<1>4. loop[0] = v /\ \A i \in 1 .. n : loop[i] = G(loop[i - 1], i)
  <2> HIDE DEF G, v
  <2> QED BY <1>0, <1>2
<1>5. IsolateRun(loop, s, base, end)
  BY <1>0, <1>3, <1>4 DEF IsolateRun
<1> QED BY <1>5

(* Removing regions *)
LEMMA KeptLoop ==
    ASSUME NEW s, Len(s) \in Nat, NEW gone
    PROVE  \E f : /\ f[0] = <<>>
                  /\ \A i \in 1 .. Len(s) : f[i] = (IF s[i] \in gone THEN f[i - 1] ELSE Append(f[i - 1], s[i]))
                  /\ Kept(s, gone) = f[Len(s)]
<1>0. PICK n \in Nat : n = Len(s)
  OBVIOUS
<1> DEFINE v == <<>>
           G(u, i) == (IF s[i] \in gone THEN u ELSE Append(u, s[i]))
           Def(f, m) == f = [i \in 0 .. m |-> IF i = 0 THEN v ELSE G(f[i - 1], i)]
           loop == CHOOSE f : f = [i \in 0 .. Len(s) |-> IF i = 0 THEN <<>>
                                                   ELSE (IF s[i] \in gone THEN f[i - 1] ELSE Append(f[i - 1], s[i]))]
<1>1. \E f : Def(f, n)
  <2> DEFINE S == {m \in 0 .. n : \E f : Def(f, m)}
  <2> HIDE DEF G, v
  <2>1. 0 \in S
    <3> DEFINE f == [i \in 0 .. 0 |-> v]
    <3>1. Def(f, 0)
      OBVIOUS
    <3> HIDE DEF Def
    <3> QED BY <3>1
  <2>2. ASSUME NEW m \in 0 + 1 .. n, m - 1 \in S PROVE m \in S
    <3>0. m \in Nat /\ m # 0 /\ m \in 0 .. n
      BY <1>0, <2>2
    <3>1. PICK f : Def(f, m - 1)
      BY <2>2
    <3> DEFINE g == [i \in 0 .. m |-> IF i = m THEN G(f[m - 1], m) ELSE f[i]]
    <3>2. ASSUME NEW i \in 0 .. m PROVE g[i] = IF i = 0 THEN v ELSE G(g[i - 1], i)
      <4>1. CASE i = m
        <5>1. g[i - 1] = f[m - 1]
          BY <3>0, <4>1
        <5> QED BY <3>0, <4>1, <5>1
      <4>2. CASE i # m /\ i # 0
        <5>1. i \in 0 .. m - 1 /\ g[i] = f[i] /\ g[i - 1] = f[i - 1]
          BY <3>0, <4>2
        <5> QED BY <3>1, <4>2, <5>1
      <4>3. CASE i # m /\ i = 0
        BY <3>0, <3>1, <4>3
      <4> QED BY <4>1, <4>2, <4>3
    <3>3. g = [i \in 0 .. m |-> g[i]]
      OBVIOUS
    <3> HIDE DEF g
    <3>4. Def(g, m)
      BY <3>2, <3>3
    <3> QED BY <3>0, <3>4
  <2> HIDE DEF S
  <2>3. 0 .. n \subseteq S
    BY <1>0, <2>1, <2>2, UpTo
  <2>4. n \in S
    BY <1>0, <2>3
  <2> HIDE DEF Def
  <2> QED BY <2>4 DEF S
<1>2. Def(loop, n)
  <2>1. \E f : f = [i \in 0 .. Len(s) |-> IF i = 0 THEN <<>>
                              ELSE (IF s[i] \in gone THEN f[i - 1] ELSE Append(f[i - 1], s[i]))]
    BY <1>0, <1>1
  <2> QED BY <1>0, <2>1
<1>3. Kept(s, gone) = loop[Len(s)]
  BY DEF Kept
<1> HIDE DEF loop
<1>4. loop[0] = v /\ \A i \in 1 .. n : loop[i] = G(loop[i - 1], i)
  <2> HIDE DEF G, v
  <2> QED BY <1>0, <1>2
<1> QED BY <1>0, <1>3, <1>4

-----------------------------------------------------------------------------
(* What an array says of addresses *)

Sorted(s) == \A i, j \in 1 .. Len(s) : i < j => End(s[i]) <= s[j].base
Arr(s) == s \in Seq(RegionRec) /\ Sorted(s)
(* no two neighbours that could be one region *)
Merged(s) == \A i, j \in 1 .. Len(s) : j = i + 1 => End(s[i]) < s[j].base \/ s[i].flags # s[j].flags

In(r, a) == r.base <= a /\ a < End(r)
(* address a is in a region with flags f *)
Has(s, a, f) == \E i \in 1 .. Len(s) : In(s[i], a) /\ s[i].flags = f
EndsBy(s, e) == \A i \in 1 .. Len(s) : End(s[i]) <= e
StartsFrom(s, b) == \A i \in 1 .. Len(s) : b <= s[i].base

LEMMA RegionFacts ==
    ASSUME NEW r \in RegionRec
    PROVE  /\ r.base \in Nat /\ r.size \in Nat /\ r.size > 0 /\ End(r) \in Nat
           /\ End(r) = r.base + r.size /\ r.base < End(r)
BY DEF RegionRec, End

LEMMA EmptyArr ==
    /\ Arr(<<>>) /\ Merged(<<>>) /\ \A a, f : ~ Has(<<>>, a, f)
    /\ \A e : EndsBy(<<>>, e) /\ StartsFrom(<<>>, e)
BY DEF Arr, Sorted, Merged, Has, EndsBy, StartsFrom

LEMMA Concat ==
    ASSUME NEW u, Arr(u), NEW v, Arr(v),
           \A i \in 1 .. Len(u), j \in 1 .. Len(v) : End(u[i]) <= v[j].base
    PROVE  /\ Arr(u \o v) /\ Len(u \o v) = Len(u) + Len(v)
           /\ \A a, f : Has(u \o v, a, f) <=> Has(u, a, f) \/ Has(v, a, f)
           /\ \A e : EndsBy(u, e) /\ EndsBy(v, e) => EndsBy(u \o v, e)
           /\ \A e : StartsFrom(u, e) /\ StartsFrom(v, e) => StartsFrom(u \o v, e)
<1>1. u \in Seq(RegionRec) /\ v \in Seq(RegionRec)
  BY DEF Arr
<1>2. PICK w, m, n : w = u \o v /\ m = Len(u) /\ n = Len(v)
  OBVIOUS
<1>3. /\ w \in Seq(RegionRec) /\ Len(w) = m + n /\ m \in Nat /\ n \in Nat
      /\ \A i \in 1 .. m : w[i] = u[i]
      /\ \A i \in m + 1 .. m + n : w[i] = v[i - m]
  BY <1>1, <1>2
<1>4. \A i \in 1 .. n : i + m \in m + 1 .. m + n /\ w[i + m] = v[i]
  BY <1>3
<1>5. \A i \in 1 .. m + n : i \in 1 .. m \/ (i \in m + 1 .. m + n /\ i - m \in 1 .. n)
  BY <1>3
<1>6. Sorted(w)
  <2> SUFFICES ASSUME NEW i \in 1 .. m + n, NEW j \in 1 .. m + n, i < j PROVE End(w[i]) <= w[j].base
    BY <1>3 DEF Sorted
  <2>1. CASE j \in 1 .. m
    <3>1. i \in 1 .. m
      BY <1>3, <2>1
    <3> QED BY <1>2, <1>3, <2>1, <3>1 DEF Arr, Sorted
  <2>2. CASE i \in 1 .. m /\ j \in m + 1 .. m + n
    <3>1. j - m \in 1 .. n
      BY <1>3, <2>2
    <3> QED BY <1>2, <1>3, <2>2, <3>1
  <2>3. CASE i \in m + 1 .. m + n /\ j \in m + 1 .. m + n
    <3>1. i - m \in 1 .. n /\ j - m \in 1 .. n /\ i - m < j - m
      BY <1>3, <2>3
    <3> QED BY <1>2, <1>3, <2>3, <3>1 DEF Arr, Sorted
  <2> QED BY <1>3, <2>1, <2>2, <2>3
<1>7. ASSUME NEW a, NEW f PROVE Has(w, a, f) <=> Has(u, a, f) \/ Has(v, a, f)
  <2>1. ASSUME Has(w, a, f) PROVE Has(u, a, f) \/ Has(v, a, f)
    <3>1. PICK i \in 1 .. m + n : In(w[i], a) /\ w[i].flags = f
      BY <1>3, <2>1 DEF Has
    <3> QED BY <1>2, <1>3, <1>5, <3>1 DEF Has
  <2>2. ASSUME Has(u, a, f) PROVE Has(w, a, f)
    <3>1. PICK i \in 1 .. m : In(u[i], a) /\ u[i].flags = f
      BY <1>2, <2>2 DEF Has
    <3>2. i \in 1 .. m + n
      BY <1>3
    <3> QED BY <1>3, <3>1, <3>2 DEF Has
  <2>3. ASSUME Has(v, a, f) PROVE Has(w, a, f)
    <3>1. PICK i \in 1 .. n : In(v[i], a) /\ v[i].flags = f
      BY <1>2, <2>3 DEF Has
    <3>2. i + m \in 1 .. m + n /\ w[i + m] = v[i]
      BY <1>3, <1>4
    <3> QED BY <1>3, <3>1, <3>2 DEF Has
  <2> QED BY <2>1, <2>2, <2>3
<1>8. ASSUME NEW e, EndsBy(u, e), EndsBy(v, e) PROVE EndsBy(w, e)
  BY <1>2, <1>3, <1>5, <1>8 DEF EndsBy
<1>9. ASSUME NEW e, StartsFrom(u, e), StartsFrom(v, e) PROVE StartsFrom(w, e)
  BY <1>2, <1>3, <1>5, <1>9 DEF StartsFrom
<1>10. Arr(w)
  BY <1>3, <1>6 DEF Arr
<1> QED BY <1>2, <1>3, <1>7, <1>8, <1>9, <1>10

LEMMA OneArr ==
    ASSUME NEW r \in RegionRec
    PROVE  /\ Arr(<<r>>) /\ \A a, f : Has(<<r>>, a, f) <=> In(r, a) /\ f = r.flags
           /\ \A e : (EndsBy(<<r>>, e) <=> End(r) <= e) /\ (StartsFrom(<<r>>, e) <=> e <= r.base)
<1>1. PICK w : w = <<r>>
  OBVIOUS
<1>2. w \in Seq(RegionRec) /\ Len(w) = 1 /\ w[1] = r /\ \A i \in 1 .. 1 : i = 1
  BY <1>1
<1>3. Arr(w)
  BY <1>2 DEF Arr, Sorted
<1>4. \A a, f : Has(w, a, f) <=> In(r, a) /\ f = r.flags
  BY <1>2 DEF Has
<1>5. \A e : (EndsBy(w, e) <=> End(r) <= e) /\ (StartsFrom(w, e) <=> e <= r.base)
  BY <1>2 DEF EndsBy, StartsFrom
<1> QED BY <1>1, <1>3, <1>4, <1>5

LEMMA AppendArr ==
    ASSUME NEW u, Arr(u), NEW r \in RegionRec, EndsBy(u, r.base)
    PROVE  /\ Arr(Append(u, r)) /\ Len(Append(u, r)) = Len(u) + 1
           /\ \A a, f : Has(Append(u, r), a, f) <=> Has(u, a, f) \/ (In(r, a) /\ f = r.flags)
           /\ EndsBy(Append(u, r), End(r))
           /\ \A e : StartsFrom(u, e) /\ e <= r.base => StartsFrom(Append(u, r), e)
<1>1. u \in Seq(RegionRec)
  BY DEF Arr
<1>2. Append(u, r) = u \o <<r>>
  BY <1>1
<1>3. Arr(<<r>>) /\ Len(<<r>>) = 1 /\ <<r>>[1] = r
  BY OneArr
<1>4. \A i \in 1 .. Len(u), j \in 1 .. Len(<<r>>) : End(u[i]) <= <<r>>[j].base
  BY <1>3 DEF EndsBy
<1>5. EndsBy(u, End(r))
  <2>1. \A i \in 1 .. Len(u) : End(u[i]) \in Nat
    BY <1>1, RegionFacts
  <2> QED BY <2>1, RegionFacts DEF EndsBy
<1>6. EndsBy(<<r>>, End(r))
  BY OneArr, RegionFacts
<1>7. /\ Arr(u \o <<r>>) /\ Len(u \o <<r>>) = Len(u) + Len(<<r>>)
      /\ \A a, f : Has(u \o <<r>>, a, f) <=> Has(u, a, f) \/ Has(<<r>>, a, f)
      /\ \A e : EndsBy(u, e) /\ EndsBy(<<r>>, e) => EndsBy(u \o <<r>>, e)
      /\ \A e : StartsFrom(u, e) /\ StartsFrom(<<r>>, e) => StartsFrom(u \o <<r>>, e)
  BY <1>3, <1>4, Concat
<1> QED BY <1>2, <1>3, <1>5, <1>6, <1>7, OneArr

LEMMA PieceArr ==
    ASSUME NEW from \in Nat, NEW to \in Nat, NEW flags \in SUBSET Nat
    PROVE  LET p == Piece(from, to, flags)
           IN  /\ Arr(p) /\ Len(p) = IF from < to THEN 1 ELSE 0
               /\ \A a, f : Has(p, a, f) <=> from <= a /\ a < to /\ f = flags /\ from < to
               /\ EndsBy(p, to) /\ StartsFrom(p, from)
               /\ \A i \in 1 .. Len(p) : p[i].flags = flags
<1>1. CASE ~ (from < to)
  <2>1. Piece(from, to, flags) = <<>>
    BY <1>1 DEF Piece
  <2> QED BY <1>1, <2>1, EmptyArr
<1>2. CASE from < to
  <2>1. PICK r : r = Region(from, to - from, flags)
    OBVIOUS
  <2>2. r \in RegionRec /\ r.base = from /\ End(r) = to /\ r.flags = flags
    BY <1>2, <2>1 DEF Region, RegionRec, End
  <2>3. Piece(from, to, flags) = <<r>> /\ Len(<<r>>) = 1 /\ <<r>>[1] = r
    BY <1>2, <2>1 DEF Piece
  <2>4. \A i \in 1 .. Len(<<r>>) : <<r>>[i].flags = flags
    BY <2>2, <2>3
  <2>5. \A a, f : Has(<<r>>, a, f) <=> from <= a /\ a < to /\ f = flags /\ from < to
    BY <1>2, <2>2, OneArr DEF In
  <2>6. Arr(<<r>>) /\ EndsBy(<<r>>, to) /\ StartsFrom(<<r>>, from)
    BY <2>2, OneArr
  <2> QED BY <1>2, <2>3, <2>4, <2>5, <2>6
<1> QED BY <1>1, <1>2
-----------------------------------------------------------------------------
(* memblock_merge_regions *)

LEMMA MergeOne ==
    ASSUME NEW u, Arr(u), Merged(u), NEW r \in RegionRec, EndsBy(u, r.base)
    PROVE  /\ Arr(MergeStep(u, r)) /\ Merged(MergeStep(u, r))
           /\ Len(MergeStep(u, r)) \in 1 .. Len(u) + 1
           /\ \A f : \A a \in Int : Has(MergeStep(u, r), a, f) <=> Has(u, a, f) \/ (In(r, a) /\ f = r.flags)
           /\ EndsBy(MergeStep(u, r), End(r))
<1>0. u \in Seq(RegionRec)
  BY DEF Arr
<1>1. PICK n : n = Len(u)
  OBVIOUS
<1>2. n \in Nat /\ \A i \in 1 .. n : u[i] \in RegionRec
  BY <1>0, <1>1
<1>3. r.base \in Nat /\ r.size \in Nat /\ r.size > 0 /\ End(r) = r.base + r.size
  BY RegionFacts
<1>4. CASE u # <<>> /\ End(Last(u)) = r.base /\ Last(u).flags = r.flags
  <2>1. n >= 1 /\ Last(u) = u[n] /\ u[n] \in RegionRec /\ n \in 1 .. n
    BY <1>0, <1>1, <1>2, <1>4 DEF Last
  <2>2. PICK l : l = u[n]
    OBVIOUS
  <2>3. l \in RegionRec /\ l.base \in Nat /\ l.size \in Nat /\ l.size > 0 /\ End(l) = r.base /\ l.flags = r.flags
        /\ End(l) = l.base + l.size
    BY <1>4, <2>1, <2>2, RegionFacts
  <2>4. PICK k : k = [l EXCEPT !.size = @ + r.size]
    OBVIOUS
  <2>5. k \in RegionRec /\ k.base = l.base /\ k.flags = l.flags /\ k.size = l.size + r.size
    BY <1>3, <2>3, <2>4 DEF RegionRec
  <2>6. End(k) = End(r)
    BY <1>3, <2>3, <2>5 DEF End
  <2>7. PICK w : w = MergeStep(u, r)
    OBVIOUS
  <2>8. w = [u EXCEPT ![n] = k]
    BY <1>1, <1>4, <2>2, <2>4, <2>7 DEF MergeStep
  <2>9. /\ w \in Seq(RegionRec) /\ Len(w) = n /\ w[n] = k
        /\ \A i \in 1 .. n : i # n => w[i] = u[i]
    BY <1>0, <1>1, <2>1, <2>5, <2>8
  <2>10. \A i \in 1 .. n : w[i].base = u[i].base /\ w[i].flags = u[i].flags
    BY <2>2, <2>5, <2>9
  <2>11. \A i \in 1 .. n : End(w[i]) = IF i = n THEN End(r) ELSE End(u[i])
    BY <2>6, <2>9
  <2>12. Sorted(w)
    <3> SUFFICES ASSUME NEW i \in 1 .. n, NEW j \in 1 .. n, i < j PROVE End(w[i]) <= w[j].base
      BY <2>9 DEF Sorted
    <3>1. i # n
      BY <1>2
    <3> QED BY <1>1, <2>10, <2>11, <3>1 DEF Arr, Sorted
  <2>13. Merged(w)
    <3> SUFFICES ASSUME NEW i \in 1 .. n, NEW j \in 1 .. n, j = i + 1
                 PROVE  End(w[i]) < w[j].base \/ w[i].flags # w[j].flags
      BY <2>9 DEF Merged
    <3>1. i # n
      BY <1>2
    <3> QED BY <1>1, <2>10, <2>11, <3>1 DEF Merged
  <2>14. ASSUME NEW a \in Int, NEW f
         PROVE  Has(w, a, f) <=> Has(u, a, f) \/ (In(r, a) /\ f = r.flags)
    <3>1. In(k, a) <=> In(l, a) \/ In(r, a)
      <4>1. l.base < r.base /\ r.base < End(r) /\ End(r) \in Nat
        BY <1>3, <2>3
      <4>2. In(k, a) <=> l.base <= a /\ a < End(r)
        BY <2>5, <2>6, Zenon DEF In
      <4>3. In(l, a) <=> l.base <= a /\ a < r.base
        BY <2>3, Zenon DEF In
      <4>4. In(r, a) <=> r.base <= a /\ a < End(r)
        BY Zenon DEF In
      <4>5. l.base \in Int /\ r.base \in Int /\ End(r) \in Int
        BY <1>3, <2>3, <4>1
      <4> QED BY <4>1, <4>2, <4>3, <4>4, <4>5
    <3>2. ASSUME Has(w, a, f) PROVE Has(u, a, f) \/ (In(r, a) /\ f = r.flags)
      <4>1. PICK i \in 1 .. n : In(w[i], a) /\ w[i].flags = f
        BY <2>9, <3>2 DEF Has
      <4>2. CASE i = n
        BY <1>1, <2>1, <2>2, <2>3, <2>5, <2>9, <3>1, <4>1, <4>2 DEF Has
      <4>3. CASE i # n
        BY <1>1, <2>9, <4>1, <4>3 DEF Has
      <4> QED BY <4>2, <4>3
    <3>3. ASSUME Has(u, a, f) PROVE Has(w, a, f)
      <4>1. PICK i \in 1 .. n : In(u[i], a) /\ u[i].flags = f
        BY <1>1, <3>3 DEF Has
      <4>2. In(w[i], a) /\ w[i].flags = f
        BY <2>2, <2>5, <2>9, <3>1, <4>1
      <4> QED BY <2>9, <4>2 DEF Has
    <3>4. ASSUME In(r, a), f = r.flags PROVE Has(w, a, f)
      BY <2>1, <2>3, <2>5, <2>9, <3>1, <3>4 DEF Has
    <3> QED BY <3>2, <3>3, <3>4
  <2>15. EndsBy(w, End(r))
    <3> SUFFICES ASSUME NEW i \in 1 .. n PROVE End(w[i]) <= End(r)
      BY <2>9 DEF EndsBy
    <3>1. End(u[i]) \in Nat /\ End(u[i]) <= r.base
      BY <1>1, <1>2, RegionFacts DEF EndsBy
    <3> QED BY <1>3, <2>11, <3>1
  <2>16. Arr(w)
    BY <2>9, <2>12 DEF Arr
  <2>17. Len(w) \in 1 .. Len(u) + 1
    BY <1>1, <1>2, <2>1, <2>9
  <2> QED BY <2>7, <2>13, <2>14, <2>15, <2>16, <2>17
<1>5. CASE ~ (u # <<>> /\ End(Last(u)) = r.base /\ Last(u).flags = r.flags)
  <2>1. MergeStep(u, r) = Append(u, r)
    BY <1>5 DEF MergeStep
  <2>2. PICK w : w = Append(u, r)
    OBVIOUS
  <2>3. w \in Seq(RegionRec) /\ Len(w) = n + 1 /\ w[n + 1] = r /\ \A i \in 1 .. n : w[i] = u[i]
    BY <1>0, <1>1, <2>2
  <2>4. Merged(w)
    <3> SUFFICES ASSUME NEW i \in 1 .. n + 1, NEW j \in 1 .. n + 1, j = i + 1
                 PROVE  End(w[i]) < w[j].base \/ w[i].flags # w[j].flags
      BY <2>3 DEF Merged
    <3>1. CASE j # n + 1
      <4>1. i \in 1 .. n /\ j \in 1 .. n
        BY <1>2, <3>1
      <4> QED BY <1>1, <2>3, <4>1 DEF Merged
    <3>2. CASE j = n + 1
      <4>1. i = n /\ n \in 1 .. n /\ w[i] = u[n] /\ w[j] = r
        BY <1>2, <2>3, <3>2
      <4>2. u # <<>> /\ Last(u) = u[n]
        BY <1>0, <1>1, <4>1 DEF Last
      <4>3. End(u[n]) # r.base \/ u[n].flags # r.flags
        BY <1>5, <4>2
      <4>4. End(u[n]) <= r.base /\ End(u[n]) \in Nat
        BY <1>1, <1>2, <4>1, RegionFacts DEF EndsBy
      <4> QED BY <1>3, <4>1, <4>3, <4>4
    <3> QED BY <3>1, <3>2
  <2>5. Len(w) \in 1 .. Len(u) + 1
    BY <1>1, <1>2, <2>3
  <2> QED BY <2>1, <2>2, <2>4, <2>5, AppendArr
<1> QED BY <1>4, <1>5

(* Merging changes nothing that an array says. *)
LEMMA Merge ==
    ASSUME NEW s, Arr(s)
    PROVE  /\ Arr(memblock_merge_regions(s)) /\ Merged(memblock_merge_regions(s))
           /\ Len(memblock_merge_regions(s)) <= Len(s)
           /\ (Len(s) > 0 => Len(memblock_merge_regions(s)) > 0)
           /\ \A f : \A a \in Int : Has(memblock_merge_regions(s), a, f) <=> Has(s, a, f)
           /\ \A e \in Int : EndsBy(s, e) => EndsBy(memblock_merge_regions(s), e)
<1>0. s \in Seq(RegionRec)
  BY DEF Arr
<1>1. PICK n \in Nat : n = Len(s)
  BY <1>0
<1>2. PICK f : /\ f[0] = <<>> /\ \A i \in 1 .. n : f[i] = MergeStep(f[i - 1], s[i])
               /\ memblock_merge_regions(s) = f[n]
  BY <1>0, <1>1, MergeLoop
<1> DEFINE Good(i) ==
      /\ Arr(f[i]) /\ Merged(f[i]) /\ Len(f[i]) \in 0 .. i /\ (i > 0 => Len(f[i]) > 0)
      /\ \A g : \A a \in Int : Has(f[i], a, g) <=> \E j \in 1 .. i : In(s[j], a) /\ g = s[j].flags
      /\ i > 0 => EndsBy(f[i], End(s[i]))
<1> DEFINE S == {i \in 0 .. n : Good(i)}
<1>3. 0 \in S
  <2>1. Good(0)
    BY <1>2, EmptyArr
  <2> QED BY <1>1, <2>1
<1>4. ASSUME NEW i \in 0 + 1 .. n, i - 1 \in S PROVE i \in S
  <2>1. i \in 1 .. n /\ i - 1 \in Nat /\ s[i] \in RegionRec
    BY <1>0, <1>1, <1>4
  <2>2. Good(i - 1)
    BY <1>4
  <2>3. EndsBy(f[i - 1], s[i].base)
    <3>1. CASE i - 1 = 0
      BY <1>2, <3>1, EmptyArr
    <3>2. CASE i - 1 > 0
      <4>0. i - 1 \in 1 .. n /\ i \in 1 .. n /\ i - 1 < i
        BY <2>1, <3>2
      <4>1. End(s[i - 1]) <= s[i].base
        BY <1>1, <4>0 DEF Arr, Sorted
      <4>4. End(s[i - 1]) \in Nat /\ s[i].base \in Nat
        BY <1>0, <1>1, <4>0, RegionFacts
      <4>2. EndsBy(f[i - 1], End(s[i - 1])) /\ f[i - 1] \in Seq(RegionRec)
        BY <2>2, <3>2 DEF Arr
      <4>3. \A k \in 1 .. Len(f[i - 1]) : End(f[i - 1][k]) \in Nat
        BY <4>2, RegionFacts
      <4> QED BY <4>1, <4>2, <4>3, <4>4 DEF EndsBy
    <3> QED BY <2>1, <3>1, <3>2
  <2>4. PICK u : u = f[i - 1]
    OBVIOUS
  <2>5. f[i] = MergeStep(u, s[i])
    BY <1>2, <2>1, <2>4
  <2>6. /\ Arr(f[i]) /\ Merged(f[i]) /\ Len(f[i]) \in 1 .. Len(u) + 1 /\ EndsBy(f[i], End(s[i]))
        /\ \A g : \A a \in Int : Has(f[i], a, g) <=> Has(u, a, g) \/ (In(s[i], a) /\ g = s[i].flags)
    BY <2>1, <2>2, <2>3, <2>4, <2>5, MergeOne
  <2>7. \A g : \A a \in Int : Has(f[i], a, g) <=> \E j \in 1 .. i : In(s[j], a) /\ g = s[j].flags
    <3>1. \A j \in 1 .. i : j = i \/ j \in 1 .. i - 1
      BY <2>1
    <3>2. \A j \in 1 .. i - 1 : j \in 1 .. i
      BY <2>1
    <3>3. i \in 1 .. i
      BY <2>1
    <3>4. \A g : \A a \in Int : Has(u, a, g) <=> \E j \in 1 .. i - 1 : In(s[j], a) /\ g = s[j].flags
      BY <2>2, <2>4
    <3> QED BY <2>6, <3>1, <3>2, <3>3, <3>4
  <2>8. Len(f[i]) \in 0 .. i /\ (i > 0 => Len(f[i]) > 0)
    <3>1. Len(u) \in 0 .. i - 1
      BY <2>2, <2>4
    <3> QED BY <2>1, <2>6, <3>1
  <2>9. Good(i)
    BY <2>6, <2>7, <2>8
  <2> HIDE DEF Good
  <2> QED BY <2>1, <2>9
<1> HIDE DEF S
<1>5. n \in S
  <2>1. 0 .. n \subseteq S
    BY <1>1, <1>3, <1>4, UpTo
  <2> QED BY <1>1, <2>1
<1>6. Good(n)
  BY <1>5 DEF S
<1>7. PICK w : w = memblock_merge_regions(s)
  OBVIOUS
<1>8. \A g : \A a \in Int : Has(w, a, g) <=> Has(s, a, g)
  <2>1. \A g : \A a \in Int : Has(w, a, g) <=> \E j \in 1 .. n : In(s[j], a) /\ g = s[j].flags
    BY <1>2, <1>6, <1>7
  <2> HIDE DEF Good
  <2>2. ASSUME NEW g, NEW a \in Int PROVE Has(s, a, g) <=> \E j \in 1 .. n : In(s[j], a) /\ g = s[j].flags
    BY <1>1 DEF Has
  <2> QED BY <2>1, <2>2
<1>9. ASSUME NEW e \in Int, EndsBy(s, e) PROVE EndsBy(w, e)
  <2>1. CASE n = 0
    BY <1>2, <1>6, <1>7, <2>1, EmptyArr
  <2>2. CASE n > 0
    <3>1. EndsBy(w, End(s[n])) /\ w \in Seq(RegionRec)
      BY <1>2, <1>6, <1>7, <2>2 DEF Arr
    <3>2. \A k \in 1 .. Len(w) : End(w[k]) \in Nat /\ End(w[k]) <= End(s[n])
      BY <3>1, RegionFacts DEF EndsBy
    <3>3. End(s[n]) <= e /\ End(s[n]) \in Nat
      BY <1>0, <1>1, <1>9, <2>2, RegionFacts DEF EndsBy
    <3> QED BY <3>2, <3>3 DEF EndsBy
  <2> QED BY <1>1, <2>1, <2>2
<1>10. Arr(w) /\ Merged(w) /\ Len(w) <= n /\ (n > 0 => Len(w) > 0)
  BY <1>1, <1>2, <1>6, <1>7
<1> QED BY <1>1, <1>7, <1>8, <1>9, <1>10
-----------------------------------------------------------------------------
(* memblock_remove_region *)

LEMMA KeptOk ==
    ASSUME NEW s, Arr(s), NEW gone
    PROVE  /\ Arr(Kept(s, gone)) /\ Len(Kept(s, gone)) <= Len(s)
           /\ \A g : \A a \in Int : Has(Kept(s, gone), a, g) <=>
                 \E j \in 1 .. Len(s) : s[j] \notin gone /\ In(s[j], a) /\ g = s[j].flags
           /\ \A e \in Int : EndsBy(s, e) => EndsBy(Kept(s, gone), e)
           /\ (\E j \in 1 .. Len(s) : s[j] \in gone) => Len(Kept(s, gone)) < Len(s)
<1>0. s \in Seq(RegionRec)
  BY DEF Arr
<1>1. PICK n \in Nat : n = Len(s)
  BY <1>0
<1>2. PICK f : /\ f[0] = <<>>
               /\ \A i \in 1 .. Len(s) : f[i] = (IF s[i] \in gone THEN f[i - 1] ELSE Append(f[i - 1], s[i]))
               /\ Kept(s, gone) = f[Len(s)]
  BY <1>0, <1>1, KeptLoop, Zenon
<1>a. /\ f[0] = <<>> /\ Kept(s, gone) = f[n]
      /\ \A i \in 1 .. n : s[i] \in gone => f[i] = f[i - 1]
      /\ \A i \in 1 .. n : s[i] \notin gone => f[i] = Append(f[i - 1], s[i])
  BY <1>1, <1>2, Zenon
<1> DEFINE Good(i) ==
      /\ Arr(f[i]) /\ Len(f[i]) \in 0 .. i
      /\ \A g : \A a \in Int : Has(f[i], a, g) <=>
            \E j \in 1 .. i : s[j] \notin gone /\ In(s[j], a) /\ g = s[j].flags
      /\ i > 0 => EndsBy(f[i], End(s[i]))
      /\ (\E j \in 1 .. i : s[j] \in gone) => Len(f[i]) < i
<1> DEFINE S == {i \in 0 .. n : Good(i)}
<1>3. 0 \in S
  <2>1. Good(0)
    BY <1>a, EmptyArr
  <2> QED BY <1>1, <2>1
<1>4. ASSUME NEW i \in 0 + 1 .. n, i - 1 \in S PROVE i \in S
  <2>1. i \in 1 .. n /\ i - 1 \in Nat /\ s[i] \in RegionRec
    BY <1>0, <1>1, <1>4
  <2>2. Good(i - 1)
    BY <1>4
  <2>3. PICK u : u = f[i - 1]
    OBVIOUS
  <2>4. /\ Arr(u) /\ Len(u) \in 0 .. i - 1 /\ u \in Seq(RegionRec)
        /\ \A g : \A a \in Int : Has(u, a, g) <=>
            \E j \in 1 .. i - 1 : s[j] \notin gone /\ In(s[j], a) /\ g = s[j].flags
        /\ (\E j \in 1 .. i - 1 : s[j] \in gone) => Len(u) < i - 1
    BY <2>2, <2>3 DEF Arr
  <2>5. EndsBy(u, s[i].base)
    <3>1. CASE i - 1 = 0
      BY <1>a, <2>3, <3>1, EmptyArr
    <3>2. CASE i - 1 > 0
      <4>0. i - 1 \in 1 .. n /\ i \in 1 .. n /\ i - 1 < i
        BY <2>1, <3>2
      <4>1. End(s[i - 1]) <= s[i].base
        BY <1>1, <4>0 DEF Arr, Sorted
      <4>2. EndsBy(u, End(s[i - 1]))
        BY <2>2, <2>3, <3>2
      <4>3. \A k \in 1 .. Len(u) : End(u[k]) \in Nat
        BY <2>4, RegionFacts
      <4>4. End(s[i - 1]) \in Nat /\ s[i].base \in Nat
        BY <1>0, <1>1, <4>0, RegionFacts
      <4> QED BY <4>1, <4>2, <4>3, <4>4 DEF EndsBy
    <3> QED BY <2>1, <3>1, <3>2
  <2>6. EndsBy(u, End(s[i]))
    <3>1. \A k \in 1 .. Len(u) : End(u[k]) \in Nat /\ End(u[k]) <= s[i].base
      BY <2>4, <2>5, RegionFacts DEF EndsBy
    <3> QED BY <2>1, <3>1, RegionFacts DEF EndsBy
  <2>7. /\ \A j \in 1 .. i : j = i \/ j \in 1 .. i - 1
        /\ \A j \in 1 .. i - 1 : j \in 1 .. i
        /\ i \in 1 .. i
    BY <2>1
  <2>8. CASE s[i] \in gone
    <3>1. f[i] = u
      BY <1>a, <2>1, <2>3, <2>8
    <3>2. \A g : \A a \in Int : Has(u, a, g) <=>
            \E j \in 1 .. i : s[j] \notin gone /\ In(s[j], a) /\ g = s[j].flags
      BY <2>4, <2>7, <2>8
    <3>3. Len(u) \in 0 .. i /\ Len(u) < i
      BY <2>1, <2>4
    <3>4. Good(i)
      BY <2>4, <2>6, <3>1, <3>2, <3>3
    <3> HIDE DEF Good
    <3> QED BY <2>1, <3>4
  <2>9. CASE s[i] \notin gone
    <3>1. f[i] = Append(u, s[i])
      BY <1>a, <2>1, <2>3, <2>9
    <3>2. PICK v : v = Append(u, s[i])
      OBVIOUS
    <3>3. /\ Arr(v) /\ Len(v) = Len(u) + 1
          /\ \A a, g : Has(v, a, g) <=> Has(u, a, g) \/ (In(s[i], a) /\ g = s[i].flags)
          /\ EndsBy(v, End(s[i]))
      BY <2>1, <2>4, <2>5, <3>2, AppendArr
    <3>4. \A g : \A a \in Int : Has(v, a, g) <=>
            \E j \in 1 .. i : s[j] \notin gone /\ In(s[j], a) /\ g = s[j].flags
      BY <2>4, <2>7, <2>9, <3>3
    <3>5. Len(v) \in 0 .. i
      BY <2>1, <2>4, <3>3
    <3>6. (\E j \in 1 .. i : s[j] \in gone) => Len(v) < i
      <4>1. (\E j \in 1 .. i : s[j] \in gone) => Len(u) < i - 1
        BY <2>4, <2>7, <2>9
      <4> QED BY <2>1, <2>4, <3>3, <4>1
    <3>7. Good(i)
      BY <3>1, <3>2, <3>3, <3>4, <3>5, <3>6
    <3> HIDE DEF Good
    <3> QED BY <2>1, <3>7
  <2> QED BY <2>8, <2>9
<1> HIDE DEF S
<1>5. n \in S
  <2>1. 0 .. n \subseteq S
    BY <1>1, <1>3, <1>4, UpTo
  <2> QED BY <1>1, <2>1
<1>6. Good(n)
  BY <1>5 DEF S
<1>7. PICK w : w = Kept(s, gone)
  OBVIOUS
<1>8. /\ Arr(w) /\ Len(w) \in 0 .. n
      /\ \A g : \A a \in Int : Has(w, a, g) <=>
            \E j \in 1 .. n : s[j] \notin gone /\ In(s[j], a) /\ g = s[j].flags
      /\ n > 0 => EndsBy(w, End(s[n]))
      /\ (\E j \in 1 .. n : s[j] \in gone) => Len(w) < n
  BY <1>a, <1>6, <1>7
<1> HIDE DEF Good
<1>9. ASSUME NEW e \in Int, EndsBy(s, e) PROVE EndsBy(w, e)
  <2>1. CASE n = 0
    BY <1>8, <2>1 DEF EndsBy
  <2>2. CASE n > 0
    <3>1. EndsBy(w, End(s[n])) /\ w \in Seq(RegionRec)
      BY <1>8, <2>2 DEF Arr
    <3>2. \A k \in 1 .. Len(w) : End(w[k]) \in Nat /\ End(w[k]) <= End(s[n])
      BY <3>1, RegionFacts DEF EndsBy
    <3>3. End(s[n]) <= e /\ End(s[n]) \in Nat
      BY <1>0, <1>1, <1>9, <2>2, RegionFacts DEF EndsBy
    <3> QED BY <3>2, <3>3 DEF EndsBy
  <2> QED BY <1>1, <2>1, <2>2
<1>10. Len(w) <= n
  BY <1>1, <1>8
<1> QED BY <1>1, <1>7, <1>8, <1>9, <1>10
-----------------------------------------------------------------------------
(* memblock_add_range *)

(* no region of s holds address a *)
Outside(s, a) == \A j \in 1 .. Len(s) : ~ In(s[j], a)
(* the first round of memblock_add_range has dealt with i regions of s, and stands at w *)
PortInv(w, s, i, base, end, flags) ==
    /\ w \in [base : base .. end, out : Seq(RegionRec)] /\ Arr(w.out) /\ Len(w.out) >= i
    /\ w.base = base \/ (i > 0 /\ w.base <= End(s[i]))
    /\ w.base = end \/ i = 0 \/ End(s[i]) <= w.base
    /\ i = 0 => w.out = <<>>
    /\ i > 0 => EndsBy(w.out, End(s[i]))
    /\ \A g : \A a \in Int : Has(w.out, a, g) <=>
          \/ \E j \in 1 .. i : In(s[j], a) /\ g = s[j].flags
          \/ base <= a /\ a < w.base /\ g = flags /\ Outside(s, a)
    /\ Len(w.out) = i => \A a \in Int : base <= a /\ a < w.base => ~ Outside(s, a)

(* Where the regions before and after an address in a gap are *)
LEMMA GapOutside ==
    ASSUME NEW s, Arr(s), NEW i \in 1 .. Len(s), NEW a \in Int, a < s[i].base,
           i = 1 \/ End(s[i - 1]) <= a
    PROVE  Outside(s, a)
<1> SUFFICES ASSUME NEW j \in 1 .. Len(s) PROVE ~ In(s[j], a)
  BY DEF Outside
<1>0. s \in Seq(RegionRec)
  BY DEF Arr
<1>1. PICK n \in Nat : n = Len(s)
  BY <1>0
<1>2. s[i].base \in Nat /\ s[j].base \in Nat /\ End(s[j]) \in Nat /\ End(s[i]) \in Nat /\ s[i].base < End(s[i])
      /\ s[j].base < End(s[j])
  BY <1>0, RegionFacts
<1>3. CASE j = i
  BY <1>2, <1>3 DEF In
<1>4. CASE j > i
  <2>1. End(s[i]) <= s[j].base
    BY <1>4 DEF Arr, Sorted
  <2>2. s[j].base > a
    BY <1>2, <2>1
  <2> QED BY <1>2, <2>2 DEF In
<1>5. CASE j < i
  <2>1. i # 1 /\ i - 1 \in 1 .. n
    BY <1>1, <1>5
  <2>2. End(s[i - 1]) <= a /\ End(s[i - 1]) \in Nat /\ s[i - 1].base \in Nat /\ s[i - 1].base < End(s[i - 1])
    BY <1>0, <1>1, <2>1, RegionFacts
  <2>3. CASE j = i - 1
    BY <1>2, <2>2, <2>3 DEF In
  <2>4. CASE j < i - 1
    <3>1. End(s[j]) <= s[i - 1].base
      BY <1>1, <2>1, <2>4 DEF Arr, Sorted
    <3>2. End(s[j]) <= a
      BY <1>2, <2>2, <3>1
    <3> QED BY <1>2, <3>2 DEF In
  <2> QED BY <1>1, <1>5, <2>3, <2>4
<1> QED BY <1>1, <1>3, <1>4, <1>5

LEMMA PortionOne ==
    ASSUME NEW s, Arr(s), NEW base \in Nat, NEW end \in Nat, base < end, NEW flags \in SUBSET Nat,
           NEW i \in 1 .. Len(s), NEW w, PortInv(w, s, i - 1, base, end, flags)
    PROVE  PortInv(PortionStep(w, s[i], end, flags), s, i, base, end, flags)
<1>0. s \in Seq(RegionRec)
  BY DEF Arr
<1>1. PICK n \in Nat : n = Len(s)
  BY <1>0
<1>2. PICK r, b, out : r = s[i] /\ b = w.base /\ out = w.out
  OBVIOUS
<1>3. r \in RegionRec /\ r.base \in Nat /\ End(r) \in Nat /\ r.base < End(r) /\ i \in 1 .. n /\ i - 1 \in Nat /\ i > 0
  BY <1>0, <1>1, <1>2, RegionFacts
<1>4. /\ b \in base .. end /\ b \in Nat /\ Arr(out) /\ Len(out) >= i - 1
      /\ b = base \/ (i - 1 > 0 /\ b <= End(s[i - 1]))
      /\ b = end \/ i - 1 = 0 \/ End(s[i - 1]) <= b
      /\ i - 1 = 0 => out = <<>>
      /\ i - 1 > 0 => EndsBy(out, End(s[i - 1]))
      /\ Len(out) = i - 1 => \A a \in Int : base <= a /\ a < b => ~ Outside(s, a)
  <2>1. w.base \in base .. end
    BY DEF PortInv
  <2> QED BY <1>2, <2>1 DEF PortInv
<1>5. \A g : \A a \in Int : Has(out, a, g) <=>
          \/ \E j \in 1 .. i - 1 : In(s[j], a) /\ g = s[j].flags
          \/ base <= a /\ a < b /\ g = flags /\ Outside(s, a)
  BY <1>2 DEF PortInv
<1>6. out \in Seq(RegionRec) /\ Len(out) \in Nat /\ \A k \in 1 .. Len(out) : End(out[k]) \in Nat
  <2>1. out \in Seq(RegionRec)
    BY <1>4 DEF Arr
  <2>2. Len(out) \in Nat /\ \A k \in 1 .. Len(out) : out[k] \in RegionRec
    BY <2>1
  <2> QED BY <2>1, <2>2, RegionFacts
<1>7. i - 1 > 0 => /\ i - 1 \in 1 .. n /\ End(s[i - 1]) \in Nat /\ End(s[i - 1]) <= r.base
  <2> SUFFICES ASSUME i - 1 > 0
               PROVE  i - 1 \in 1 .. n /\ End(s[i - 1]) \in Nat /\ End(s[i - 1]) <= r.base
    OBVIOUS
  <2>1. i - 1 \in 1 .. n /\ i - 1 < i
    BY <1>3
  <2>2. End(s[i - 1]) <= s[i].base
    BY <1>1, <1>3, <2>1 DEF Arr, Sorted
  <2>3. s[i - 1] \in RegionRec
    BY <1>0, <1>1, <2>1
  <2>4. End(s[i - 1]) \in Nat
    BY <2>3, RegionFacts
  <2> QED BY <1>2, <2>1, <2>2, <2>4
<1>8. EndsBy(out, r.base)
  <2>1. CASE i - 1 = 0
    BY <1>4, <2>1, EmptyArr
  <2>2. CASE i - 1 > 0
    BY <1>3, <1>4, <1>6, <1>7, <2>2 DEF EndsBy
  <2> QED BY <1>3, <2>1, <2>2
<1>9. /\ \A j \in 1 .. i : j = i \/ j \in 1 .. i - 1
      /\ \A j \in 1 .. i - 1 : j \in 1 .. i
      /\ i \in 1 .. i
  BY <1>3
<1>10. PICK x : x = PortionStep(w, s[i], end, flags)
  OBVIOUS
<1>11. w \in [base : base .. end, out : Seq(RegionRec)]
  BY DEF PortInv
<1>12. CASE End(r) <= b
  <2>1. PICK o : o = Append(out, r)
    OBVIOUS
  <2>2. /\ Arr(o) /\ Len(o) = Len(out) + 1 /\ EndsBy(o, End(r))
        /\ \A a, g : Has(o, a, g) <=> Has(out, a, g) \/ (In(r, a) /\ g = r.flags)
    BY <1>3, <1>4, <1>8, <2>1, AppendArr
  <2>3. x = [w EXCEPT !.out = Append(@, r)]
    BY <1>2, <1>10, <1>12 DEF PortionStep
  <2>4. o \in Seq(RegionRec)
    BY <2>2 DEF Arr
  <2>5. x \in [base : base .. end, out : Seq(RegionRec)] /\ x.base = b /\ x.out = o
    BY <1>2, <1>11, <2>1, <2>3, <2>4
  <2>6. \A g : \A a \in Int : Has(o, a, g) <=>
          \/ \E j \in 1 .. i : In(s[j], a) /\ g = s[j].flags
          \/ base <= a /\ a < b /\ g = flags /\ Outside(s, a)
    BY <1>2, <1>5, <1>9, <2>2
  <2>7. b = base \/ b <= End(r)
    BY <1>3, <1>4, <1>7
  <2>8. Len(o) >= i /\ (Len(o) = i => \A a \in Int : base <= a /\ a < b => ~ Outside(s, a))
    <3>1. Len(o) >= i /\ (Len(o) = i => Len(out) = i - 1)
      BY <1>3, <1>4, <1>6, <2>2
    <3> QED BY <1>4, <3>1
  <2> QED BY <1>2, <1>3, <1>10, <1>12, <2>2, <2>5, <2>6, <2>7, <2>8 DEF PortInv
<1>13. CASE b < End(r)
  <2>1. PICK m, e : m = Min({r.base, end}) /\ e = Min({End(r), end})
    OBVIOUS
  <2>2. m = (IF r.base <= end THEN r.base ELSE end) /\ e = IF End(r) <= end THEN End(r) ELSE end
    BY <1>3, <2>1, MinTwo
  <2>3. m \in Nat /\ e \in Nat /\ m <= r.base /\ m <= end /\ e <= end /\ e <= End(r) /\ b <= e /\ m <= e
        /\ (e = end \/ e = End(r)) /\ (m = end \/ m = r.base)
    BY <1>3, <1>4, <1>13, <2>2
  <2>4. PICK p : p = Piece(b, m, flags)
    OBVIOUS
  <2>5. /\ Arr(p) /\ Len(p) = (IF b < m THEN 1 ELSE 0)
        /\ \A a, g : Has(p, a, g) <=> b <= a /\ a < m /\ g = flags /\ b < m
        /\ EndsBy(p, m) /\ StartsFrom(p, b)
    BY <1>4, <2>3, <2>4, PieceArr
  <2>6. b < m => i - 1 = 0 \/ End(s[i - 1]) <= b
    BY <1>4, <2>3
  <2>7. \A k \in 1 .. Len(out), l \in 1 .. Len(p) : End(out[k]) <= p[l].base
    <3> SUFFICES ASSUME NEW k \in 1 .. Len(out), NEW l \in 1 .. Len(p) PROVE End(out[k]) <= p[l].base
      OBVIOUS
    <3>1. b < m
      BY <2>5
    <3>2. i - 1 > 0
      BY <1>3, <1>4
    <3>3. End(out[k]) <= End(s[i - 1]) /\ End(out[k]) \in Nat
      BY <1>4, <1>6, <3>2 DEF EndsBy
    <3>4. End(s[i - 1]) <= b /\ End(s[i - 1]) \in Nat
      BY <1>7, <2>6, <3>1, <3>2
    <3>5. b <= p[l].base
      BY <2>5 DEF StartsFrom
    <3>6. p[l].base \in Nat
      BY <2>5, RegionFacts DEF Arr
    <3> QED BY <1>4, <3>3, <3>4, <3>5, <3>6
  <2>8. PICK q : q = out \o p
    OBVIOUS
  <2>9. /\ Arr(q) /\ Len(q) = Len(out) + Len(p)
        /\ \A a, g : Has(q, a, g) <=> Has(out, a, g) \/ Has(p, a, g)
        /\ \A ee : EndsBy(out, ee) /\ EndsBy(p, ee) => EndsBy(q, ee)
    BY <1>4, <2>5, <2>7, <2>8, Concat
  <2>10. EndsBy(p, r.base)
    <3>1. \A l \in 1 .. Len(p) : End(p[l]) \in Nat /\ End(p[l]) <= m
      BY <2>5, RegionFacts DEF Arr, EndsBy
    <3> QED BY <1>3, <2>3, <3>1 DEF EndsBy
  <2>11. EndsBy(q, r.base)
    BY <1>8, <2>9, <2>10
  <2>12. PICK o : o = Append(q, r)
    OBVIOUS
  <2>13. /\ Arr(o) /\ Len(o) = Len(q) + 1 /\ EndsBy(o, End(r))
         /\ \A a, g : Has(o, a, g) <=> Has(q, a, g) \/ (In(r, a) /\ g = r.flags)
    BY <1>3, <2>9, <2>11, <2>12, AppendArr
  <2>14. x = [base |-> e, out |-> o]
    BY <1>2, <1>3, <1>4, <1>10, <1>13, <2>1, <2>4, <2>8, <2>12 DEF PortionStep
  <2>15. x \in [base : base .. end, out : Seq(RegionRec)] /\ x.base = e /\ x.out = o
    <3>1. o \in Seq(RegionRec)
      BY <2>13 DEF Arr
    <3>2. e \in base .. end
      BY <1>4, <2>3
    <3> QED BY <2>14, <3>1, <3>2
  <2>16. ASSUME NEW a \in Int, b <= a, a < e PROVE Outside(s, a) <=> a < m
    <3>1. ASSUME a < m PROVE Outside(s, a)
      <4>1. b < m /\ a < s[i].base
        BY <1>2, <1>3, <1>4, <2>3, <2>16, <3>1
      <4>2. i = 1 \/ End(s[i - 1]) <= a
        <5>1. CASE i - 1 = 0
          BY <1>3, <5>1
        <5>2. CASE i - 1 > 0
          BY <1>4, <1>7, <2>6, <2>16, <4>1, <5>2
        <5> QED BY <1>3, <5>1, <5>2
      <4> QED BY <4>1, <4>2, GapOutside
    <3>2. ASSUME Outside(s, a) PROVE a < m
      <4>1. ~ In(r, a)
        BY <1>2, <3>2 DEF Outside
      <4>2. ~ (r.base <= a /\ a < End(r))
        BY <4>1, Zenon DEF In
      <4> QED BY <1>3, <2>3, <2>16, <4>2
    <3> QED BY <3>1, <3>2
  <2>17. ASSUME NEW g, NEW a \in Int
         PROVE  Has(o, a, g) <=>
                  \/ \E j \in 1 .. i : In(s[j], a) /\ g = s[j].flags
                  \/ base <= a /\ a < e /\ g = flags /\ Outside(s, a)
    <3>1. Has(o, a, g) <=> \/ Has(out, a, g) \/ (b <= a /\ a < m /\ g = flags /\ b < m)
                           \/ (In(r, a) /\ g = r.flags)
      BY <2>5, <2>9, <2>13
    <3>2. (\E j \in 1 .. i : In(s[j], a) /\ g = s[j].flags) <=>
              \/ \E j \in 1 .. i - 1 : In(s[j], a) /\ g = s[j].flags
              \/ In(r, a) /\ g = r.flags
      BY <1>2, <1>9
    <3>3. (b <= a /\ a < m /\ b < m) <=> (b <= a /\ a < e /\ Outside(s, a))
      <4>1. b <= a /\ a < m => a < e /\ b < m
        BY <1>4, <2>3
      <4> QED BY <2>16, <4>1
    <3>4. (base <= a /\ a < e) <=> (base <= a /\ a < b) \/ (b <= a /\ a < e)
      BY <1>4, <2>3
    <3> QED BY <1>5, <3>1, <3>2, <3>3, <3>4
  <2>18. Len(o) >= i /\ (Len(o) = i => \A a \in Int : base <= a /\ a < e => ~ Outside(s, a))
    <3>1. Len(p) = 0 \/ Len(p) = 1
      BY <2>5
    <3>2. Len(o) >= i /\ (Len(o) = i => Len(out) = i - 1 /\ ~ (b < m))
      BY <1>3, <1>4, <1>6, <2>5, <2>9, <2>13, <3>1
    <3>3. ASSUME Len(o) = i, NEW a \in Int, base <= a, a < e PROVE ~ Outside(s, a)
      <4>1. CASE a < b
        BY <1>4, <3>2, <3>3, <4>1
      <4>2. CASE b <= a
        <5>1. ~ (a < m)
          BY <1>4, <2>3, <3>2, <3>3, <4>2
        <5> QED BY <2>16, <3>3, <4>2, <5>1
      <4> QED BY <1>4, <4>1, <4>2
    <3> QED BY <3>2, <3>3
  <2>19. e = end \/ End(r) <= e
    BY <1>3, <2>3
  <2> QED BY <1>2, <1>3, <1>10, <2>3, <2>13, <2>15, <2>17, <2>18, <2>19 DEF PortInv
<1> QED BY <1>3, <1>4, <1>12, <1>13

(* The first round of memblock_add_range puts in the addresses that were in no region,
   with the flags that are asked for; if it counts no new region, there are none. *)
LEMMA PortionsOk ==
    ASSUME NEW s, Arr(s), NEW base \in Nat, NEW end \in Nat, base < end, NEW flags \in SUBSET Nat
    PROVE  LET p == Portions(s, base, end, flags)
           IN  /\ Arr(p) /\ Len(p) >= Len(s) /\ Len(p) > 0
               /\ \A g : \A a \in Int : Has(p, a, g) <=>
                     Has(s, a, g) \/ (base <= a /\ a < end /\ g = flags /\ Outside(s, a))
               /\ \A e \in Int : EndsBy(s, e) /\ end <= e => EndsBy(p, e)
               /\ Len(p) = Len(s) => \A a \in Int : base <= a /\ a < end => ~ Outside(s, a)
<1>0. s \in Seq(RegionRec)
  BY DEF Arr
<1>1. PICK n \in Nat : n = Len(s)
  BY <1>0
<1>a. PICK f : PortionsRun(f, s, base, end, flags)
  BY <1>0, PortionsLoop
<1>2. /\ f[0] = [base |-> base, out |-> <<>>]
      /\ \A i \in 1 .. Len(s) : f[i] = PortionStep(f[i - 1], s[i], end, flags)
      /\ Portions(s, base, end, flags) = f[Len(s)].out \o Piece(f[Len(s)].base, end, flags)
  BY <1>a DEF PortionsRun
<1> DEFINE S == {i \in 0 .. n : PortInv(f[i], s, i, base, end, flags)}
<1>3. 0 \in S
  <2>1. PICK w : w = f[0]
    OBVIOUS
  <2>2. w = [base |-> base, out |-> <<>>]
    BY <1>2, <2>1
  <2>3. w \in [base : base .. end, out : Seq(RegionRec)] /\ w.base = base /\ w.out = <<>>
    BY <2>2
  <2>4. PortInv(w, s, 0, base, end, flags)
    BY <2>3, EmptyArr DEF PortInv
  <2> QED BY <1>1, <2>1, <2>4
<1>4. ASSUME NEW i \in 0 + 1 .. n, i - 1 \in S PROVE i \in S
  <2>1. i \in 1 .. Len(s) /\ i \in 0 .. n
    BY <1>1, <1>4
  <2>2. PortInv(f[i - 1], s, i - 1, base, end, flags)
    BY <1>4
  <2>3. PortInv(f[i], s, i, base, end, flags)
    BY <1>2, <2>1, <2>2, PortionOne
  <2> QED BY <2>1, <2>3
<1> HIDE DEF S
<1>5. n \in S
  <2>1. 0 .. n \subseteq S
    BY <1>1, <1>3, <1>4, UpTo
  <2> QED BY <1>1, <2>1
<1>6. PICK w : w = f[n]
  OBVIOUS
<1>7. PortInv(w, s, n, base, end, flags)
  BY <1>5, <1>6 DEF S
<1>8. PICK b, out : b = w.base /\ out = w.out
  OBVIOUS
<1>9. /\ b \in base .. end /\ b \in Nat /\ Arr(out) /\ Len(out) >= n
      /\ b = end \/ n = 0 \/ End(s[n]) <= b
      /\ n = 0 => out = <<>>
      /\ n > 0 => EndsBy(out, End(s[n]))
      /\ Len(out) = n => \A a \in Int : base <= a /\ a < b => ~ Outside(s, a)
  <2>1. w.base \in base .. end
    BY <1>7 DEF PortInv
  <2> QED BY <1>7, <1>8, <2>1 DEF PortInv
<1>10. \A g : \A a \in Int : Has(out, a, g) <=>
          \/ \E j \in 1 .. n : In(s[j], a) /\ g = s[j].flags
          \/ base <= a /\ a < b /\ g = flags /\ Outside(s, a)
  BY <1>7, <1>8 DEF PortInv
<1>11. out \in Seq(RegionRec) /\ Len(out) \in Nat /\ \A k \in 1 .. Len(out) : End(out[k]) \in Nat
  <2>1. out \in Seq(RegionRec)
    BY <1>9 DEF Arr
  <2>2. Len(out) \in Nat /\ \A k \in 1 .. Len(out) : out[k] \in RegionRec
    BY <2>1
  <2> QED BY <2>1, <2>2, RegionFacts
<1>12. n > 0 => End(s[n]) \in Nat /\ \A j \in 1 .. n : End(s[j]) <= End(s[n]) /\ End(s[j]) \in Nat
  <2> SUFFICES ASSUME n > 0, NEW j \in 1 .. n
               PROVE  End(s[n]) \in Nat /\ End(s[j]) <= End(s[n]) /\ End(s[j]) \in Nat
    <3>1. n > 0 => 1 \in 1 .. n
      OBVIOUS
    <3> QED BY <3>1
  <2>1. s[n] \in RegionRec /\ s[j] \in RegionRec
    BY <1>0, <1>1
  <2>2. End(s[n]) \in Nat /\ End(s[j]) \in Nat /\ s[n].base \in Nat /\ s[n].base < End(s[n])
    BY <2>1, RegionFacts
  <2>3. CASE j = n
    BY <2>2, <2>3
  <2>4. CASE j < n
    <3>1. End(s[j]) <= s[n].base
      BY <1>1, <2>4 DEF Arr, Sorted
    <3> QED BY <2>2, <3>1
  <2> QED BY <2>2, <2>3, <2>4
<1>13. PICK p : p = Piece(b, end, flags)
  OBVIOUS
<1>14. /\ Arr(p) /\ Len(p) = (IF b < end THEN 1 ELSE 0)
       /\ \A a, g : Has(p, a, g) <=> b <= a /\ a < end /\ g = flags /\ b < end
       /\ EndsBy(p, end) /\ StartsFrom(p, b)
  BY <1>9, <1>13, PieceArr
<1>15. \A k \in 1 .. Len(out), l \in 1 .. Len(p) : End(out[k]) <= p[l].base
  <2> SUFFICES ASSUME NEW k \in 1 .. Len(out), NEW l \in 1 .. Len(p) PROVE End(out[k]) <= p[l].base
    OBVIOUS
  <2>1. b < end
    BY <1>14
  <2>2. n > 0
    BY <1>9
  <2>3. End(out[k]) <= End(s[n]) /\ End(out[k]) \in Nat
    BY <1>9, <1>11, <2>2 DEF EndsBy
  <2>4. End(s[n]) <= b /\ End(s[n]) \in Nat
    BY <1>9, <1>12, <2>1, <2>2
  <2>5. b <= p[l].base
    BY <1>14 DEF StartsFrom
  <2>6. p[l].base \in Nat
    BY <1>14, RegionFacts DEF Arr
  <2> QED BY <1>9, <2>3, <2>4, <2>5, <2>6
<1>16. PICK q : q = Portions(s, base, end, flags)
  OBVIOUS
<1>17. q = out \o p
  BY <1>1, <1>2, <1>6, <1>8, <1>13, <1>16
<1>18. /\ Arr(q) /\ Len(q) = Len(out) + Len(p)
       /\ \A a, g : Has(q, a, g) <=> Has(out, a, g) \/ Has(p, a, g)
       /\ \A ee : EndsBy(out, ee) /\ EndsBy(p, ee) => EndsBy(q, ee)
  BY <1>9, <1>14, <1>15, <1>17, Concat
<1>19. ASSUME NEW a \in Int, b <= a, a < end PROVE Outside(s, a)
  <2> SUFFICES ASSUME NEW j \in 1 .. n PROVE ~ In(s[j], a)
    BY <1>1 DEF Outside
  <2>1. End(s[j]) <= a
    BY <1>9, <1>12, <1>19
  <2> QED BY <1>12, <2>1 DEF In
<1>20. ASSUME NEW g, NEW a \in Int
       PROVE  Has(q, a, g) <=> Has(s, a, g) \/ (base <= a /\ a < end /\ g = flags /\ Outside(s, a))
  <2>1. Has(s, a, g) <=> \E j \in 1 .. n : In(s[j], a) /\ g = s[j].flags
    BY <1>1 DEF Has
  <2>2. (base <= a /\ a < end) <=> (base <= a /\ a < b) \/ (b <= a /\ a < end)
    BY <1>9
  <2>3. b <= a /\ a < end => b < end
    BY <1>9
  <2> QED BY <1>10, <1>14, <1>18, <1>19, <2>1, <2>2, <2>3
<1>21. ASSUME NEW e \in Int, EndsBy(s, e), end <= e PROVE EndsBy(q, e)
  <2>1. EndsBy(out, e)
    <3>1. CASE n = 0
      BY <1>9, <3>1, EmptyArr
    <3>2. CASE n > 0
      <4>1. End(s[n]) <= e
        BY <1>1, <1>21, <3>2 DEF EndsBy
      <4>2. \A k \in 1 .. Len(out) : End(out[k]) <= End(s[n])
        BY <1>9, <3>2 DEF EndsBy
      <4> QED BY <1>11, <1>12, <3>2, <4>1, <4>2 DEF EndsBy
    <3> QED BY <3>1, <3>2
  <2>2. EndsBy(p, e)
    <3>1. \A l \in 1 .. Len(p) : End(p[l]) \in Nat /\ End(p[l]) <= end
      BY <1>14, RegionFacts DEF Arr, EndsBy
    <3> QED BY <1>21, <3>1 DEF EndsBy
  <2> QED BY <1>18, <2>1, <2>2
<1>22. Len(p) = 0 \/ Len(p) = 1
  BY <1>14
<1>23. Len(q) >= n /\ Len(q) > 0
  <2>1. n = 0 => b < end
    <3>1. n = 0 => b = base
      BY <1>7, <1>8 DEF PortInv
    <3> QED BY <3>1
  <2> QED BY <1>9, <1>11, <1>14, <1>18, <1>22, <2>1
<1>24. ASSUME Len(q) = n, NEW a \in Int, base <= a, a < end PROVE ~ Outside(s, a)
  <2>1. Len(out) = n /\ ~ (b < end)
    BY <1>9, <1>11, <1>14, <1>18, <1>22, <1>24
  <2>2. a < b
    BY <1>9, <1>24, <2>1
  <2> QED BY <1>9, <1>24, <2>1, <2>2
<1> QED BY <1>1, <1>16, <1>18, <1>20, <1>21, <1>23, <1>24
-----------------------------------------------------------------------------
(* memblock_isolate_range *)

(* every region of s lies between base and end or does not meet that range *)
Isolated(s, base, end) ==
    \A k \in 1 .. Len(s) : Overlaps(s[k], base, end) => base <= s[k].base /\ End(s[k]) <= end

LEMMA IsolatedConcat ==
    ASSUME NEW u \in Seq(RegionRec), NEW v \in Seq(RegionRec), NEW base, NEW end,
           Isolated(u, base, end), Isolated(v, base, end)
    PROVE  Isolated(u \o v, base, end)
<1>2. PICK w, m, n : w = u \o v /\ m = Len(u) /\ n = Len(v)
  OBVIOUS
<1>3. /\ Len(w) = m + n /\ m \in Nat /\ n \in Nat
      /\ \A i \in 1 .. m : w[i] = u[i]
      /\ \A i \in m + 1 .. m + n : w[i] = v[i - m]
  BY <1>2
<1>5. \A i \in 1 .. m + n : i \in 1 .. m \/ (i \in m + 1 .. m + n /\ i - m \in 1 .. n)
  BY <1>3
<1> SUFFICES ASSUME NEW k \in 1 .. m + n, Overlaps(w[k], base, end)
             PROVE  base <= w[k].base /\ End(w[k]) <= end
  BY <1>2, <1>3 DEF Isolated
<1>6. CASE k \in 1 .. m
  BY <1>2, <1>3, <1>6 DEF Isolated
<1>7. CASE k \in m + 1 .. m + n /\ k - m \in 1 .. n
  BY <1>2, <1>3, <1>7 DEF Isolated
<1> QED BY <1>5, <1>6, <1>7

LEMMA CutOk ==
    ASSUME NEW r \in RegionRec, NEW base \in Nat, NEW end \in Nat, base <= end
    PROVE  LET c == Cut(r, base, end)
           IN  /\ Arr(c) /\ Len(c) > 0 /\ EndsBy(c, End(r)) /\ StartsFrom(c, r.base)
               /\ \A g : \A a \in Int : Has(c, a, g) <=> In(r, a) /\ g = r.flags
               /\ Isolated(c, base, end)
<1>0. r.base \in Nat /\ End(r) \in Nat /\ r.base < End(r) /\ r.flags \in SUBSET Nat
  <2>1. r.flags \in SUBSET Nat
    BY DEF RegionRec
  <2> QED BY <2>1, RegionFacts
<1>1. CASE ~ Overlaps(r, base, end)
  <2>1. Cut(r, base, end) = <<r>>
    BY <1>1 DEF Cut
  <2>2. Len(<<r>>) = 1 /\ <<r>>[1] = r
    OBVIOUS
  <2>3. Isolated(<<r>>, base, end)
    <3>1. \A k \in 1 .. Len(<<r>>) : <<r>>[k] = r
      BY <2>2
    <3> QED BY <1>1, <3>1 DEF Isolated
  <2>4. Arr(<<r>>) /\ \A a, f : Has(<<r>>, a, f) <=> In(r, a) /\ f = r.flags
    BY OneArr
  <2>5. EndsBy(<<r>>, End(r)) /\ StartsFrom(<<r>>, r.base)
    BY <1>0, OneArr
  <2> QED BY <2>1, <2>2, <2>3, <2>4, <2>5
<1>2. CASE Overlaps(r, base, end)
  <2>1. PICK lo, hi : lo = Max({r.base, base}) /\ hi = Min({End(r), end})
    OBVIOUS
  <2>2. lo = (IF r.base >= base THEN r.base ELSE base) /\ hi = (IF End(r) <= end THEN End(r) ELSE end)
    BY <1>0, <2>1, MinTwo, MaxTwo
  <2>3. r.base < end /\ base < End(r)
    BY <1>0, <1>2 DEF Overlaps
  <2>4. /\ lo \in Nat /\ hi \in Nat /\ lo <= hi /\ r.base <= lo /\ hi <= End(r) /\ base <= lo /\ hi <= end
        /\ (r.base < lo => lo = base) /\ (hi < End(r) => hi = end)
    BY <1>0, <2>2, <2>3
  <2>5. PICK p1, p2, p3 : /\ p1 = Piece(r.base, lo, r.flags) /\ p2 = Piece(lo, hi, r.flags)
                          /\ p3 = Piece(hi, End(r), r.flags)
    OBVIOUS
  <2>6. Cut(r, base, end) = p1 \o p2 \o p3
    BY <1>2, <2>1, <2>5 DEF Cut
  <2>a. PICK rb \in Nat, re \in Nat, fl \in SUBSET Nat : rb = r.base /\ re = End(r) /\ fl = r.flags
    BY <1>0
  <2>b. p1 = Piece(rb, lo, fl) /\ p2 = Piece(lo, hi, fl) /\ p3 = Piece(hi, re, fl)
    BY <2>5, <2>a
  <2>c. ASSUME NEW from \in Nat, NEW to \in Nat, NEW p, p = Piece(from, to, fl)
        PROVE  /\ Arr(p) /\ Len(p) = (IF from < to THEN 1 ELSE 0)
               /\ \A a, f : Has(p, a, f) <=> from <= a /\ a < to /\ f = fl /\ from < to
               /\ EndsBy(p, to) /\ StartsFrom(p, from)
    BY <2>c, PieceArr
  <2>7. /\ Arr(p1) /\ Len(p1) = (IF r.base < lo THEN 1 ELSE 0)
        /\ \A a, f : Has(p1, a, f) <=> r.base <= a /\ a < lo /\ f = r.flags /\ r.base < lo
        /\ EndsBy(p1, lo) /\ StartsFrom(p1, r.base)
    BY <2>4, <2>a, <2>b, <2>c
  <2>8. /\ Arr(p2) /\ Len(p2) = (IF lo < hi THEN 1 ELSE 0)
        /\ \A a, f : Has(p2, a, f) <=> lo <= a /\ a < hi /\ f = r.flags /\ lo < hi
        /\ EndsBy(p2, hi) /\ StartsFrom(p2, lo)
    <3>1. lo \in Nat /\ hi \in Nat
      BY <2>4
    <3>2. /\ Arr(p2) /\ Len(p2) = (IF lo < hi THEN 1 ELSE 0)
          /\ \A a, f : Has(p2, a, f) <=> lo <= a /\ a < hi /\ f = fl /\ lo < hi
          /\ EndsBy(p2, hi) /\ StartsFrom(p2, lo)
      BY <2>b, <2>c, <3>1
    <3> QED BY <2>a, <3>2
  <2>9. /\ Arr(p3) /\ Len(p3) = (IF hi < End(r) THEN 1 ELSE 0)
        /\ \A a, f : Has(p3, a, f) <=> hi <= a /\ a < End(r) /\ f = r.flags /\ hi < End(r)
        /\ EndsBy(p3, End(r)) /\ StartsFrom(p3, hi)
    BY <2>4, <2>a, <2>b, <2>c
  <2>10. /\ \A k \in 1 .. Len(p1) : p1[k].base \in Nat /\ End(p1[k]) \in Nat
         /\ \A k \in 1 .. Len(p2) : p2[k].base \in Nat /\ End(p2[k]) \in Nat
         /\ \A k \in 1 .. Len(p3) : p3[k].base \in Nat /\ End(p3[k]) \in Nat
    <3>1. p1 \in Seq(RegionRec) /\ p2 \in Seq(RegionRec) /\ p3 \in Seq(RegionRec)
      BY <2>7, <2>8, <2>9 DEF Arr
    <3>2. /\ \A k \in 1 .. Len(p1) : p1[k] \in RegionRec
          /\ \A k \in 1 .. Len(p2) : p2[k] \in RegionRec
          /\ \A k \in 1 .. Len(p3) : p3[k] \in RegionRec
      BY <3>1
    <3> QED BY <3>2, RegionFacts
  <2>11. \A k \in 1 .. Len(p1), l \in 1 .. Len(p2) : End(p1[k]) <= p2[l].base
    BY <2>4, <2>7, <2>8, <2>10 DEF EndsBy, StartsFrom
  <2>12. PICK q : q = p1 \o p2
    OBVIOUS
  <2>13. /\ Arr(q) /\ Len(q) = Len(p1) + Len(p2)
         /\ \A a, f : Has(q, a, f) <=> Has(p1, a, f) \/ Has(p2, a, f)
         /\ \A e : EndsBy(p1, e) /\ EndsBy(p2, e) => EndsBy(q, e)
         /\ \A e : StartsFrom(p1, e) /\ StartsFrom(p2, e) => StartsFrom(q, e)
    BY <2>7, <2>8, <2>11, <2>12, Concat
  <2>14. EndsBy(q, hi) /\ StartsFrom(q, r.base)
    <3>1. EndsBy(p1, hi)
      BY <2>4, <2>7, <2>10 DEF EndsBy
    <3>2. StartsFrom(p2, r.base)
      BY <1>0, <2>4, <2>8, <2>10 DEF StartsFrom
    <3> QED BY <2>7, <2>8, <2>13, <3>1, <3>2
  <2>15. /\ q \in Seq(RegionRec) /\ p1 \in Seq(RegionRec) /\ p2 \in Seq(RegionRec) /\ p3 \in Seq(RegionRec)
         /\ \A k \in 1 .. Len(q) : q[k].base \in Nat /\ End(q[k]) \in Nat
    <3>1. q \in Seq(RegionRec) /\ p1 \in Seq(RegionRec) /\ p2 \in Seq(RegionRec) /\ p3 \in Seq(RegionRec)
      BY <2>7, <2>8, <2>9, <2>13 DEF Arr
    <3>2. \A k \in 1 .. Len(q) : q[k] \in RegionRec
      BY <3>1
    <3> QED BY <3>1, <3>2, RegionFacts
  <2>16. \A k \in 1 .. Len(q), l \in 1 .. Len(p3) : End(q[k]) <= p3[l].base
    <3>1. \A k \in 1 .. Len(q) : End(q[k]) <= hi /\ End(q[k]) \in Nat
      BY <2>14, <2>15 DEF EndsBy
    <3>2. \A l \in 1 .. Len(p3) : hi <= p3[l].base /\ p3[l].base \in Nat
      BY <2>9, <2>10 DEF StartsFrom
    <3> QED BY <2>4, <3>1, <3>2
  <2>17. PICK c : c = q \o p3
    OBVIOUS
  <2>18. /\ Arr(c) /\ Len(c) = Len(q) + Len(p3)
         /\ \A a, f : Has(c, a, f) <=> Has(q, a, f) \/ Has(p3, a, f)
         /\ \A e : EndsBy(q, e) /\ EndsBy(p3, e) => EndsBy(c, e)
         /\ \A e : StartsFrom(q, e) /\ StartsFrom(p3, e) => StartsFrom(c, e)
    BY <2>9, <2>13, <2>16, <2>17, Concat
  <2>19. EndsBy(c, End(r)) /\ StartsFrom(c, r.base)
    <3>1. EndsBy(q, End(r))
      BY <1>0, <2>4, <2>14, <2>15 DEF EndsBy
    <3>2. StartsFrom(p3, r.base)
      BY <1>0, <2>4, <2>9, <2>10 DEF StartsFrom
    <3> QED BY <2>9, <2>14, <2>18, <3>1, <3>2
  <2>20. \A g : \A a \in Int : Has(c, a, g) <=> In(r, a) /\ g = r.flags
    <3> SUFFICES ASSUME NEW g, NEW a \in Int PROVE Has(c, a, g) <=> In(r, a) /\ g = r.flags
      OBVIOUS
    <3>1. In(r, a) <=> r.base <= a /\ a < End(r)
      BY DEF In
    <3>2. (r.base <= a /\ a < End(r)) <=>
            \/ r.base <= a /\ a < lo /\ r.base < lo
            \/ lo <= a /\ a < hi /\ lo < hi
            \/ hi <= a /\ a < End(r) /\ hi < End(r)
      BY <1>0, <2>4
    <3> QED BY <2>7, <2>8, <2>9, <2>13, <2>18, <3>1, <3>2
  <2>21. Len(c) > 0
    BY <1>0, <2>4, <2>7, <2>8, <2>9, <2>13, <2>18
  <2>22. Isolated(p1, base, end) /\ Isolated(p2, base, end) /\ Isolated(p3, base, end)
    <3>1. ASSUME NEW k \in 1 .. Len(p1) PROVE ~ Overlaps(p1[k], base, end)
      <4>1. lo = base
        BY <2>4, <2>7
      <4> QED BY <2>7, <2>10, <4>1 DEF EndsBy, Overlaps
    <3>2. ASSUME NEW k \in 1 .. Len(p2) PROVE base <= p2[k].base /\ End(p2[k]) <= end
      BY <2>4, <2>8, <2>10 DEF EndsBy, StartsFrom
    <3>3. ASSUME NEW k \in 1 .. Len(p3) PROVE ~ Overlaps(p3[k], base, end)
      <4>1. hi = end
        BY <2>4, <2>9
      <4> QED BY <2>9, <2>10, <4>1 DEF StartsFrom, Overlaps
    <3> QED BY <3>1, <3>2, <3>3 DEF Isolated
  <2>23. Isolated(c, base, end)
    BY <2>12, <2>15, <2>17, <2>22, IsolatedConcat
  <2>24. c = Cut(r, base, end)
    BY <2>6, <2>12, <2>17
  <2> QED BY <2>18, <2>19, <2>20, <2>21, <2>23, <2>24
<1> QED BY <1>1, <1>2

(* Cutting regions changes nothing that an array says, and leaves no region that crosses
   the bounds of the range. *)
LEMMA IsolateOk ==
    ASSUME NEW s, Arr(s), NEW base \in Nat, NEW end \in Nat, base <= end
    PROVE  LET c == Isolate(s, base, end)
           IN  /\ Arr(c) /\ (Len(s) > 0 => Len(c) > 0) /\ Isolated(c, base, end)
               /\ \A g : \A a \in Int : Has(c, a, g) <=> Has(s, a, g)
               /\ \A e \in Int : EndsBy(s, e) => EndsBy(c, e)
<1>0. s \in Seq(RegionRec)
  BY DEF Arr
<1>1. PICK n \in Nat : n = Len(s)
  BY <1>0
<1>a. PICK f : IsolateRun(f, s, base, end)
  BY <1>0, IsolateLoop
<1>2. /\ f[0] = <<>>
      /\ \A i \in 1 .. n : f[i] = f[i - 1] \o Cut(s[i], base, end)
      /\ Isolate(s, base, end) = f[n]
  BY <1>1, <1>a DEF IsolateRun
<1> DEFINE Good(i) ==
      /\ Arr(f[i]) /\ (i > 0 => Len(f[i]) > 0) /\ Isolated(f[i], base, end)
      /\ \A g : \A a \in Int : Has(f[i], a, g) <=> \E j \in 1 .. i : In(s[j], a) /\ g = s[j].flags
      /\ i > 0 => EndsBy(f[i], End(s[i]))
<1> DEFINE S == {i \in 0 .. n : Good(i)}
<1>3. 0 \in S
  <2>1. Good(0)
    <3>1. Isolated(<<>>, base, end)
      BY DEF Isolated
    <3> QED BY <1>2, <3>1, EmptyArr
  <2> QED BY <1>1, <2>1
<1>4. ASSUME NEW i \in 0 + 1 .. n, i - 1 \in S PROVE i \in S
  <2>1. i \in 1 .. n /\ i - 1 \in Nat /\ s[i] \in RegionRec /\ i > 0
    BY <1>0, <1>1, <1>4
  <2>2. Good(i - 1)
    BY <1>4
  <2>3. PICK u, r, c : u = f[i - 1] /\ r = s[i] /\ c = Cut(s[i], base, end)
    OBVIOUS
  <2>4. /\ Arr(u) /\ Isolated(u, base, end)
        /\ \A g : \A a \in Int : Has(u, a, g) <=> \E j \in 1 .. i - 1 : In(s[j], a) /\ g = s[j].flags
        /\ i - 1 > 0 => EndsBy(u, End(s[i - 1]))
        /\ i - 1 = 0 => u = <<>>
    BY <1>2, <2>2, <2>3
  <2>5. u \in Seq(RegionRec) /\ Len(u) \in Nat /\ \A k \in 1 .. Len(u) : End(u[k]) \in Nat
    <3>1. u \in Seq(RegionRec)
      BY <2>4 DEF Arr
    <3>2. Len(u) \in Nat /\ \A k \in 1 .. Len(u) : u[k] \in RegionRec
      BY <3>1
    <3> QED BY <3>1, <3>2, RegionFacts
  <2>6. r \in RegionRec /\ r.base \in Nat /\ End(r) \in Nat /\ r.base < End(r)
    BY <2>1, <2>3, RegionFacts
  <2>7. EndsBy(u, r.base)
    <3>1. CASE i - 1 = 0
      BY <2>4, <3>1, EmptyArr
    <3>2. CASE i - 1 > 0
      <4>0. i - 1 \in 1 .. n /\ i \in 1 .. n /\ i - 1 < i
        BY <2>1, <3>2
      <4>1. End(s[i - 1]) <= s[i].base
        BY <1>1, <4>0 DEF Arr, Sorted
      <4>2. s[i - 1] \in RegionRec
        BY <1>0, <1>1, <4>0
      <4>3. End(s[i - 1]) \in Nat
        BY <4>2, RegionFacts
      <4> QED BY <2>3, <2>4, <2>5, <2>6, <3>2, <4>1, <4>3 DEF EndsBy
    <3> QED BY <2>1, <3>1, <3>2
  <2>8. /\ Arr(c) /\ Len(c) > 0 /\ EndsBy(c, End(r)) /\ StartsFrom(c, r.base)
        /\ \A g : \A a \in Int : Has(c, a, g) <=> In(r, a) /\ g = r.flags
        /\ Isolated(c, base, end)
    BY <2>3, <2>6, CutOk
  <2>9. c \in Seq(RegionRec) /\ Len(c) \in Nat /\ \A k \in 1 .. Len(c) : c[k].base \in Nat
    <3>1. c \in Seq(RegionRec)
      BY <2>8 DEF Arr
    <3>2. Len(c) \in Nat /\ \A k \in 1 .. Len(c) : c[k] \in RegionRec
      BY <3>1
    <3> QED BY <3>1, <3>2, RegionFacts
  <2>10. \A k \in 1 .. Len(u), l \in 1 .. Len(c) : End(u[k]) <= c[l].base
    BY <2>5, <2>6, <2>7, <2>8, <2>9 DEF EndsBy, StartsFrom
  <2>11. PICK w : w = u \o c
    OBVIOUS
  <2>12. /\ Arr(w) /\ Len(w) = Len(u) + Len(c)
         /\ \A a, g : Has(w, a, g) <=> Has(u, a, g) \/ Has(c, a, g)
         /\ \A e : EndsBy(u, e) /\ EndsBy(c, e) => EndsBy(w, e)
    BY <2>4, <2>8, <2>10, <2>11, Concat
  <2>13. Isolated(w, base, end)
    BY <2>4, <2>5, <2>8, <2>9, <2>11, IsolatedConcat
  <2>14. EndsBy(w, End(r))
    <3>1. EndsBy(u, End(r))
      BY <2>5, <2>6, <2>7 DEF EndsBy
    <3> QED BY <2>8, <2>12, <3>1
  <2>15. \A g : \A a \in Int : Has(w, a, g) <=> \E j \in 1 .. i : In(s[j], a) /\ g = s[j].flags
    <3>1. \A j \in 1 .. i : j = i \/ j \in 1 .. i - 1
      BY <2>1
    <3>2. \A j \in 1 .. i - 1 : j \in 1 .. i
      BY <2>1
    <3>3. i \in 1 .. i
      BY <2>1
    <3> QED BY <2>3, <2>4, <2>8, <2>12, <3>1, <3>2, <3>3
  <2>16. f[i] = w
    BY <1>2, <2>1, <2>3, <2>11
  <2>17. Len(w) > 0
    BY <2>5, <2>8, <2>9, <2>12
  <2>18. Good(i)
    BY <2>3, <2>12, <2>13, <2>14, <2>15, <2>16, <2>17
  <2> HIDE DEF Good
  <2> QED BY <2>1, <2>18
<1> HIDE DEF S
<1>5. n \in S
  <2>1. 0 .. n \subseteq S
    BY <1>1, <1>3, <1>4, UpTo
  <2> QED BY <1>1, <2>1
<1>6. Good(n)
  BY <1>5 DEF S
<1>7. PICK w : w = Isolate(s, base, end)
  OBVIOUS
<1>8. /\ Arr(w) /\ (n > 0 => Len(w) > 0) /\ Isolated(w, base, end)
      /\ \A g : \A a \in Int : Has(w, a, g) <=> \E j \in 1 .. n : In(s[j], a) /\ g = s[j].flags
      /\ n > 0 => EndsBy(w, End(s[n]))
      /\ n = 0 => w = <<>>
  BY <1>2, <1>6, <1>7
<1> HIDE DEF Good
<1>9. \A g : \A a \in Int : Has(w, a, g) <=> Has(s, a, g)
  <2>2. ASSUME NEW g, NEW a \in Int PROVE Has(s, a, g) <=> \E j \in 1 .. n : In(s[j], a) /\ g = s[j].flags
    BY <1>1 DEF Has
  <2> QED BY <1>8, <2>2
<1>10. ASSUME NEW e \in Int, EndsBy(s, e) PROVE EndsBy(w, e)
  <2>1. CASE n = 0
    BY <1>8, <2>1, EmptyArr
  <2>2. CASE n > 0
    <3>1. EndsBy(w, End(s[n])) /\ w \in Seq(RegionRec)
      BY <1>8, <2>2 DEF Arr
    <3>2. \A k \in 1 .. Len(w) : End(w[k]) \in Nat /\ End(w[k]) <= End(s[n])
      BY <3>1, RegionFacts DEF EndsBy
    <3>3. End(s[n]) <= e /\ End(s[n]) \in Nat
      BY <1>0, <1>1, <1>10, <2>2, RegionFacts DEF EndsBy
    <3> QED BY <3>2, <3>3 DEF EndsBy
  <2> QED BY <1>1, <2>1, <2>2
<1> QED BY <1>1, <1>7, <1>8, <1>9, <1>10
-----------------------------------------------------------------------------
(* memblock_search *)
SearchRun(f, t, addr) ==
    /\ f[0] = [left |-> 0, right |-> Len(t.regions), found |-> 0]
    /\ \A i \in 1 .. Len(t.regions) : f[i] = SearchStep(t.regions, addr, f[i - 1])
    /\ memblock_search(t, addr) = f[Len(t.regions)].found

LEMMA SearchLoop ==
    ASSUME NEW t, NEW addr, Len(t.regions) \in Nat
    PROVE  \E f : SearchRun(f, t, addr)
<1>0. PICK n \in Nat : n = Len(t.regions)
  OBVIOUS
<1> DEFINE v == [left |-> 0, right |-> Len(t.regions), found |-> 0]
           G(u, i) == SearchStep(t.regions, addr, u)
           Def(f, m) == f = [i \in 0 .. m |-> IF i = 0 THEN v ELSE G(f[i - 1], i)]
           loop == CHOOSE f : f = [k \in 0 .. Len(t.regions) |-> IF k = 0 THEN [left |-> 0, right |-> Len(t.regions), found |-> 0]
                                                   ELSE SearchStep(t.regions, addr, f[k - 1])]
<1>1. \E f : Def(f, n)
  <2> DEFINE S == {m \in 0 .. n : \E f : Def(f, m)}
  <2> HIDE DEF G, v
  <2>1. 0 \in S
    <3> DEFINE f == [i \in 0 .. 0 |-> v]
    <3>1. Def(f, 0)
      OBVIOUS
    <3> HIDE DEF Def
    <3> QED BY <3>1
  <2>2. ASSUME NEW m \in 0 + 1 .. n, m - 1 \in S PROVE m \in S
    <3>0. m \in Nat /\ m # 0 /\ m \in 0 .. n
      BY <1>0, <2>2
    <3>1. PICK f : Def(f, m - 1)
      BY <2>2
    <3> DEFINE g == [i \in 0 .. m |-> IF i = m THEN G(f[m - 1], m) ELSE f[i]]
    <3>2. ASSUME NEW i \in 0 .. m PROVE g[i] = IF i = 0 THEN v ELSE G(g[i - 1], i)
      <4>1. CASE i = m
        <5>1. g[i - 1] = f[m - 1]
          BY <3>0, <4>1
        <5> QED BY <3>0, <4>1, <5>1
      <4>2. CASE i # m /\ i # 0
        <5>1. i \in 0 .. m - 1 /\ g[i] = f[i] /\ g[i - 1] = f[i - 1]
          BY <3>0, <4>2
        <5> QED BY <3>1, <4>2, <5>1
      <4>3. CASE i # m /\ i = 0
        BY <3>0, <3>1, <4>3
      <4> QED BY <4>1, <4>2, <4>3
    <3>3. g = [i \in 0 .. m |-> g[i]]
      OBVIOUS
    <3> HIDE DEF g
    <3>4. Def(g, m)
      BY <3>2, <3>3
    <3> QED BY <3>0, <3>4
  <2> HIDE DEF S
  <2>3. 0 .. n \subseteq S
    <3>1. \A i \in 0 + 1 .. n : i - 1 \in S => i \in S
      BY <2>2
    <3>2. 0 \in Nat /\ n \in Nat
      BY <1>0
    <3> QED BY <2>1, <3>1, <3>2, UpTo
  <2>4. n \in S
    BY <1>0, <2>3
  <2> HIDE DEF Def
  <2> QED BY <2>4 DEF S
<1>2. Def(loop, n)
  <2>1. \E f : f = [k \in 0 .. Len(t.regions) |-> IF k = 0 THEN [left |-> 0, right |-> Len(t.regions), found |-> 0]
                              ELSE SearchStep(t.regions, addr, f[k - 1])]
    BY <1>0, <1>1
  <2> QED BY <1>0, <2>1
<1>3. memblock_search(t, addr) = loop[Len(t.regions)].found
  BY DEF memblock_search
<1> HIDE DEF loop
<1>4. loop[0] = v /\ \A i \in 1 .. n : loop[i] = G(loop[i - 1], i)
  <2> HIDE DEF G, v
  <2> QED BY <1>0, <1>2
<1>5. SearchRun(loop, t, addr)
  BY <1>0, <1>3, <1>4 DEF SearchRun
<1> QED BY <1>5

(* __find_max_addr *)
MaxAddrRun(f, mb, limit) ==
    /\ f[0] = [limit |-> limit, max_addr |-> PHYS_ADDR_MAX]
    /\ \A i \in 1 .. Len(mb.memory.regions) : f[i] = MaxAddrStep(f[i - 1], mb.memory.regions[i])
    /\ __find_max_addr(mb, limit) = f[Len(mb.memory.regions)].max_addr

LEMMA MaxAddrLoop ==
    ASSUME NEW mb, NEW limit, Len(mb.memory.regions) \in Nat
    PROVE  \E f : MaxAddrRun(f, mb, limit)
<1>0. PICK n \in Nat : n = Len(mb.memory.regions)
  OBVIOUS
<1> DEFINE v == [limit |-> limit, max_addr |-> PHYS_ADDR_MAX]
           G(u, i) == MaxAddrStep(u, mb.memory.regions[i])
           Def(f, m) == f = [i \in 0 .. m |-> IF i = 0 THEN v ELSE G(f[i - 1], i)]
           loop == CHOOSE f : f = [i \in 0 .. Len(mb.memory.regions) |-> IF i = 0 THEN [limit |-> limit, max_addr |-> PHYS_ADDR_MAX]
                                                   ELSE MaxAddrStep(f[i - 1], mb.memory.regions[i])]
<1>1. \E f : Def(f, n)
  <2> DEFINE S == {m \in 0 .. n : \E f : Def(f, m)}
  <2> HIDE DEF G, v
  <2>1. 0 \in S
    <3> DEFINE f == [i \in 0 .. 0 |-> v]
    <3>1. Def(f, 0)
      OBVIOUS
    <3> HIDE DEF Def
    <3> QED BY <3>1
  <2>2. ASSUME NEW m \in 0 + 1 .. n, m - 1 \in S PROVE m \in S
    <3>0. m \in Nat /\ m # 0 /\ m \in 0 .. n
      BY <1>0, <2>2
    <3>1. PICK f : Def(f, m - 1)
      BY <2>2
    <3> DEFINE g == [i \in 0 .. m |-> IF i = m THEN G(f[m - 1], m) ELSE f[i]]
    <3>2. ASSUME NEW i \in 0 .. m PROVE g[i] = IF i = 0 THEN v ELSE G(g[i - 1], i)
      <4>1. CASE i = m
        <5>1. g[i - 1] = f[m - 1]
          BY <3>0, <4>1
        <5> QED BY <3>0, <4>1, <5>1
      <4>2. CASE i # m /\ i # 0
        <5>1. i \in 0 .. m - 1 /\ g[i] = f[i] /\ g[i - 1] = f[i - 1]
          BY <3>0, <4>2
        <5> QED BY <3>1, <4>2, <5>1
      <4>3. CASE i # m /\ i = 0
        BY <3>0, <3>1, <4>3
      <4> QED BY <4>1, <4>2, <4>3
    <3>3. g = [i \in 0 .. m |-> g[i]]
      OBVIOUS
    <3> HIDE DEF g
    <3>4. Def(g, m)
      BY <3>2, <3>3
    <3> QED BY <3>0, <3>4
  <2> HIDE DEF S
  <2>3. 0 .. n \subseteq S
    <3>1. \A i \in 0 + 1 .. n : i - 1 \in S => i \in S
      BY <2>2
    <3>2. 0 \in Nat /\ n \in Nat
      BY <1>0
    <3> QED BY <2>1, <3>1, <3>2, UpTo
  <2>4. n \in S
    BY <1>0, <2>3
  <2> HIDE DEF Def
  <2> QED BY <2>4 DEF S
<1>2. Def(loop, n)
  <2>1. \E f : f = [i \in 0 .. Len(mb.memory.regions) |-> IF i = 0 THEN [limit |-> limit, max_addr |-> PHYS_ADDR_MAX]
                              ELSE MaxAddrStep(f[i - 1], mb.memory.regions[i])]
    BY <1>0, <1>1
  <2> QED BY <1>0, <2>1
<1>3. __find_max_addr(mb, limit) = loop[Len(mb.memory.regions)].max_addr
  BY DEF __find_max_addr
<1> HIDE DEF loop
<1>4. loop[0] = v /\ \A i \in 1 .. n : loop[i] = G(loop[i - 1], i)
  <2> HIDE DEF G, v
  <2> QED BY <1>0, <1>2
<1>5. MaxAddrRun(loop, mb, limit)
  BY <1>0, <1>3, <1>4 DEF MaxAddrRun
<1> QED BY <1>5
(* the regions the binary search has not excluded are left + 1 .. right *)
SearchInv(x, s, addr, k) ==
    /\ x \in [left : Nat, right : Nat, found : Nat]
    /\ x.found # 0 => x.found \in 1 .. Len(s) /\ In(s[x.found], addr)
    /\ x.found = 0 =>
          /\ x.left <= x.right /\ x.right <= Len(s) /\ (x.left < x.right => x.right - x.left <= Len(s) - k)
          /\ \A j \in 1 .. Len(s) : (j <= x.left => End(s[j]) <= addr) /\ (j > x.right => addr < s[j].base)

LEMMA SearchOne ==
    ASSUME NEW s, Arr(s), NEW addr \in Int, NEW k \in 1 .. Len(s), NEW x, SearchInv(x, s, addr, k - 1)
    PROVE  SearchInv(SearchStep(s, addr, x), s, addr, k)
<1>0. s \in Seq(RegionRec)
  BY DEF Arr
<1>1. PICK n \in Nat : n = Len(s)
  BY <1>0
<1>2. x \in [left : Nat, right : Nat, found : Nat] /\ x.left \in Nat /\ x.right \in Nat /\ x.found \in Nat
  BY DEF SearchInv
<1>3. CASE x.found # 0 \/ x.left >= x.right
  <2>1. SearchStep(s, addr, x) = x
    BY <1>3 DEF SearchStep
  <2>2. SearchInv(x, s, addr, k)
    BY <1>2, <1>3 DEF SearchInv
  <2> QED BY <2>1, <2>2
<1>4. CASE x.found = 0 /\ x.left < x.right
  <2>1. /\ x.right <= n /\ x.right - x.left <= n - (k - 1)
        /\ \A j \in 1 .. n : (j <= x.left => End(s[j]) <= addr) /\ (j > x.right => addr < s[j].base)
    BY <1>1, <1>4 DEF SearchInv
  <2>2. PICK mid : mid = (x.left + x.right) \div 2
    OBVIOUS
  <2>3. mid \in Nat /\ x.left <= mid /\ mid < x.right /\ mid + 1 \in 1 .. n
    BY <1>1, <1>2, <1>4, <2>1, <2>2
  <2>4. PICK r : r = s[mid + 1]
    OBVIOUS
  <2>5. s[mid + 1] \in RegionRec
    BY <1>0, <1>1, <2>3
  <2>6. r \in RegionRec /\ r.base \in Nat /\ End(r) \in Nat /\ r.base < End(r)
    BY <2>4, <2>5, RegionFacts
  <2>7. \A j \in 1 .. n : s[j].base \in Nat /\ End(s[j]) \in Nat /\ s[j].base < End(s[j])
    <3>1. \A j \in 1 .. n : s[j] \in RegionRec
      BY <1>0, <1>1
    <3> QED BY <3>1, RegionFacts
  <2>8. ~ (x.found # 0 \/ x.left >= x.right)
    BY <1>2, <1>4
  <2>9. CASE addr < r.base
    <3>1. SearchStep(s, addr, x) = [x EXCEPT !.right = mid]
      BY <2>2, <2>4, <2>8, <2>9, Zenon DEF SearchStep
    <3>2. PICK y : y = [x EXCEPT !.right = mid]
      OBVIOUS
    <3>3. y \in [left : Nat, right : Nat, found : Nat] /\ y.left = x.left /\ y.right = mid /\ y.found = 0
      BY <1>2, <1>4, <2>3, <3>2
    <3>4. ASSUME NEW j \in 1 .. n, j > mid PROVE addr < s[j].base
      <4>1. CASE j = mid + 1
        BY <2>4, <2>9, <4>1
      <4>2. CASE j > mid + 1
        <5>1. End(s[mid + 1]) <= s[j].base
          BY <1>1, <2>3, <4>2 DEF Arr, Sorted
        <5> QED BY <2>4, <2>6, <2>7, <2>9, <5>1
      <4> QED BY <2>3, <3>4, <4>1, <4>2
    <3>5. y.right - y.left <= n - k /\ y.left <= y.right /\ y.right <= n
      BY <1>1, <1>2, <2>1, <2>3, <3>3
    <3>6. SearchInv(y, s, addr, k)
      BY <1>1, <2>1, <3>3, <3>4, <3>5 DEF SearchInv
    <3> QED BY <3>1, <3>2, <3>6
  <2>10. CASE ~ (addr < r.base) /\ addr >= End(r)
    <3>1. SearchStep(s, addr, x) = [x EXCEPT !.left = mid + 1]
      BY <2>2, <2>4, <2>8, <2>10, Zenon DEF SearchStep
    <3>2. PICK y : y = [x EXCEPT !.left = mid + 1]
      OBVIOUS
    <3>3. y \in [left : Nat, right : Nat, found : Nat] /\ y.left = mid + 1 /\ y.right = x.right /\ y.found = 0
      BY <1>2, <1>4, <2>3, <3>2
    <3>4. ASSUME NEW j \in 1 .. n, j <= mid + 1 PROVE End(s[j]) <= addr
      <4>1. CASE j = mid + 1
        BY <2>4, <2>6, <2>10, <4>1
      <4>2. CASE j < mid + 1
        <5>1. End(s[j]) <= s[mid + 1].base
          BY <1>1, <2>3, <4>2 DEF Arr, Sorted
        <5> QED BY <2>4, <2>6, <2>7, <2>10, <5>1
      <4> QED BY <2>3, <3>4, <4>1, <4>2
    <3>5. y.right - y.left <= n - k /\ y.left <= y.right /\ y.right <= n
      BY <1>1, <1>2, <2>1, <2>3, <3>3
    <3>6. SearchInv(y, s, addr, k)
      BY <1>1, <2>1, <3>3, <3>4, <3>5 DEF SearchInv
    <3> QED BY <3>1, <3>2, <3>6
  <2>11. CASE ~ (addr < r.base) /\ ~ (addr >= End(r))
    <3>1. SearchStep(s, addr, x) = [x EXCEPT !.found = mid + 1]
      BY <2>2, <2>4, <2>8, <2>11, Zenon DEF SearchStep
    <3>2. PICK y : y = [x EXCEPT !.found = mid + 1]
      OBVIOUS
    <3>3. y \in [left : Nat, right : Nat, found : Nat] /\ y.found = mid + 1 /\ y.found # 0
      BY <1>2, <2>3, <3>2
    <3>4. In(r, addr)
      BY <2>6, <2>11 DEF In
    <3>5. SearchInv(y, s, addr, k)
      BY <1>1, <2>3, <2>4, <3>3, <3>4 DEF SearchInv
    <3> QED BY <3>1, <3>2, <3>5
  <2> QED BY <2>9, <2>10, <2>11
<1> QED BY <1>2, <1>3, <1>4

(* memblock_search finds the region that holds an address, if there is one. *)
LEMMA SearchOk ==
    ASSUME NEW t, Arr(t.regions), NEW addr \in Int
    PROVE  LET i == memblock_search(t, addr)
           IN  /\ i # 0 => i \in 1 .. Len(t.regions) /\ In(t.regions[i], addr)
               /\ i = 0 => Outside(t.regions, addr)
<1>0. PICK s : s = t.regions
  OBVIOUS
<1>1. s \in Seq(RegionRec) /\ Arr(s)
  BY <1>0 DEF Arr
<1>2. PICK n \in Nat : n = Len(s)
  BY <1>1
<1>3. PICK f : SearchRun(f, t, addr)
  <2>1. Len(t.regions) \in Nat
    BY <1>0, <1>2
  <2> QED BY <2>1, SearchLoop
<1>4. /\ f[0] = [left |-> 0, right |-> n, found |-> 0]
      /\ \A k \in 1 .. n : f[k] = SearchStep(s, addr, f[k - 1])
      /\ memblock_search(t, addr) = f[n].found
  BY <1>0, <1>2, <1>3 DEF SearchRun
<1> DEFINE S == {k \in 0 .. n : SearchInv(f[k], s, addr, k)}
<1>5. 0 \in S
  <2>1. PICK x : x = f[0]
    OBVIOUS
  <2>2. x = [left |-> 0, right |-> n, found |-> 0]
    BY <1>4, <2>1
  <2>3. x \in [left : Nat, right : Nat, found : Nat] /\ x.left = 0 /\ x.right = n /\ x.found = 0
    BY <2>2
  <2>4. SearchInv(x, s, addr, 0)
    BY <1>2, <2>3 DEF SearchInv
  <2> QED BY <1>2, <2>1, <2>4
<1>6. ASSUME NEW k \in 0 + 1 .. n, k - 1 \in S PROVE k \in S
  <2>1. k \in 1 .. Len(s) /\ k \in 1 .. n /\ k \in 0 .. n
    BY <1>2, <1>6
  <2>2. SearchInv(f[k - 1], s, addr, k - 1)
    BY <1>6
  <2>3. SearchInv(f[k], s, addr, k)
    BY <1>1, <1>4, <2>1, <2>2, SearchOne
  <2> QED BY <2>1, <2>3
<1> HIDE DEF S
<1>7. n \in S
  <2>1. \A k \in 0 + 1 .. n : k - 1 \in S => k \in S
    BY <1>6
  <2>2. 0 .. n \subseteq S
    BY <1>2, <1>5, <2>1, UpTo
  <2> QED BY <1>2, <2>2
<1>8. PICK x, i : x = f[n] /\ i = x.found
  OBVIOUS
<1>9. SearchInv(x, s, addr, n)
  BY <1>7, <1>8 DEF S
<1>10. i = memblock_search(t, addr)
  BY <1>4, <1>8
<1>11. i # 0 => i \in 1 .. n /\ In(s[i], addr)
  BY <1>2, <1>8, <1>9 DEF SearchInv
<1>12. ASSUME i = 0 PROVE Outside(s, addr)
  <2>1. /\ x.left \in Nat /\ x.right \in Nat
        /\ x.left <= x.right /\ (x.left < x.right => x.right - x.left <= n - n)
        /\ \A j \in 1 .. n : (j <= x.left => End(s[j]) <= addr) /\ (j > x.right => addr < s[j].base)
    BY <1>2, <1>8, <1>9, <1>12 DEF SearchInv
  <2>2. x.left = x.right
    BY <2>1
  <2>3. \A j \in 1 .. n : s[j] \in RegionRec
    BY <1>1, <1>2
  <2>4. ASSUME NEW j \in 1 .. n PROVE ~ In(s[j], addr)
    <3>1. s[j].base \in Nat /\ End(s[j]) \in Nat
      BY <2>3, RegionFacts
    <3>2. End(s[j]) <= addr \/ addr < s[j].base
      BY <2>1, <2>2
    <3> QED BY <3>1, <3>2 DEF In
  <2> QED BY <1>2, <2>4 DEF Outside
<1> QED BY <1>0, <1>2, <1>10, <1>11, <1>12

LEMMA DummyFacts ==
    /\ Dummy.base = 0 /\ Dummy.size = 0 /\ End(Dummy) = 0 /\ Dummy.flags = {}
    /\ Dummy = [base |-> 0, size |-> 0, flags |-> {}]
    /\ Len(<<Dummy>>) = 1 /\ <<Dummy>>[1] = Dummy /\ <<Dummy>> # <<>>
    /\ \A g : \A a \in Int : ~ Has(<<Dummy>>, a, g)
    /\ \A a \in Int : Outside(<<Dummy>>, a)
    /\ \A e \in Nat : EndsBy(<<Dummy>>, e)
    /\ \A b, e \in Nat : ~ Overlaps(Dummy, b, e)
<1>1. Dummy = [base |-> 0, size |-> 0, flags |-> {}]
  BY DEF Dummy, Region
<1>2. Dummy.base = 0 /\ Dummy.size = 0 /\ End(Dummy) = 0 /\ Dummy.flags = {}
  BY <1>1 DEF End
<1>3. PICK d : d = Dummy
  OBVIOUS
<1>4. PICK s : s = <<d>>
  OBVIOUS
<1>5. Len(s) = 1 /\ s[1] = d /\ s # <<>> /\ \A i \in 1 .. 1 : i = 1
  BY <1>4
<1>6. \A a \in Int : ~ In(d, a)
  BY <1>2, <1>3 DEF In
<1>7. \A g : \A a \in Int : ~ Has(s, a, g)
  BY <1>5, <1>6 DEF Has
<1>8. \A a \in Int : Outside(s, a)
  BY <1>5, <1>6 DEF Outside
<1>9. \A e \in Nat : EndsBy(s, e)
  BY <1>2, <1>3, <1>5 DEF EndsBy
<1>10. \A b, e \in Nat : ~ Overlaps(d, b, e)
  BY <1>2, <1>3 DEF Overlaps
<1> QED BY <1>1, <1>2, <1>3, <1>4, <1>5, <1>7, <1>8, <1>9, <1>10

LEMMA SearchDummy ==
    ASSUME NEW t, t.regions = <<Dummy>>, NEW addr \in Nat
    PROVE  memblock_search(t, addr) = 0
<1>1. Len(t.regions) = 1 /\ t.regions[1] = Dummy
  BY DummyFacts
<1>2. PICK f : SearchRun(f, t, addr)
  BY <1>1, SearchLoop
<1>3. /\ f[0] = [left |-> 0, right |-> 1, found |-> 0]
      /\ f[1] = SearchStep(t.regions, addr, f[1 - 1])
      /\ memblock_search(t, addr) = f[1].found
  BY <1>1, <1>2 DEF SearchRun
<1>4. PICK x : x = f[0]
  OBVIOUS
<1>5. x = [left |-> 0, right |-> 1, found |-> 0] /\ x.left = 0 /\ x.right = 1 /\ x.found = 0
  BY <1>3, <1>4
<1>6. PICK mid : mid = (x.left + x.right) \div 2
  OBVIOUS
<1>7. mid = 0
  BY <1>5, <1>6
<1>8. ~ (x.found # 0 \/ x.left >= x.right)
  BY <1>5
<1>9. ~ (addr < t.regions[mid + 1].base) /\ addr >= End(t.regions[mid + 1])
  BY <1>1, <1>7, DummyFacts
<1>10. SearchStep(t.regions, addr, x) = [x EXCEPT !.left = mid + 1]
  BY <1>6, <1>8, <1>9, Zenon DEF SearchStep
<1>11. f[1] = [x EXCEPT !.left = mid + 1]
  BY <1>3, <1>4, <1>10
<1>12. f[1].found = 0
  BY <1>5, <1>11
<1> QED BY <1>3, <1>12

(* a region, or the dummy *)
AnyRegion == [base : Nat, size : Nat, flags : SUBSET Nat]

(* __find_max_addr stays within the address space. *)
LEMMA MaxAddrOk ==
    ASSUME NEW mb, mb.memory.regions \in Seq(AnyRegion),
           PHYS_ADDR_MAX \in Nat, EndsBy(mb.memory.regions, PHYS_ADDR_MAX), NEW limit \in Nat
    PROVE  __find_max_addr(mb, limit) \in 0 .. PHYS_ADDR_MAX
<1>0. PICK s : s = mb.memory.regions
  OBVIOUS
<1>1. s \in Seq(AnyRegion) /\ EndsBy(s, PHYS_ADDR_MAX)
  BY <1>0
<1>2. PICK n \in Nat : n = Len(s)
  BY <1>1
<1>3. PICK f : MaxAddrRun(f, mb, limit)
  BY <1>0, <1>2, MaxAddrLoop
<1>4. /\ f[0] = [limit |-> limit, max_addr |-> PHYS_ADDR_MAX]
      /\ \A i \in 1 .. n : f[i] = MaxAddrStep(f[i - 1], s[i])
      /\ __find_max_addr(mb, limit) = f[n].max_addr
  BY <1>0, <1>2, <1>3 DEF MaxAddrRun
<1> DEFINE X == [limit : Nat, max_addr : 0 .. PHYS_ADDR_MAX]
           S == {i \in 0 .. n : f[i] \in X}
<1>5. 0 \in S
  BY <1>2, <1>4
<1>6. ASSUME NEW i \in 0 + 1 .. n, i - 1 \in S PROVE i \in S
  <2>1. i \in 1 .. n /\ i \in 0 .. n
    BY <1>2, <1>6
  <2>2. PICK x, r : x = f[i - 1] /\ r = s[i]
    OBVIOUS
  <2>3. x \in X /\ x.limit \in Nat
    BY <1>6, <2>2
  <2>4. r \in AnyRegion /\ End(r) <= PHYS_ADDR_MAX
    <3>1. s[i] \in AnyRegion
      BY <1>1, <1>2, <2>1
    <3>2. End(s[i]) <= PHYS_ADDR_MAX
      BY <1>1, <1>2, <2>1 DEF EndsBy
    <3> QED BY <2>2, <3>1, <3>2
  <2>5. r.base \in Nat /\ r.size \in Nat /\ r.base + r.size <= PHYS_ADDR_MAX
    BY <2>4 DEF End, AnyRegion
  <2>6. MaxAddrStep(x, r) \in X
    <3>1. CASE x.max_addr # PHYS_ADDR_MAX
      BY <2>3, <3>1 DEF MaxAddrStep
    <3>2. CASE x.max_addr = PHYS_ADDR_MAX /\ x.limit <= r.size
      <4>1. MaxAddrStep(x, r) = [x EXCEPT !.max_addr = r.base + x.limit]
        BY <3>2 DEF MaxAddrStep
      <4>2. r.base + x.limit \in 0 .. PHYS_ADDR_MAX
        BY <2>3, <2>5, <3>2
      <4> QED BY <2>3, <4>1, <4>2
    <3>3. CASE x.max_addr = PHYS_ADDR_MAX /\ ~ (x.limit <= r.size)
      <4>1. MaxAddrStep(x, r) = [x EXCEPT !.limit = @ - r.size]
        BY <3>3 DEF MaxAddrStep
      <4>2. x.limit - r.size \in Nat
        BY <2>3, <2>5, <3>3
      <4> QED BY <2>3, <4>1, <4>2
    <3> QED BY <3>1, <3>2, <3>3
  <2>7. f[i] \in X
    BY <1>4, <2>1, <2>2, <2>6
  <2> HIDE DEF X
  <2> QED BY <2>1, <2>7
<1> HIDE DEF S
<1>7. n \in S
  <2>1. \A i \in 0 + 1 .. n : i - 1 \in S => i \in S
    BY <1>6
  <2>2. 0 .. n \subseteq S
    BY <1>2, <1>5, <2>1, UpTo
  <2> QED BY <1>2, <2>2
<1> QED BY <1>4, <1>7 DEF S

LEMMA IsolatedIn ==
    ASSUME NEW c, Arr(c), NEW base \in Nat, NEW end \in Nat, Isolated(c, base, end),
           NEW k \in 1 .. Len(c), NEW a \in Int, In(c[k], a)
    PROVE  Overlaps(c[k], base, end) <=> base <= a /\ a < end
<1>1. c \in Seq(RegionRec)
  BY DEF Arr
<1>2. c[k] \in RegionRec
  BY <1>1
<1>3. PICK r : r = c[k]
  OBVIOUS
<1>4. r.base \in Nat /\ End(r) \in Nat /\ r.base <= a /\ a < End(r)
  <2>1. r.base <= a /\ a < End(r)
    BY <1>3 DEF In
  <2> QED BY <1>2, <1>3, <2>1, RegionFacts
<1>5. Overlaps(r, base, end) <=> r.base < end /\ End(r) > base
  BY DEF Overlaps
<1>6. Overlaps(r, base, end) => base <= r.base /\ End(r) <= end
  BY <1>3 DEF Isolated
<1>7. Overlaps(r, base, end) <=> base <= a /\ a < end
  BY <1>4, <1>5, <1>6
<1> QED BY <1>3, <1>7

(* memblock_setclr_flag: the addresses of the range get new flags. *)
NewFlags(h, set, flag) == IF set THEN h \cup Bits(flag) ELSE h \ Bits(flag)

LEMMA SetFlagsOk ==
    ASSUME NEW c, Arr(c), NEW base \in Nat, NEW end \in Nat, Isolated(c, base, end), NEW set, NEW flag,
           Bits(flag) \in SUBSET Nat
    PROVE  LET s == SetFlags(c, base, end, set, flag)
           IN  /\ Arr(s) /\ Len(s) = Len(c) /\ \A e \in Int : EndsBy(c, e) => EndsBy(s, e)
               /\ \A a \in Int : (base <= a /\ a < end) =>
                     \A g : Has(s, a, g) <=> \E h : Has(c, a, h) /\ g = NewFlags(h, set, flag)
               /\ \A a \in Int : ~ (base <= a /\ a < end) => \A g : Has(s, a, g) <=> Has(c, a, g)
<1>0. c \in Seq(RegionRec)
  BY DEF Arr
<1>1. PICK n \in Nat : n = Len(c)
  BY <1>0
<1>2. \A i \in 1 .. n : c[i] \in RegionRec
  BY <1>0, <1>1
<1>3. PICK s : s = SetFlags(c, base, end, set, flag)
  OBVIOUS
<1>4. s = [i \in 1 .. n |-> IF ~ Overlaps(c[i], base, end) THEN c[i]
                             ELSE [c[i] EXCEPT !.flags = NewFlags(@, set, flag)]]
  BY <1>0, <1>1, <1>3 DEF SetFlags, NewFlags
<1>5. ASSUME NEW i \in 1 .. n
      PROVE  /\ s[i] \in RegionRec /\ s[i].base = c[i].base /\ s[i].size = c[i].size
             /\ s[i].flags = IF Overlaps(c[i], base, end) THEN NewFlags(c[i].flags, set, flag) ELSE c[i].flags
  <2>1. CASE ~ Overlaps(c[i], base, end)
    BY <1>2, <1>4, <2>1
  <2>2. CASE Overlaps(c[i], base, end)
    <3>1. PICK r, fl : r = c[i] /\ fl = NewFlags(r.flags, set, flag)
      OBVIOUS
    <3>2. r \in RegionRec /\ fl \in SUBSET Nat
      <4>1. r \in RegionRec /\ r.flags \in SUBSET Nat
        BY <1>2, <3>1 DEF RegionRec
      <4> QED BY <3>1, <4>1 DEF NewFlags
    <3>3. s[i] = [r EXCEPT !.flags = fl]
      BY <1>4, <2>2, <3>1
    <3> QED BY <2>2, <3>1, <3>2, <3>3 DEF RegionRec
  <2> QED BY <2>1, <2>2
<1>6. s \in Seq(RegionRec) /\ Len(s) = n
  <2>1. s = [i \in 1 .. n |-> s[i]]
    BY <1>4
  <2>2. s \in [1 .. n -> RegionRec]
    <3> HIDE <1>4
    <3> QED BY <1>5, <2>1
  <2> QED BY <1>1, <2>2
<1>7. \A i \in 1 .. n : End(s[i]) = End(c[i])
  BY <1>5 DEF End
<1>8. \A i \in 1 .. n : \A a : In(s[i], a) <=> In(c[i], a)
  BY <1>5, <1>7 DEF In
<1>9. Arr(s)
  <2>1. \A i, j \in 1 .. n : i < j => End(c[i]) <= c[j].base
    BY <1>1 DEF Arr, Sorted
  <2>2. \A i, j \in 1 .. n : i < j => End(s[i]) <= s[j].base
    BY <1>5, <1>7, <2>1
  <2> QED BY <1>6, <2>2 DEF Arr, Sorted
<1>10. \A e \in Int : EndsBy(c, e) => EndsBy(s, e)
  BY <1>1, <1>6, <1>7 DEF EndsBy
<1>11. ASSUME NEW a \in Int, base <= a, a < end, NEW g
       PROVE  Has(s, a, g) <=> \E h : Has(c, a, h) /\ g = NewFlags(h, set, flag)
  <2>1. \A i \in 1 .. n : In(c[i], a) => Overlaps(c[i], base, end)
    BY <1>1, <1>11, IsolatedIn
  <2>2. Has(s, a, g) <=> \E i \in 1 .. n : In(c[i], a) /\ g = NewFlags(c[i].flags, set, flag)
    BY <1>5, <1>6, <1>8, <2>1 DEF Has
  <2>3. \A h : Has(c, a, h) <=> \E i \in 1 .. n : In(c[i], a) /\ c[i].flags = h
    BY <1>1 DEF Has
  <2> QED BY <2>2, <2>3
<1>12. ASSUME NEW a \in Int, ~ (base <= a /\ a < end), NEW g
       PROVE  Has(s, a, g) <=> Has(c, a, g)
  <2>1. \A i \in 1 .. n : In(c[i], a) => ~ Overlaps(c[i], base, end)
    BY <1>1, <1>12, IsolatedIn
  <2>2. Has(s, a, g) <=> \E i \in 1 .. n : In(c[i], a) /\ g = c[i].flags
    BY <1>5, <1>6, <1>8, <2>1 DEF Has
  <2>3. Has(c, a, g) <=> \E i \in 1 .. n : In(c[i], a) /\ c[i].flags = g
    BY <1>1 DEF Has
  <2> QED BY <2>2, <2>3
<1> QED BY <1>1, <1>3, <1>6, <1>9, <1>10, <1>11, <1>12

(* Removing the regions of a range from an array that is cut at its bounds *)
LEMMA KeptWithin ==
    ASSUME NEW c, Arr(c), NEW base \in Nat, NEW end \in Nat, Isolated(c, base, end)
    PROVE  LET s == Kept(c, Within(c, base, end))
           IN  /\ Arr(s) /\ \A e \in Int : EndsBy(c, e) => EndsBy(s, e)
               /\ \A g : \A a \in Int : Has(s, a, g) <=> Has(c, a, g) /\ ~ (base <= a /\ a < end)
<1>0. c \in Seq(RegionRec)
  BY DEF Arr
<1>1. PICK gone, s : gone = Within(c, base, end) /\ s = Kept(c, gone)
  OBVIOUS
<1>2. \A i \in 1 .. Len(c) : c[i] \in gone <=> Overlaps(c[i], base, end)
  BY <1>0, <1>1 DEF Within, Range
<1>3. /\ Arr(s) /\ \A e \in Int : EndsBy(c, e) => EndsBy(s, e)
      /\ \A g : \A a \in Int : Has(s, a, g) <=>
           \E j \in 1 .. Len(c) : c[j] \notin gone /\ In(c[j], a) /\ g = c[j].flags
  BY <1>1, KeptOk
<1>4. ASSUME NEW g, NEW a \in Int PROVE Has(s, a, g) <=> Has(c, a, g) /\ ~ (base <= a /\ a < end)
  <2>1. \A i \in 1 .. Len(c) : In(c[i], a) => (Overlaps(c[i], base, end) <=> base <= a /\ a < end)
    BY IsolatedIn
  <2> QED BY <1>2, <1>3, <2>1 DEF Has
<1> QED BY <1>1, <1>3, <1>4

(* memblock_cap_memory_range: mapped regions beyond end go. *)
LEMMA KeptMapped ==
    ASSUME NEW c, Arr(c), NEW end \in Nat, Isolated(c, 0, end)
    PROVE  LET s == Kept(c, {r \in Range(c) \ Within(c, 0, end) : ~ memblock_is_nomap(r)})
           IN  /\ Arr(s) /\ \A e \in Int : EndsBy(c, e) => EndsBy(s, e)
               /\ \A g : \A a \in Nat : Has(s, a, g) <=> Has(c, a, g) /\ (a < end \/ 0 \in g)
<1>0. c \in Seq(RegionRec)
  BY DEF Arr
<1>1. PICK gone, s : /\ gone = {r \in Range(c) \ Within(c, 0, end) : ~ memblock_is_nomap(r)}
                     /\ s = Kept(c, gone)
  OBVIOUS
<1>2. \A i \in 1 .. Len(c) : c[i] \in gone <=> ~ Overlaps(c[i], 0, end) /\ 0 \notin c[i].flags
  BY <1>0, <1>1 DEF Within, Range, memblock_is_nomap
<1>3. /\ Arr(s) /\ \A e \in Int : EndsBy(c, e) => EndsBy(s, e)
      /\ \A g : \A a \in Int : Has(s, a, g) <=>
           \E j \in 1 .. Len(c) : c[j] \notin gone /\ In(c[j], a) /\ g = c[j].flags
  BY <1>1, KeptOk
<1>4. ASSUME NEW g, NEW a \in Nat PROVE Has(s, a, g) <=> Has(c, a, g) /\ (a < end \/ 0 \in g)
  <2>1. \A i \in 1 .. Len(c) : In(c[i], a) => (Overlaps(c[i], 0, end) <=> a < end)
    <3>1. \A i \in 1 .. Len(c) : In(c[i], a) => (Overlaps(c[i], 0, end) <=> 0 <= a /\ a < end)
      BY IsolatedIn
    <3> QED BY <3>1
  <2>2. Has(s, a, g) <=> \E j \in 1 .. Len(c) : c[j] \notin gone /\ In(c[j], a) /\ g = c[j].flags
    BY <1>3
  <2>3. Has(c, a, g) <=> \E j \in 1 .. Len(c) : In(c[j], a) /\ c[j].flags = g
    BY DEF Has
  <2>4. \A j \in 1 .. Len(c) : In(c[j], a) /\ c[j].flags = g => (c[j] \notin gone <=> a < end \/ 0 \in g)
    BY <1>2, <2>1
  <2> QED BY <2>2, <2>3, <2>4
<1> QED BY <1>1, <1>3, <1>4
-----------------------------------------------------------------------------
(* What the calls leave alone: growing an array, and whatever is done to the reserved
   array, changes no region of the memory array.  The doubling that a call may use is an
   operator, so the facts are stated for each of the three. *)

Dom(m) ==
    /\ {"memory", "reserved", "bug", "halted"} \subseteq DOMAIN m
    /\ {"regions", "max", "total_size", "at"} \subseteq DOMAIN m.memory
    /\ {"regions", "max", "total_size", "at"} \subseteq DOMAIN m.reserved
Keeps(m, old) == Dom(m) /\ m.memory.regions = old.memory.regions
(* g is the result of a call *)
Result(g, old) == {"m", "ok"} \subseteq DOMAIN g /\ Keeps(g.m, old)

LEMMA KeepsTrans ==
    ASSUME NEW a, NEW b, NEW c, Keeps(b, c), Keeps(a, b)
    PROVE  Keeps(a, c)
BY DEF Keeps

LEMMA DoneResult ==
    ASSUME NEW m, NEW old, Keeps(m, old)
    PROVE  Result(Done(m), old) /\ Result(Failed(m), old) /\ Done(m).m = m /\ Failed(m).m = m
           /\ Done(m).ok = TRUE /\ Failed(m).ok = FALSE
BY DEF Result, Done, Failed

LEMMA RemoveRegionKeeps ==
    ASSUME NEW m, Dom(m), NEW s, NEW gone
    PROVE  Keeps(memblock_remove_region(m, "reserved", s, gone), m)
<1>1. PICK regs, total, b : memblock_remove_region(m, "reserved", s, gone) =
        [m EXCEPT !["reserved"].regions = regs, !["reserved"].total_size = total, !.bug = b]
  BY DEF memblock_remove_region
<1>2. PICK n : n = [m EXCEPT !["reserved"].regions = regs, !["reserved"].total_size = total, !.bug = b]
  OBVIOUS
<1>3. Keeps(n, m)
  BY <1>2 DEF Keeps, Dom
<1> QED BY <1>1, <1>2, <1>3

LEMMA RemoveIsolatedKeeps ==
    ASSUME NEW g, NEW old, Result(g, old), NEW base, NEW end
    PROVE  Result(RemoveIsolated(g, "reserved", base, end), old)
<1>1. CASE ~ g.ok
  BY <1>1 DEF RemoveIsolated
<1>2. CASE g.ok
  <2>1. PICK s, gone : RemoveIsolated(g, "reserved", base, end) = Done(memblock_remove_region(g.m, "reserved", s, gone))
    BY <1>2 DEF RemoveIsolated, RemoveFrom
  <2>2. Keeps(memblock_remove_region(g.m, "reserved", s, gone), g.m)
    BY RemoveRegionKeeps DEF Result, Keeps
  <2>3. Keeps(memblock_remove_region(g.m, "reserved", s, gone), old)
    BY <2>2, KeepsTrans DEF Result
  <2> QED BY <2>1, <2>3, DoneResult
<1> QED BY <1>1, <1>2

LEMMA InsertKeeps ==
    ASSUME NEW g, NEW old, Result(g, old), NEW base, NEW size, NEW flags
    PROVE  Result(InsertPortions(g, "reserved", base, size, flags), old)
<1>1. PICK b1 : b1 = (g.m.bug \/ FlagsClash(g.m["reserved"].regions, base, base + size, flags))
  OBVIOUS
<1>2. PICK h : h = [g EXCEPT !.m.bug = b1]
  OBVIOUS
<1>3. Result(h, old)
  BY <1>2 DEF Result, Keeps, Dom
<1>4. PICK new : InsertPortions(g, "reserved", base, size, flags) = Insert(h, "reserved", new)
  BY <1>1, <1>2 DEF InsertPortions
<1>5. CASE ~ h.ok
  BY <1>3, <1>4, <1>5 DEF Insert
<1>6. CASE h.ok
  <2>1. PICK regs, total, b2 : Insert(h, "reserved", new) =
          Done([h.m EXCEPT !["reserved"].regions = regs, !["reserved"].total_size = total, !.bug = b2])
    BY <1>6 DEF Insert
  <2>2. PICK n, k : /\ k = h.m
                    /\ n = [k EXCEPT !["reserved"].regions = regs, !["reserved"].total_size = total, !.bug = b2]
    OBVIOUS
  <2>3. Keeps(n, k) /\ Keeps(k, old)
    BY <1>3, <2>2 DEF Keeps, Dom, Result
  <2>4. Keeps(n, old)
    BY <2>3, KeepsTrans
  <2>5. Result(Done(n), old)
    BY <2>4, DoneResult
  <2>6. InsertPortions(g, "reserved", base, size, flags) = Done(n)
    BY <1>4, <2>1, <2>2, Zenon
  <2> QED BY <2>5, <2>6
<1> QED BY <1>5, <1>6

LEMMA NoneKeeps ==
    ASSUME NEW m, NEW old, Keeps(m, old), NEW T \in {"memory", "reserved"}, NEW b, NEW s
    PROVE  Result(DoubleNone(m, T, b, s), old)
<1>1. PICK n : n = [m EXCEPT !.bug = TRUE]
  OBVIOUS
<1>2. Keeps(n, old)
  BY <1>1 DEF Dom, Keeps
<1> QED BY <1>1, <1>2, DoneResult DEF DoubleNone

LEMMA GrowNone ==
    ASSUME NEW m, NEW old, Keeps(m, old), NEW T \in {"memory", "reserved"}, NEW n, NEW b, NEW s
    PROVE  Result(Grow(m, T, n, b, s, DoubleNone), old)
<1> DEFINE G(g) == IF ~ g.ok \/ Len(g.m[T].regions) + n <= g.m[T].max THEN g ELSE DoubleNone(g.m, T, b, s)
<1>1. Grow(m, T, n, b, s, DoubleNone) = G(G(Done(m)))
  BY DEF Grow, GrowOnce
<1>2. ASSUME NEW g, Result(g, old) PROVE Result(G(g), old)
  <2>1. Result(DoubleNone(g.m, T, b, s), old)
    BY <1>2, NoneKeeps DEF Result
  <2> QED BY <1>2, <2>1
<1>3. Result(Done(m), old)
  BY DoneResult
<1> HIDE DEF G
<1>4. Result(G(G(Done(m))), old)
  BY <1>2, <1>3
<1> QED BY <1>1, <1>4

LEMMA RemoveNone ==
    ASSUME NEW m, NEW old, Keeps(m, old), NEW b, NEW s
    PROVE  Result(RemoveRange(m, "reserved", b, s, DoubleNone), old)
<1>1. PICK size : size = memblock_cap_size(b, s)
  OBVIOUS
<1>2. PICK g : g = Grow(m, "reserved", 2, b, size, DoubleNone)
  OBVIOUS
<1>3. Result(g, old)
  BY <1>2, GrowNone
<1>4. CASE size = 0
  <2>1. RemoveRange(m, "reserved", b, s, DoubleNone) = Done(m)
    BY <1>1, <1>4, Zenon DEF RemoveRange
  <2> QED BY <2>1, DoneResult
<1>5. CASE size # 0
  <2>1. RemoveRange(m, "reserved", b, s, DoubleNone) = RemoveIsolated(g, "reserved", b, b + size)
    BY <1>1, <1>2, <1>5, Zenon DEF RemoveRange
  <2> QED BY <1>3, <2>1, RemoveIsolatedKeeps
<1> QED BY <1>4, <1>5

LEMMA AddNone ==
    ASSUME NEW m, NEW old, Keeps(m, old), NEW b, NEW s, NEW flags
    PROVE  Result(AddRange(m, "reserved", b, s, flags, DoubleNone), old)
<1>1. PICK size, nr_new : /\ size = memblock_cap_size(b, s)
                          /\ nr_new = Len(Portions(m["reserved"].regions, b, b + size, flags)) - Len(m["reserved"].regions)
  OBVIOUS
<1>2. PICK g : g = Grow(m, "reserved", nr_new, b, size, DoubleNone)
  OBVIOUS
<1>3. Result(g, old)
  BY <1>2, GrowNone
<1>4. PICK bug : bug = (m.bug \/ Len(m["reserved"].regions) # 1 \/ m["reserved"].total_size # 0)
  OBVIOUS
<1>5. PICK n : n = [m EXCEPT !["reserved"].regions = <<Region(b, size, flags)>>,
                             !["reserved"].total_size = size, !.bug = bug]
  OBVIOUS
<1>6. Keeps(n, m)
  BY <1>5 DEF Keeps, Dom
<1>7. Keeps(n, old)
  BY <1>6, KeepsTrans
<1>8. AddRange(m, "reserved", b, s, flags, DoubleNone) \in
        {Done(m), Done(n), InsertPortions(g, "reserved", b, size, flags)}
  <2>1. AddRange(m, "reserved", b, s, flags, DoubleNone) = AddCapped(m, "reserved", b, size, flags, nr_new, DoubleNone)
    BY <1>1, Zenon DEF AddRange
  <2>2. AddCapped(m, "reserved", b, size, flags, nr_new, DoubleNone) \in
          {Done(m), Done(n), InsertPortions(g, "reserved", b, size, flags)}
    <3>1. CASE size = 0
      BY <3>1, Zenon DEF AddCapped
    <3>2. CASE size # 0 /\ m["reserved"].regions[1].size = 0
      BY <1>4, <1>5, <3>2, Zenon DEF AddCapped
    <3>3. CASE size # 0 /\ m["reserved"].regions[1].size # 0 /\ nr_new = 0
      BY <3>3, Zenon DEF AddCapped
    <3>4. CASE size # 0 /\ m["reserved"].regions[1].size # 0 /\ nr_new # 0
      BY <1>2, <3>4, Zenon DEF AddCapped
    <3> QED BY <3>1, <3>2, <3>3, <3>4
  <2> QED BY <2>1, <2>2
<1>9. Result(Done(m), old) /\ Result(Done(n), old)
  BY <1>7, DoneResult
<1>10. Result(InsertPortions(g, "reserved", b, size, flags), old)
  BY <1>3, InsertKeeps
<1> QED BY <1>8, <1>9, <1>10

LEMMA DoubleArrayNone ==
    ASSUME NEW m, NEW old, Keeps(m, old), NEW T \in {"memory", "reserved"}, NEW b, NEW s
    PROVE  Result(DoubleArray(m, T, b, s, DoubleNone), old)
<1>1. PICK addr : addr = ArrayPlace(m, T, b, s)
  OBVIOUS
<1>2. PICK max2 : max2 = 2 * m[T].max
  OBVIOUS
<1>3. PICK n : n = [m EXCEPT ![T].max = max2, ![T].at = addr]
  OBVIOUS
<1>4. Keeps(n, m)
  <2>1. CASE T = "memory"
    BY <1>3, <2>1 DEF Keeps, Dom
  <2>2. CASE T = "reserved"
    BY <1>3, <2>2 DEF Keeps, Dom
  <2> QED BY <2>1, <2>2
<1>5. Keeps(n, old)
  BY <1>4, KeepsTrans
<1>6. PICK f : f = FreeOldArray(n, m[T].at, m[T].max, DoubleNone)
  OBVIOUS
<1>7. Keeps(f, old)
  <2>1. f = IF m[T].at = 0 THEN n ELSE RemoveRange(n, "reserved", m[T].at, ArrayPages(m[T].max), DoubleNone).m
    BY <1>6 DEF FreeOldArray
  <2>2. Result(RemoveRange(n, "reserved", m[T].at, ArrayPages(m[T].max), DoubleNone), old)
    BY <1>5, RemoveNone
  <2> QED BY <1>5, <2>1, <2>2 DEF Result
<1>8. PICK x : x = AddRange(f, "reserved", addr, ArrayPages(max2), {}, DoubleNone)
  OBVIOUS
<1>9. Result(x, old)
  BY <1>7, <1>8, AddNone
<1>10. PICK h, k : h = (x.m.halted \/ ~ x.ok) /\ k = [x.m EXCEPT !.halted = h]
  OBVIOUS
<1>11. Keeps(k, old)
  BY <1>9, <1>10 DEF Keeps, Dom, Result
<1>12. n = [m EXCEPT ![T].max = 2 * @, ![T].at = addr]
  BY <1>2, <1>3 DEF Keeps, Dom
<1>13. DoubleArray(m, T, b, s, DoubleNone) =
         IF phase # "resize" THEN Failed(m) ELSE IF addr = 0 THEN Failed(m) ELSE Done(k)
  BY <1>1, <1>2, <1>6, <1>8, <1>10, <1>12 DEF DoubleArray, SwitchArray, BugOnFailure
<1> QED BY <1>11, <1>13, DoneResult

LEMMA ReservedKeeps ==
    ASSUME NEW m, NEW old, Keeps(m, old), NEW T \in {"memory", "reserved"}, NEW b, NEW s
    PROVE  Result(DoubleReserved(m, T, b, s), old)
<1>1. Result(DoubleArray(m, "reserved", b, s, DoubleNone), old)
  BY DoubleArrayNone
<1> QED BY <1>1 DEF DoubleReserved

LEMMA GrowReserved ==
    ASSUME NEW m, NEW old, Keeps(m, old), NEW T \in {"memory", "reserved"}, NEW n, NEW b, NEW s
    PROVE  Result(Grow(m, T, n, b, s, DoubleReserved), old)
<1> DEFINE G(g) == IF ~ g.ok \/ Len(g.m[T].regions) + n <= g.m[T].max THEN g ELSE DoubleReserved(g.m, T, b, s)
<1>1. Grow(m, T, n, b, s, DoubleReserved) = G(G(Done(m)))
  BY DEF Grow, GrowOnce
<1>2. ASSUME NEW g, Result(g, old) PROVE Result(G(g), old)
  <2>1. Result(DoubleReserved(g.m, T, b, s), old)
    BY <1>2, ReservedKeeps DEF Result
  <2> QED BY <1>2, <2>1
<1>3. Result(Done(m), old)
  BY DoneResult
<1> HIDE DEF G
<1>4. Result(G(G(Done(m))), old)
  BY <1>2, <1>3
<1> QED BY <1>1, <1>4

LEMMA RemoveReserved ==
    ASSUME NEW m, NEW old, Keeps(m, old), NEW b, NEW s
    PROVE  Result(RemoveRange(m, "reserved", b, s, DoubleReserved), old)
<1>1. PICK size : size = memblock_cap_size(b, s)
  OBVIOUS
<1>2. PICK g : g = Grow(m, "reserved", 2, b, size, DoubleReserved)
  OBVIOUS
<1>3. Result(g, old)
  BY <1>2, GrowReserved
<1>4. CASE size = 0
  <2>1. RemoveRange(m, "reserved", b, s, DoubleReserved) = Done(m)
    BY <1>1, <1>4, Zenon DEF RemoveRange
  <2> QED BY <2>1, DoneResult
<1>5. CASE size # 0
  <2>1. RemoveRange(m, "reserved", b, s, DoubleReserved) = RemoveIsolated(g, "reserved", b, b + size)
    BY <1>1, <1>2, <1>5, Zenon DEF RemoveRange
  <2> QED BY <1>3, <2>1, RemoveIsolatedKeeps
<1> QED BY <1>4, <1>5

LEMMA AddReserved ==
    ASSUME NEW m, NEW old, Keeps(m, old), NEW b, NEW s, NEW flags
    PROVE  Result(AddRange(m, "reserved", b, s, flags, DoubleReserved), old)
<1>1. PICK size, nr_new : /\ size = memblock_cap_size(b, s)
                          /\ nr_new = Len(Portions(m["reserved"].regions, b, b + size, flags)) - Len(m["reserved"].regions)
  OBVIOUS
<1>2. PICK g : g = Grow(m, "reserved", nr_new, b, size, DoubleReserved)
  OBVIOUS
<1>3. Result(g, old)
  BY <1>2, GrowReserved
<1>4. PICK bug : bug = (m.bug \/ Len(m["reserved"].regions) # 1 \/ m["reserved"].total_size # 0)
  OBVIOUS
<1>5. PICK n : n = [m EXCEPT !["reserved"].regions = <<Region(b, size, flags)>>,
                             !["reserved"].total_size = size, !.bug = bug]
  OBVIOUS
<1>6. Keeps(n, m)
  BY <1>5 DEF Keeps, Dom
<1>7. Keeps(n, old)
  BY <1>6, KeepsTrans
<1>8. AddRange(m, "reserved", b, s, flags, DoubleReserved) \in
        {Done(m), Done(n), InsertPortions(g, "reserved", b, size, flags)}
  <2>1. AddRange(m, "reserved", b, s, flags, DoubleReserved) = AddCapped(m, "reserved", b, size, flags, nr_new, DoubleReserved)
    BY <1>1, Zenon DEF AddRange
  <2>2. AddCapped(m, "reserved", b, size, flags, nr_new, DoubleReserved) \in
          {Done(m), Done(n), InsertPortions(g, "reserved", b, size, flags)}
    <3>1. CASE size = 0
      BY <3>1, Zenon DEF AddCapped
    <3>2. CASE size # 0 /\ m["reserved"].regions[1].size = 0
      BY <1>4, <1>5, <3>2, Zenon DEF AddCapped
    <3>3. CASE size # 0 /\ m["reserved"].regions[1].size # 0 /\ nr_new = 0
      BY <3>3, Zenon DEF AddCapped
    <3>4. CASE size # 0 /\ m["reserved"].regions[1].size # 0 /\ nr_new # 0
      BY <1>2, <3>4, Zenon DEF AddCapped
    <3> QED BY <3>1, <3>2, <3>3, <3>4
  <2> QED BY <2>1, <2>2
<1>9. Result(Done(m), old) /\ Result(Done(n), old)
  BY <1>7, DoneResult
<1>10. Result(InsertPortions(g, "reserved", b, size, flags), old)
  BY <1>3, InsertKeeps
<1> QED BY <1>8, <1>9, <1>10

LEMMA DoubleArrayReserved ==
    ASSUME NEW m, NEW old, Keeps(m, old), NEW T \in {"memory", "reserved"}, NEW b, NEW s
    PROVE  Result(DoubleArray(m, T, b, s, DoubleReserved), old)
<1>1. PICK addr : addr = ArrayPlace(m, T, b, s)
  OBVIOUS
<1>2. PICK max2 : max2 = 2 * m[T].max
  OBVIOUS
<1>3. PICK n : n = [m EXCEPT ![T].max = max2, ![T].at = addr]
  OBVIOUS
<1>4. Keeps(n, m)
  <2>1. CASE T = "memory"
    BY <1>3, <2>1 DEF Keeps, Dom
  <2>2. CASE T = "reserved"
    BY <1>3, <2>2 DEF Keeps, Dom
  <2> QED BY <2>1, <2>2
<1>5. Keeps(n, old)
  BY <1>4, KeepsTrans
<1>6. PICK f : f = FreeOldArray(n, m[T].at, m[T].max, DoubleReserved)
  OBVIOUS
<1>7. Keeps(f, old)
  <2>1. f = IF m[T].at = 0 THEN n ELSE RemoveRange(n, "reserved", m[T].at, ArrayPages(m[T].max), DoubleReserved).m
    BY <1>6 DEF FreeOldArray
  <2>2. Result(RemoveRange(n, "reserved", m[T].at, ArrayPages(m[T].max), DoubleReserved), old)
    BY <1>5, RemoveReserved
  <2> QED BY <1>5, <2>1, <2>2 DEF Result
<1>8. PICK x : x = AddRange(f, "reserved", addr, ArrayPages(max2), {}, DoubleReserved)
  OBVIOUS
<1>9. Result(x, old)
  BY <1>7, <1>8, AddReserved
<1>10. PICK h, k : h = (x.m.halted \/ ~ x.ok) /\ k = [x.m EXCEPT !.halted = h]
  OBVIOUS
<1>11. Keeps(k, old)
  BY <1>9, <1>10 DEF Keeps, Dom, Result
<1>12. n = [m EXCEPT ![T].max = 2 * @, ![T].at = addr]
  BY <1>2, <1>3 DEF Keeps, Dom
<1>13. DoubleArray(m, T, b, s, DoubleReserved) =
         IF phase # "resize" THEN Failed(m) ELSE IF addr = 0 THEN Failed(m) ELSE Done(k)
  BY <1>1, <1>2, <1>6, <1>8, <1>10, <1>12 DEF DoubleArray, SwitchArray, BugOnFailure
<1> QED BY <1>11, <1>13, DoneResult

LEMMA AnyKeeps ==
    ASSUME NEW m, NEW old, Keeps(m, old), NEW T \in {"memory", "reserved"}, NEW b, NEW s
    PROVE  Result(memblock_double_array(m, T, b, s), old)
<1>1. CASE T = "reserved"
  BY <1>1, ReservedKeeps DEF memblock_double_array
<1>2. CASE T = "memory"
  <2>1. Result(DoubleArray(m, T, b, s, DoubleReserved), old)
    BY DoubleArrayReserved
  <2> QED BY <1>2, <2>1 DEF memblock_double_array
<1> QED BY <1>1, <1>2

LEMMA GrowAny ==
    ASSUME NEW m, NEW old, Keeps(m, old), NEW T \in {"memory", "reserved"}, NEW n, NEW b, NEW s
    PROVE  Result(Grow(m, T, n, b, s, memblock_double_array), old)
<1> DEFINE G(g) == IF ~ g.ok \/ Len(g.m[T].regions) + n <= g.m[T].max THEN g ELSE memblock_double_array(g.m, T, b, s)
<1>1. Grow(m, T, n, b, s, memblock_double_array) = G(G(Done(m)))
  BY DEF Grow, GrowOnce
<1>2. ASSUME NEW g, Result(g, old) PROVE Result(G(g), old)
  <2>1. Result(memblock_double_array(g.m, T, b, s), old)
    BY <1>2, AnyKeeps DEF Result
  <2> QED BY <1>2, <2>1
<1>3. Result(Done(m), old)
  BY DoneResult
<1> HIDE DEF G
<1>4. Result(G(G(Done(m))), old)
  BY <1>2, <1>3
<1> QED BY <1>1, <1>4

LEMMA RemoveAny ==
    ASSUME NEW m, NEW old, Keeps(m, old), NEW b, NEW s
    PROVE  Result(RemoveRange(m, "reserved", b, s, memblock_double_array), old)
<1>1. PICK size : size = memblock_cap_size(b, s)
  OBVIOUS
<1>2. PICK g : g = Grow(m, "reserved", 2, b, size, memblock_double_array)
  OBVIOUS
<1>3. Result(g, old)
  BY <1>2, GrowAny
<1>4. CASE size = 0
  <2>1. RemoveRange(m, "reserved", b, s, memblock_double_array) = Done(m)
    BY <1>1, <1>4, Zenon DEF RemoveRange
  <2> QED BY <2>1, DoneResult
<1>5. CASE size # 0
  <2>1. RemoveRange(m, "reserved", b, s, memblock_double_array) = RemoveIsolated(g, "reserved", b, b + size)
    BY <1>1, <1>2, <1>5, Zenon DEF RemoveRange
  <2> QED BY <1>3, <2>1, RemoveIsolatedKeeps
<1> QED BY <1>4, <1>5

LEMMA AddAny ==
    ASSUME NEW m, NEW old, Keeps(m, old), NEW b, NEW s, NEW flags
    PROVE  Result(AddRange(m, "reserved", b, s, flags, memblock_double_array), old)
<1>1. PICK size, nr_new : /\ size = memblock_cap_size(b, s)
                          /\ nr_new = Len(Portions(m["reserved"].regions, b, b + size, flags)) - Len(m["reserved"].regions)
  OBVIOUS
<1>2. PICK g : g = Grow(m, "reserved", nr_new, b, size, memblock_double_array)
  OBVIOUS
<1>3. Result(g, old)
  BY <1>2, GrowAny
<1>4. PICK bug : bug = (m.bug \/ Len(m["reserved"].regions) # 1 \/ m["reserved"].total_size # 0)
  OBVIOUS
<1>5. PICK n : n = [m EXCEPT !["reserved"].regions = <<Region(b, size, flags)>>,
                             !["reserved"].total_size = size, !.bug = bug]
  OBVIOUS
<1>6. Keeps(n, m)
  BY <1>5 DEF Keeps, Dom
<1>7. Keeps(n, old)
  BY <1>6, KeepsTrans
<1>8. AddRange(m, "reserved", b, s, flags, memblock_double_array) \in
        {Done(m), Done(n), InsertPortions(g, "reserved", b, size, flags)}
  <2>1. AddRange(m, "reserved", b, s, flags, memblock_double_array) = AddCapped(m, "reserved", b, size, flags, nr_new, memblock_double_array)
    BY <1>1, Zenon DEF AddRange
  <2>2. AddCapped(m, "reserved", b, size, flags, nr_new, memblock_double_array) \in
          {Done(m), Done(n), InsertPortions(g, "reserved", b, size, flags)}
    <3>1. CASE size = 0
      BY <3>1, Zenon DEF AddCapped
    <3>2. CASE size # 0 /\ m["reserved"].regions[1].size = 0
      BY <1>4, <1>5, <3>2, Zenon DEF AddCapped
    <3>3. CASE size # 0 /\ m["reserved"].regions[1].size # 0 /\ nr_new = 0
      BY <3>3, Zenon DEF AddCapped
    <3>4. CASE size # 0 /\ m["reserved"].regions[1].size # 0 /\ nr_new # 0
      BY <1>2, <3>4, Zenon DEF AddCapped
    <3> QED BY <3>1, <3>2, <3>3, <3>4
  <2> QED BY <2>1, <2>2
<1>9. Result(Done(m), old) /\ Result(Done(n), old)
  BY <1>7, DoneResult
<1>10. Result(InsertPortions(g, "reserved", b, size, flags), old)
  BY <1>3, InsertKeeps
<1> QED BY <1>8, <1>9, <1>10
-----------------------------------------------------------------------------
(* The memory array, which is never left without its dummy entry *)

MemArr(s) == (s = <<Dummy>> \/ (Arr(s) /\ Len(s) > 0)) /\ EndsBy(s, PHYS_ADDR_MAX)

LEMMA MemArrFacts ==
    ASSUME NEW s, MemArr(s)
    PROVE  /\ s \in Seq(AnyRegion) /\ Len(s) \in Nat /\ Len(s) > 0
           /\ s[1].size = 0 <=> s = <<Dummy>>
<1>1. CASE s = <<Dummy>>
  <2>1. Dummy \in AnyRegion
    BY DummyFacts DEF AnyRegion
  <2> QED BY <1>1, <2>1, DummyFacts
<1>2. CASE Arr(s) /\ Len(s) > 0
  <2>1. s \in Seq(RegionRec)
    BY <1>2 DEF Arr
  <2>2. Len(s) \in Nat /\ 1 \in 1 .. Len(s) /\ \A i \in 1 .. Len(s) : s[i] \in RegionRec
    BY <1>2, <2>1
  <2>3. \A i \in 1 .. Len(s) : s[i] \in AnyRegion
    BY <2>2 DEF RegionRec, AnyRegion
  <2>4. s \in Seq(AnyRegion)
    BY <2>1, <2>2, <2>3
  <2>5. s[1].size # 0
    BY <2>2, RegionFacts
  <2>6. s # <<Dummy>>
    BY <2>5, DummyFacts
  <2> QED BY <1>2, <2>2, <2>4, <2>5, <2>6
<1> QED BY <1>1, <1>2 DEF MemArr

LEMMA DummyOps ==
    /\ \A b, e \in Nat : Isolate(<<Dummy>>, b, e) = <<Dummy>>
    /\ \A gone : Kept(<<Dummy>>, gone) \in {<<>>, <<Dummy>>}
    /\ \A b, e \in Nat : \A set, flag : SetFlags(<<Dummy>>, b, e, set, flag) = <<Dummy>>
    /\ memblock_merge_regions(<<Dummy>>) = <<Dummy>>
<1>0. PICK s : s = <<Dummy>>
  OBVIOUS
<1>1. Len(s) = 1 /\ s[1] = Dummy /\ Len(s) \in Nat /\ 1 \in 1 .. 1 /\ \A i \in 1 .. 1 : i = 1
  BY <1>0, DummyFacts
<1>2. ASSUME NEW b \in Nat, NEW e \in Nat PROVE Isolate(s, b, e) = s
  <2>1. PICK f : IsolateRun(f, s, b, e)
    BY <1>1, IsolateLoop
  <2>2. f[0] = <<>> /\ f[1] = f[1 - 1] \o Cut(s[1], b, e) /\ Isolate(s, b, e) = f[1]
    BY <1>1, <2>1 DEF IsolateRun
  <2>3. Cut(Dummy, b, e) = <<Dummy>>
    BY DummyFacts DEF Cut
  <2>5. f[1 - 1] = <<>>
    BY <2>2
  <2>4. Isolate(s, b, e) = <<>> \o <<Dummy>>
    BY <1>1, <2>2, <2>3, <2>5, Zenon
  <2> QED BY <1>0, <2>4
<1>3. ASSUME NEW gone PROVE Kept(s, gone) \in {<<>>, s}
  <2>1. PICK f : /\ f[0] = <<>>
                 /\ \A i \in 1 .. Len(s) : f[i] = (IF s[i] \in gone THEN f[i - 1] ELSE Append(f[i - 1], s[i]))
                 /\ Kept(s, gone) = f[Len(s)]
    BY <1>1, KeptLoop, Zenon
  <2>2. Kept(s, gone) = (IF Dummy \in gone THEN f[1 - 1] ELSE Append(f[1 - 1], Dummy))
    BY <1>1, <2>1, Zenon
  <2>3. 1 - 1 = 0
    OBVIOUS
  <2>4. Append(<<>>, Dummy) = <<Dummy>>
    OBVIOUS
  <2>5. CASE Dummy \in gone
    BY <2>1, <2>2, <2>3, <2>5
  <2>6. CASE Dummy \notin gone
    BY <1>0, <2>1, <2>2, <2>3, <2>4, <2>6
  <2> QED BY <2>5, <2>6
<1>4. ASSUME NEW b \in Nat, NEW e \in Nat, NEW set, NEW flag PROVE SetFlags(s, b, e, set, flag) = s
  <2>1. DOMAIN s = 1 .. 1
    BY <1>0
  <2>2. \A i \in 1 .. 1 : ~ Overlaps(s[i], b, e)
    BY <1>1, DummyFacts
  <2>3. SetFlags(s, b, e, set, flag) = [i \in 1 .. 1 |-> s[i]]
    BY <2>1, <2>2 DEF SetFlags
  <2>4. s = [i \in 1 .. 1 |-> s[i]]
    BY <1>0
  <2> QED BY <2>3, <2>4
<1>5. memblock_merge_regions(s) = s
  <2>1. PICK f : /\ f[0] = <<>>
                 /\ \A i \in 1 .. Len(s) : f[i] = MergeStep(f[i - 1], s[i])
                 /\ memblock_merge_regions(s) = f[Len(s)]
    BY <1>1, MergeLoop
  <2>2. memblock_merge_regions(s) = MergeStep(<<>>, Dummy)
    BY <1>1, <2>1
  <2>3. MergeStep(<<>>, Dummy) = Append(<<>>, Dummy)
    BY DEF MergeStep
  <2> QED BY <1>0, <2>2, <2>3
<1> QED BY <1>0, <1>2, <1>3, <1>4, <1>5

(* the entry that is left when all regions are gone *)
OrDummy(k) == IF k = <<>> THEN <<Dummy>> ELSE k

LEMMA OrDummyOk ==
    ASSUME PHYS_ADDR_MAX \in Nat, NEW k, Arr(k), EndsBy(k, PHYS_ADDR_MAX)
    PROVE  MemArr(OrDummy(k)) /\ \A g : \A a \in Int : Has(OrDummy(k), a, g) <=> Has(k, a, g)
<1>1. CASE k = <<>>
  BY <1>1, DummyFacts, EmptyArr DEF OrDummy, MemArr
<1>2. CASE k # <<>>
  <2>1. k \in Seq(RegionRec)
    BY DEF Arr
  <2>2. Len(k) > 0
    BY <1>2, <2>1
  <2> QED BY <1>2, <2>2 DEF OrDummy, MemArr
<1> QED BY <1>1, <1>2

(* memblock_remove_range on memory: r is s without the addresses base .. end - 1. *)
RemovedFrom(r, s, base, end) ==
    MemArr(r) /\ \A g : \A a \in Int : Has(r, a, g) <=> Has(s, a, g) /\ ~ (base <= a /\ a < end)

LEMMA RemoveArr ==
    ASSUME PHYS_ADDR_MAX \in Nat, NEW s, MemArr(s), NEW base \in Nat, NEW end \in Nat, base <= end,
           NEW c, c = Isolate(s, base, end), NEW r, r = OrDummy(Kept(c, Within(c, base, end)))
    PROVE  RemovedFrom(r, s, base, end)
<1>1. CASE s = <<Dummy>>
  <2>1. c = <<Dummy>>
    BY <1>1, DummyOps
  <2>2. r = <<Dummy>>
    BY <2>1, DummyOps DEF OrDummy
  <2> QED BY <1>1, <2>2, DummyFacts DEF RemovedFrom
<1>2. CASE Arr(s) /\ Len(s) > 0
  <2>1. Arr(c) /\ Isolated(c, base, end) /\ EndsBy(c, PHYS_ADDR_MAX)
    BY <1>2, IsolateOk DEF MemArr
  <2>2. \A g : \A a \in Int : Has(c, a, g) <=> Has(s, a, g)
    BY <1>2, IsolateOk
  <2>3. PICK k : k = Kept(c, Within(c, base, end))
    OBVIOUS
  <2>4. /\ Arr(k) /\ \A e \in Int : EndsBy(c, e) => EndsBy(k, e)
        /\ \A g : \A a \in Int : Has(k, a, g) <=> Has(c, a, g) /\ ~ (base <= a /\ a < end)
    BY <2>1, <2>3, KeptWithin
  <2>5. EndsBy(k, PHYS_ADDR_MAX)
    BY <2>1, <2>4
  <2>6. MemArr(r) /\ \A g : \A a \in Int : Has(r, a, g) <=> Has(k, a, g)
    BY <2>3, <2>4, <2>5, OrDummyOk
  <2> QED BY <2>2, <2>4, <2>6 DEF RemovedFrom
<1> QED BY <1>1, <1>2 DEF MemArr

(* memblock_cap_memory_range *)
LEMMA CapArr ==
    ASSUME PHYS_ADDR_MAX \in Nat, NEW s, MemArr(s), NEW end \in Nat, NEW c, c = Isolate(s, 0, end),
           NEW r, r = OrDummy(Kept(c, {x \in Range(c) \ Within(c, 0, end) : ~ memblock_is_nomap(x)}))
    PROVE  MemArr(r) /\ \A g : \A a \in Nat : Has(r, a, g) <=> Has(s, a, g) /\ (a < end \/ 0 \in g)
<1>1. CASE s = <<Dummy>>
  <2>1. c = <<Dummy>>
    BY <1>1, DummyOps
  <2>2. r = <<Dummy>>
    BY <2>1, DummyOps DEF OrDummy
  <2> QED BY <1>1, <2>2, DummyFacts
<1>2. CASE Arr(s) /\ Len(s) > 0
  <2>1. Arr(c) /\ Isolated(c, 0, end) /\ EndsBy(c, PHYS_ADDR_MAX)
    BY <1>2, IsolateOk DEF MemArr
  <2>2. \A g : \A a \in Int : Has(c, a, g) <=> Has(s, a, g)
    BY <1>2, IsolateOk
  <2>3. PICK k : k = Kept(c, {x \in Range(c) \ Within(c, 0, end) : ~ memblock_is_nomap(x)})
    OBVIOUS
  <2>4. /\ Arr(k) /\ \A e \in Int : EndsBy(c, e) => EndsBy(k, e)
        /\ \A g : \A a \in Nat : Has(k, a, g) <=> Has(c, a, g) /\ (a < end \/ 0 \in g)
    BY <2>1, <2>3, KeptMapped
  <2>5. EndsBy(k, PHYS_ADDR_MAX)
    BY <2>1, <2>4
  <2>6. MemArr(r) /\ \A g : \A a \in Int : Has(r, a, g) <=> Has(k, a, g)
    BY <2>3, <2>4, <2>5, OrDummyOk
  <2>7. \A g : \A a \in Nat : Has(r, a, g) <=> Has(c, a, g) /\ (a < end \/ 0 \in g)
    BY <2>4, <2>6
  <2> QED BY <2>2, <2>6, <2>7
<1> QED BY <1>1, <1>2 DEF MemArr

(* memblock_setclr_flag *)
LEMMA FlagArr ==
    ASSUME PHYS_ADDR_MAX \in Nat, NEW s, MemArr(s), NEW base \in Nat, NEW end \in Nat, base <= end,
           NEW set, NEW flag, Bits(flag) \in SUBSET Nat,
           NEW r, r = memblock_merge_regions(SetFlags(Isolate(s, base, end), base, end, set, flag))
    PROVE  /\ MemArr(r)
           /\ \A a \in Int : (base <= a /\ a < end) =>
                 \A g : Has(r, a, g) <=> \E h : Has(s, a, h) /\ g = NewFlags(h, set, flag)
           /\ \A a \in Int : ~ (base <= a /\ a < end) => \A g : Has(r, a, g) <=> Has(s, a, g)
<1>1. CASE s = <<Dummy>>
  <2>1. r = <<Dummy>>
    BY <1>1, DummyOps
  <2> QED BY <1>1, <2>1, DummyFacts
<1>2. CASE Arr(s) /\ Len(s) > 0
  <2>0. PICK c : c = Isolate(s, base, end)
    OBVIOUS
  <2>1. Arr(c) /\ Isolated(c, base, end) /\ EndsBy(c, PHYS_ADDR_MAX) /\ Len(c) > 0
    BY <1>2, <2>0, IsolateOk DEF MemArr
  <2>2. \A g : \A a \in Int : Has(c, a, g) <=> Has(s, a, g)
    BY <1>2, <2>0, IsolateOk
  <2>3. PICK k : k = SetFlags(c, base, end, set, flag)
    OBVIOUS
  <2>4. /\ Arr(k) /\ Len(k) = Len(c) /\ \A e \in Int : EndsBy(c, e) => EndsBy(k, e)
        /\ \A a \in Int : (base <= a /\ a < end) =>
              \A g : Has(k, a, g) <=> \E h : Has(c, a, h) /\ g = NewFlags(h, set, flag)
        /\ \A a \in Int : ~ (base <= a /\ a < end) => \A g : Has(k, a, g) <=> Has(c, a, g)
    BY <2>1, <2>3, SetFlagsOk
  <2>5. EndsBy(k, PHYS_ADDR_MAX) /\ Len(k) > 0
    BY <2>1, <2>4
  <2>6. r = memblock_merge_regions(k)
    BY <2>0, <2>3
  <2>7. /\ Arr(r) /\ Len(r) > 0 /\ EndsBy(r, PHYS_ADDR_MAX)
        /\ \A g : \A a \in Int : Has(r, a, g) <=> Has(k, a, g)
    BY <2>4, <2>5, <2>6, Merge
  <2>8. MemArr(r)
    BY <2>7 DEF MemArr
  <2>9. ASSUME NEW a \in Int, base <= a, a < end, NEW g
        PROVE  Has(r, a, g) <=> \E h : Has(s, a, h) /\ g = NewFlags(h, set, flag)
    BY <2>2, <2>4, <2>7, <2>9
  <2>10. ASSUME NEW a \in Int, ~ (base <= a /\ a < end), NEW g PROVE Has(r, a, g) <=> Has(s, a, g)
    BY <2>2, <2>4, <2>7, <2>10
  <2> QED BY <2>8, <2>9, <2>10
<1> QED BY <1>1, <1>2 DEF MemArr

(* memblock_add_range on memory, if there is a region already: r is s and those of the
   addresses base .. end - 1 that were in no region. *)
AddedTo(r, s, base, end, flags) ==
    /\ MemArr(r)
    /\ \A g : \A a \in Int : Has(r, a, g) <=>
          Has(s, a, g) \/ (base <= a /\ a < end /\ g = flags /\ Outside(s, a))
Covered(s, base, end) == \A a \in Int : base <= a /\ a < end => ~ Outside(s, a)

LEMMA AddArr ==
    ASSUME PHYS_ADDR_MAX \in Nat, NEW s, MemArr(s), s # <<Dummy>>, NEW base \in Nat, NEW end \in Nat,
           base < end, end <= PHYS_ADDR_MAX, NEW flags \in SUBSET Nat, NEW p, p = Portions(s, base, end, flags)
    PROVE  /\ AddedTo(memblock_merge_regions(p), s, base, end, flags)
           /\ Len(p) = Len(s) => Covered(s, base, end)
<1>1. Arr(s) /\ Len(s) > 0 /\ EndsBy(s, PHYS_ADDR_MAX)
  BY DEF MemArr
<1>2. /\ Arr(p) /\ Len(p) > 0
      /\ \A g : \A a \in Int : Has(p, a, g) <=>
            Has(s, a, g) \/ (base <= a /\ a < end /\ g = flags /\ Outside(s, a))
      /\ \A e \in Int : EndsBy(s, e) /\ end <= e => EndsBy(p, e)
      /\ Len(p) = Len(s) => \A a \in Int : base <= a /\ a < end => ~ Outside(s, a)
  BY <1>1, PortionsOk
<1>3. EndsBy(p, PHYS_ADDR_MAX)
  BY <1>1, <1>2
<1>4. PICK r : r = memblock_merge_regions(p)
  OBVIOUS
<1>5. /\ Arr(r) /\ Len(r) > 0 /\ EndsBy(r, PHYS_ADDR_MAX)
      /\ \A g : \A a \in Int : Has(r, a, g) <=> Has(p, a, g)
  BY <1>2, <1>3, <1>4, Merge
<1>6. MemArr(r)
  BY <1>5 DEF MemArr
<1>7. \A g : \A a \in Int : Has(r, a, g) <=>
            Has(s, a, g) \/ (base <= a /\ a < end /\ g = flags /\ Outside(s, a))
  BY <1>2, <1>5
<1> QED BY <1>2, <1>4, <1>6, <1>7 DEF AddedTo, Covered
-----------------------------------------------------------------------------
(* The calls on memory.  One that fails changes no region. *)

LEMMA CapSize ==
    ASSUME PHYS_ADDR_MAX \in Nat, NEW base \in 0 .. PHYS_ADDR_MAX, NEW size0 \in Nat
    PROVE  /\ memblock_cap_size(base, size0) \in Nat /\ base + memblock_cap_size(base, size0) <= PHYS_ADDR_MAX
           /\ memblock_cap_size(base, size0) = IF size0 <= PHYS_ADDR_MAX - base THEN size0 ELSE PHYS_ADDR_MAX - base
<1>1. PHYS_ADDR_MAX - base \in Nat
  OBVIOUS
<1>2. memblock_cap_size(base, size0) = IF size0 <= PHYS_ADDR_MAX - base THEN size0 ELSE PHYS_ADDR_MAX - base
  BY <1>1, MinTwo DEF memblock_cap_size
<1> QED BY <1>1, <1>2

AddOutcome(x, s, base, size) ==
    /\ Dom(x.m) /\ (~ x.ok => x.m.memory.regions = s)
    /\ x.ok => /\ MemArr(x.m.memory.regions)
               /\ \A g : \A a \in Nat : Has(x.m.memory.regions, a, g) <=>
                     Has(s, a, g) \/ (base <= a /\ a < base + size /\ g = {} /\ Outside(s, a))

LEMMA AddMemory ==
    ASSUME PHYS_ADDR_MAX \in Nat, NEW m, Dom(m), NEW s, s = m.memory.regions, MemArr(s),
           NEW base \in 0 .. PHYS_ADDR_MAX, NEW size0 \in Nat, NEW size, size = memblock_cap_size(base, size0),
           NEW x, x = memblock_add_range(m, "memory", base, size0)
    PROVE  AddOutcome(x, s, base, size)
<1>1. size \in Nat /\ base + size <= PHYS_ADDR_MAX /\ base \in Nat /\ base + size \in Nat
  <2>1. size \in Nat /\ base + size <= PHYS_ADDR_MAX
    BY CapSize
  <2> QED BY <2>1
<1>2. PICK p, nr_new : p = Portions(s, base, base + size, {}) /\ nr_new = Len(p) - Len(s)
  OBVIOUS
<1>3. m["memory"].regions = s
  OBVIOUS
<1>4. x = AddCapped(m, "memory", base, size, {}, nr_new, memblock_double_array)
  BY <1>2, <1>3, Zenon DEF memblock_add_range, AddRange
<1>5. Done(m).m = m /\ Done(m).ok = TRUE
  BY DEF Done
<1>6. CASE size = 0
  <2>1. x = Done(m)
    BY <1>4, <1>6, Zenon DEF AddCapped
  <2>2. \A a \in Nat : ~ (base <= a /\ a < base + size)
    BY <1>1, <1>6
  <2> QED BY <1>5, <2>1, <2>2 DEF AddOutcome
<1>7. CASE size # 0 /\ s[1].size = 0
  <2>1. PICK b : b = (m.bug \/ Len(m["memory"].regions) # 1 \/ m["memory"].total_size # 0)
    OBVIOUS
  <2>2. PICK r : r = Region(base, size, {})
    OBVIOUS
  <2>3. PICK n : n = [m EXCEPT !["memory"].regions = <<r>>, !["memory"].total_size = size, !.bug = b]
    OBVIOUS
  <2>4. x = Done(n)
    BY <1>3, <1>4, <1>7, <2>1, <2>2, <2>3, Zenon DEF AddCapped
  <2>5. x.m = n /\ x.ok = TRUE
    BY <2>4 DEF Done
  <2>6. Dom(n) /\ n.memory.regions = <<r>>
    BY <2>3 DEF Dom
  <2>7. r \in RegionRec /\ r.base = base /\ End(r) = base + size /\ r.flags = {}
    BY <1>1, <1>7, <2>2 DEF Region, RegionRec, End
  <2>8. MemArr(<<r>>)
    <3>1. Arr(<<r>>) /\ EndsBy(<<r>>, PHYS_ADDR_MAX) /\ Len(<<r>>) = 1
      BY <1>1, <2>7, OneArr
    <3> QED BY <3>1 DEF MemArr
  <2>9. s = <<Dummy>>
    BY <1>7, MemArrFacts
  <2>10. ASSUME NEW g, NEW a \in Nat
         PROVE  Has(<<r>>, a, g) <=> Has(s, a, g) \/ (base <= a /\ a < base + size /\ g = {} /\ Outside(s, a))
    <3>1. Has(<<r>>, a, g) <=> base <= a /\ a < base + size /\ g = {}
      BY <2>7, OneArr DEF In
    <3>2. ~ Has(s, a, g) /\ Outside(s, a)
      BY <2>9, DummyFacts
    <3> QED BY <3>1, <3>2
  <2> QED BY <2>5, <2>6, <2>8, <2>10 DEF AddOutcome
<1>8. CASE size # 0 /\ s[1].size # 0
  <2>1. s # <<Dummy>>
    BY <1>8, MemArrFacts
  <2>2. base < base + size
    BY <1>1, <1>8
  <2>3. PICK r : r = memblock_merge_regions(p)
    OBVIOUS
  <2>4. {} \in SUBSET Nat
    OBVIOUS
  <2>5. /\ MemArr(r)
        /\ \A g : \A a \in Int : Has(r, a, g) <=>
              Has(s, a, g) \/ (base <= a /\ a < base + size /\ g = {} /\ Outside(s, a))
        /\ Len(p) = Len(s) => \A a \in Int : base <= a /\ a < base + size => ~ Outside(s, a)
    <3>1. PICK e \in Nat : e = base + size
      BY <1>1
    <3>2. base < e /\ e <= PHYS_ADDR_MAX /\ p = Portions(s, base, e, {})
      BY <1>1, <1>2, <2>2, <3>1
    <3>3. AddedTo(r, s, base, e, {}) /\ (Len(p) = Len(s) => Covered(s, base, e))
      BY <1>1, <2>1, <2>3, <2>4, <3>2, AddArr
    <3> QED BY <3>1, <3>3 DEF AddedTo, Covered
  <2>6. CASE nr_new = 0
    <3>1. x = Done(m)
      BY <1>3, <1>4, <1>8, <2>6, Zenon DEF AddCapped
    <3>2. Len(p) = Len(s)
      <4>1. Len(s) \in Nat
        BY MemArrFacts
      <4>2. Len(p) \in Nat
        <5>1. Arr(s)
          BY <2>1 DEF MemArr
        <5>2. Arr(p)
          BY <1>1, <1>2, <2>2, <2>4, <5>1, PortionsOk
        <5> QED BY <5>2 DEF Arr
      <4> QED BY <1>2, <2>6, <4>1, <4>2
    <3>3. \A a \in Nat : base <= a /\ a < base + size => ~ Outside(s, a)
      BY <2>5, <3>2
    <3> QED BY <1>5, <3>1, <3>3 DEF AddOutcome
  <2>7. CASE nr_new # 0
    <3>1. PICK g : g = Grow(m, "memory", nr_new, base, size, memblock_double_array)
      OBVIOUS
    <3>2. Result(g, m)
      <4>1. Keeps(m, m)
        BY DEF Keeps
      <4> QED BY <3>1, <4>1, GrowAny
    <3>3. x = InsertPortions(g, "memory", base, size, {})
      BY <1>3, <1>4, <1>8, <2>7, <3>1, Zenon DEF AddCapped
    <3>4. g.m["memory"].regions = s
      BY <3>2 DEF Result, Keeps
    <3>5. PICK b1 : b1 = (g.m.bug \/ FlagsClash(g.m["memory"].regions, base, base + size, {}))
      OBVIOUS
    <3>6. PICK h : h = [g EXCEPT !.m.bug = b1]
      OBVIOUS
    <3>7. Dom(h.m) /\ h.m.memory.regions = s
      BY <3>2, <3>4, <3>6 DEF Result, Keeps, Dom
    <3>8. x = Insert(h, "memory", p)
      BY <1>2, <3>3, <3>4, <3>5, <3>6 DEF InsertPortions
    <3>9. CASE ~ h.ok
      <4>1. x = h
        BY <3>8, <3>9 DEF Insert
      <4> QED BY <3>7, <3>9, <4>1 DEF AddOutcome
    <3>10. CASE h.ok
      <4>1. PICK total, b2 : x = Done([h.m EXCEPT !["memory"].regions = r, !["memory"].total_size = total, !.bug = b2])
        BY <2>3, <3>8, <3>10 DEF Insert
      <4>2. PICK k, n : k = h.m /\ n = [k EXCEPT !["memory"].regions = r, !["memory"].total_size = total, !.bug = b2]
        OBVIOUS
      <4>a. x = Done(n)
        BY <4>1, <4>2, Zenon
      <4>3. x.m = n /\ x.ok = TRUE
        BY <4>a DEF Done
      <4>4. Dom(n) /\ n.memory.regions = r
        BY <3>7, <4>2 DEF Dom
      <4> QED BY <2>5, <4>3, <4>4 DEF AddOutcome
    <3> QED BY <3>9, <3>10
  <2> QED BY <2>6, <2>7
<1> QED BY <1>6, <1>7, <1>8

LEMMA RemovedRegions ==
    ASSUME NEW m, Dom(m), NEW c, NEW gone
    PROVE  /\ Dom(memblock_remove_region(m, "memory", c, gone))
           /\ memblock_remove_region(m, "memory", c, gone).memory.regions = OrDummy(Kept(c, gone))
<1>1. PICK regs, total, b :
        /\ regs = OrDummy(Kept(c, gone))
        /\ memblock_remove_region(m, "memory", c, gone) =
             [m EXCEPT !["memory"].regions = regs, !["memory"].total_size = total, !.bug = b]
  BY DEF memblock_remove_region, OrDummy
<1>2. PICK n : n = [m EXCEPT !["memory"].regions = regs, !["memory"].total_size = total, !.bug = b]
  OBVIOUS
<1>3. Dom(n) /\ n.memory.regions = regs
  BY <1>2 DEF Dom
<1>4. memblock_remove_region(m, "memory", c, gone) = n
  BY <1>1, <1>2, Zenon
<1> QED BY <1>1, <1>3, <1>4

RemoveOutcome(x, s, base, size) ==
    /\ Dom(x.m) /\ (~ x.ok => x.m.memory.regions = s)
    /\ x.ok => /\ MemArr(x.m.memory.regions)
               /\ \A g : \A a \in Nat : Has(x.m.memory.regions, a, g) <=>
                     Has(s, a, g) /\ ~ (base <= a /\ a < base + size)

LEMMA RemoveMemory ==
    ASSUME PHYS_ADDR_MAX \in Nat, NEW m, Dom(m), NEW s, s = m.memory.regions, MemArr(s),
           NEW base \in 0 .. PHYS_ADDR_MAX, NEW size0 \in Nat, NEW size, size = memblock_cap_size(base, size0),
           NEW x, x = memblock_remove_range(m, "memory", base, size0)
    PROVE  RemoveOutcome(x, s, base, size)
<1>1. size \in Nat /\ base + size <= PHYS_ADDR_MAX /\ base \in Nat /\ base + size \in Nat /\ base <= base + size
  <2>1. size \in Nat /\ base + size <= PHYS_ADDR_MAX
    BY CapSize
  <2> QED BY <2>1
<1>2. CASE size = 0
  <2>1. x = Done(m)
    BY <1>2, Zenon DEF memblock_remove_range, RemoveRange
  <2>2. \A a \in Nat : ~ (base <= a /\ a < base + size)
    BY <1>1, <1>2
  <2>3. x.m = m /\ x.ok = TRUE
    BY <2>1 DEF Done
  <2> QED BY <2>2, <2>3 DEF RemoveOutcome
<1>3. CASE size # 0
  <2>1. PICK g : g = Grow(m, "memory", 2, base, size, memblock_double_array)
    OBVIOUS
  <2>2. Result(g, m)
    <3>1. Keeps(m, m)
      BY DEF Keeps
    <3> QED BY <2>1, <3>1, GrowAny
  <2>3. x = RemoveIsolated(g, "memory", base, base + size)
    BY <1>3, <2>1, Zenon DEF memblock_remove_range, RemoveRange
  <2>4. g.m["memory"].regions = s /\ Dom(g.m)
    BY <2>2 DEF Result, Keeps
  <2>5. CASE ~ g.ok
    <3>1. x = g
      BY <2>3, <2>5 DEF RemoveIsolated
    <3> QED BY <2>4, <2>5, <3>1 DEF RemoveOutcome
  <2>6. CASE g.ok
    <3>1. PICK c : c = Isolate(s, base, base + size)
      OBVIOUS
    <3>2. PICK n : n = memblock_remove_region(g.m, "memory", c, Within(c, base, base + size))
      OBVIOUS
    <3>3. x = Done(n)
      BY <2>3, <2>4, <2>6, <3>1, <3>2 DEF RemoveIsolated, RemoveFrom
    <3>4. x.m = n /\ x.ok = TRUE
      BY <3>3 DEF Done
    <3>5. PICK r : r = OrDummy(Kept(c, Within(c, base, base + size)))
      OBVIOUS
    <3>6. Dom(n) /\ n.memory.regions = r
      BY <2>4, <3>2, <3>5, RemovedRegions
    <3>7. MemArr(r) /\ \A gg : \A a \in Int : Has(r, a, gg) <=> Has(s, a, gg) /\ ~ (base <= a /\ a < base + size)
      <4>1. PICK e \in Nat : e = base + size
        BY <1>1
      <4>2. base <= e /\ c = Isolate(s, base, e) /\ r = OrDummy(Kept(c, Within(c, base, e)))
        BY <1>1, <3>1, <3>5, <4>1
      <4>3. RemovedFrom(r, s, base, e)
        BY <1>1, <4>2, RemoveArr
      <4> QED BY <4>1, <4>3 DEF RemovedFrom
    <3> QED BY <3>4, <3>6, <3>7 DEF RemoveOutcome
  <2> QED BY <2>5, <2>6
<1> QED BY <1>2, <1>3

FlagOutcome(x, s, base, size, set, flag) ==
    /\ Dom(x.m) /\ (~ x.ok => x.m.memory.regions = s)
    /\ x.ok => /\ MemArr(x.m.memory.regions)
               /\ \A a \in Int : (base <= a /\ a < base + size) =>
                     \A g : Has(x.m.memory.regions, a, g) <=> \E h : Has(s, a, h) /\ g = NewFlags(h, set, flag)
               /\ \A a \in Int : ~ (base <= a /\ a < base + size) =>
                     \A g : Has(x.m.memory.regions, a, g) <=> Has(s, a, g)

LEMMA FlagMemory ==
    ASSUME PHYS_ADDR_MAX \in Nat, NEW m, Dom(m), NEW s, s = m.memory.regions, MemArr(s),
           NEW base \in Nat, NEW size \in Nat, NEW set, NEW flag, Bits(flag) \in SUBSET Nat,
           NEW x, x = Flagged(IsolateRoom(m, base, size), base, base + size, set, flag)
    PROVE  FlagOutcome(x, s, base, size, set, flag)
<1>1. PICK g : g = IsolateRoom(m, base, size)
  OBVIOUS
<1>2. Result(g, m)
  <2>1. Keeps(m, m)
    BY DEF Keeps
  <2>2. CASE size = 0
    <3>1. g = Done(m)
      BY <1>1, <2>2 DEF IsolateRoom
    <3> QED BY <2>1, <3>1, DoneResult
  <2>3. CASE size # 0
    <3>1. g = Grow(m, "memory", 2, base, size, memblock_double_array)
      BY <1>1, <2>3, Zenon DEF IsolateRoom
    <3> QED BY <2>1, <3>1, GrowAny
  <2> QED BY <2>2, <2>3
<1>3. x = Flagged(g, base, base + size, set, flag)
  BY <1>1, Zenon
<1>4. g.m.memory.regions = s /\ Dom(g.m)
  BY <1>2 DEF Result, Keeps
<1>5. CASE ~ g.ok
  <2>1. x = g
    BY <1>3, <1>5 DEF Flagged
  <2> QED BY <1>4, <1>5, <2>1 DEF FlagOutcome
<1>6. CASE g.ok
  <2>1. PICK r : r = memblock_merge_regions(SetFlags(Isolate(s, base, base + size), base, base + size, set, flag))
    OBVIOUS
  <2>2. PICK k, n : k = g.m /\ n = [k EXCEPT !.memory.regions = r]
    OBVIOUS
  <2>3. x = Done(n)
    BY <1>3, <1>4, <1>6, <2>1, <2>2 DEF Flagged, Dom
  <2>4. x.m = n /\ x.ok = TRUE
    BY <2>3 DEF Done
  <2>5. Dom(n) /\ n.memory.regions = r
    BY <1>4, <2>2 DEF Dom
  <2>6. base + size \in Nat /\ base <= base + size
    OBVIOUS
  <2>7. /\ MemArr(r)
        /\ \A a \in Int : (base <= a /\ a < base + size) =>
              \A gg : Has(r, a, gg) <=> \E h : Has(s, a, h) /\ gg = NewFlags(h, set, flag)
        /\ \A a \in Int : ~ (base <= a /\ a < base + size) => \A gg : Has(r, a, gg) <=> Has(s, a, gg)
    BY <2>1, <2>6, FlagArr
  <2> QED BY <2>4, <2>5, <2>7 DEF FlagOutcome
<1> QED BY <1>5, <1>6

CapOutcome(x, s, end) ==
    /\ Dom(x.m) /\ x.ok = TRUE /\ MemArr(x.m.memory.regions)
    /\ \A g : \A a \in Nat : Has(x.m.memory.regions, a, g) <=> Has(s, a, g) /\ (a < end \/ 0 \in g)

LEMMA CapMemory ==
    ASSUME PHYS_ADDR_MAX \in Nat, NEW m, Dom(m), NEW s, s = m.memory.regions, MemArr(s), NEW end \in Nat,
           NEW x, x = CapMapped(m, Isolate(s, 0, end), end)
    PROVE  CapOutcome(x, s, end)
<1>1. PICK c : c = Isolate(s, 0, end)
  OBVIOUS
<1>2. PICK gone : gone = {r \in Range(c) \ Within(c, 0, end) : ~ memblock_is_nomap(r)}
  OBVIOUS
<1>3. x.m = memblock_remove_region(m, "memory", c, gone) /\ x.ok = TRUE
  BY <1>1, <1>2 DEF CapMapped, Done
<1>4. PICK r : r = OrDummy(Kept(c, gone))
  OBVIOUS
<1>5. Dom(x.m) /\ x.m.memory.regions = r
  BY <1>3, <1>4, RemovedRegions
<1>6. MemArr(r) /\ \A g : \A a \in Nat : Has(r, a, g) <=> Has(s, a, g) /\ (a < end \/ 0 \in g)
  BY <1>1, <1>2, <1>4, CapArr
<1> QED BY <1>3, <1>5, <1>6 DEF CapOutcome
-----------------------------------------------------------------------------
(* The memory array says of every address what the history says. *)

MarkSets == (SUBSET {"NOMAP", "DMA"}) \cup {Absent}
FlagBits(x) == (IF "NOMAP" \in x THEN {0} ELSE {}) \cup (IF "DMA" \in x THEN {1} ELSE {})
Says(s, M) ==
    /\ MemArr(s) /\ M \in [Addr -> MarkSets]
    /\ \A a \in Addr : \A g : Has(s, a, g) <=> M[a] # Absent /\ g = FlagBits(M[a])

LEMMA MarkFacts ==
    /\ {} \in MarkSets /\ {} # Absent /\ FlagBits({}) = {} /\ Absent \in MarkSets
    /\ \A x \in MarkSets : x # Absent => x \in SUBSET {"NOMAP", "DMA"}
    /\ \A x \in SUBSET {"NOMAP", "DMA"} : x \in MarkSets /\ x # Absent
    /\ \A x : (0 \in FlagBits(x) <=> "NOMAP" \in x) /\ (1 \in FlagBits(x) <=> "DMA" \in x)
    /\ "NOMAP" \notin Absent
<1>1. {} # Absent /\ "NOMAP" \notin Absent
  BY DEF Absent
<1>2. FlagBits({}) = {}
  BY DEF FlagBits
<1>3. \A x : (0 \in FlagBits(x) <=> "NOMAP" \in x) /\ (1 \in FlagBits(x) <=> "DMA" \in x)
  BY DEF FlagBits
<1>4. \A x \in SUBSET {"NOMAP", "DMA"} : x # Absent
  BY DEF Absent
<1>5. \A x \in SUBSET {"NOMAP", "DMA"} : x \in MarkSets
  BY DEF MarkSets
<1>6. \A x \in MarkSets : x # Absent => x \in SUBSET {"NOMAP", "DMA"}
  BY DEF MarkSets
<1>7. Absent \in MarkSets
  BY DEF MarkSets
<1> QED BY <1>1, <1>2, <1>3, <1>4, <1>5, <1>6, <1>7

LEMMA SaysOutside ==
    ASSUME NEW s, NEW M, Says(s, M), NEW a \in Addr
    PROVE  Outside(s, a) <=> M[a] = Absent
<1>1. Outside(s, a) <=> \A g : ~ Has(s, a, g)
  BY DEF Outside, Has
<1>2. \A g : Has(s, a, g) <=> M[a] # Absent /\ g = FlagBits(M[a])
  BY DEF Says
<1> QED BY <1>1, <1>2

LEMMA CellsOf ==
    ASSUME PHYS_ADDR_MAX \in Nat, NEW r, r[1] \in 0 .. PHYS_ADDR_MAX, r[2] \in Nat, NEW a \in Addr
    PROVE  a \in Cells(r) <=> r[1] <= a /\ a < r[1] + memblock_cap_size(r[1], r[2])
<1>1. PICK b, c : b = r[1] /\ c = memblock_cap_size(r[1], r[2])
  OBVIOUS
<1>2. b \in Nat /\ c \in Nat /\ a \in Nat
  <2>1. c \in Nat
    BY <1>1, CapSize
  <2> QED BY <1>1, <2>1 DEF Addr
<1>3. Cells(r) = b .. b + c - 1
  BY <1>1 DEF Cells, Range2
<1> QED BY <1>1, <1>2, <1>3

LEMMA SaysAdd ==
    ASSUME NEW s, NEW M, Says(s, M), NEW t, MemArr(t), NEW C,
           \A g : \A a \in Addr : Has(t, a, g) <=> Has(s, a, g) \/ (a \in C /\ g = {} /\ Outside(s, a))
    PROVE  Says(t, [a \in Addr |-> IF a \in C /\ M[a] = Absent THEN {} ELSE M[a]])
<1>1. PICK N : N = [a \in Addr |-> IF a \in C /\ M[a] = Absent THEN {} ELSE M[a]]
  OBVIOUS
<1>2. M \in [Addr -> MarkSets]
  BY DEF Says
<1>3. N \in [Addr -> MarkSets]
  BY <1>1, <1>2, MarkFacts
<1>4. ASSUME NEW a \in Addr, NEW g PROVE Has(t, a, g) <=> N[a] # Absent /\ g = FlagBits(N[a])
  <2>1. Has(s, a, g) <=> M[a] # Absent /\ g = FlagBits(M[a])
    BY DEF Says
  <2>2. Outside(s, a) <=> M[a] = Absent
    BY SaysOutside
  <2>3. Has(t, a, g) <=> Has(s, a, g) \/ (a \in C /\ g = {} /\ Outside(s, a))
    OBVIOUS
  <2>4. N[a] = IF a \in C /\ M[a] = Absent THEN {} ELSE M[a]
    BY <1>1
  <2> QED BY <2>1, <2>2, <2>3, <2>4, MarkFacts
<1> QED BY <1>1, <1>3, <1>4 DEF Says

LEMMA SaysRemove ==
    ASSUME NEW s, NEW M, Says(s, M), NEW t, MemArr(t), NEW C,
           \A g : \A a \in Addr : Has(t, a, g) <=> Has(s, a, g) /\ ~ (a \in C)
    PROVE  Says(t, [a \in Addr |-> IF a \in C THEN Absent ELSE M[a]])
<1>1. PICK N : N = [a \in Addr |-> IF a \in C THEN Absent ELSE M[a]]
  OBVIOUS
<1>2. M \in [Addr -> MarkSets]
  BY DEF Says
<1>3. N \in [Addr -> MarkSets]
  BY <1>1, <1>2, MarkFacts
<1>4. ASSUME NEW a \in Addr, NEW g PROVE Has(t, a, g) <=> N[a] # Absent /\ g = FlagBits(N[a])
  <2>1. Has(s, a, g) <=> M[a] # Absent /\ g = FlagBits(M[a])
    BY DEF Says
  <2>2. Has(t, a, g) <=> Has(s, a, g) /\ ~ (a \in C)
    OBVIOUS
  <2>3. N[a] = IF a \in C THEN Absent ELSE M[a]
    BY <1>1
  <2> QED BY <2>1, <2>2, <2>3
<1> QED BY <1>1, <1>3, <1>4 DEF Says

LEMMA SaysCap ==
    ASSUME NEW s, NEW M, Says(s, M), NEW t, MemArr(t), NEW end \in Nat, PHYS_ADDR_MAX \in Nat,
           \A g : \A a \in Nat : Has(t, a, g) <=> Has(s, a, g) /\ (a < end \/ 0 \in g)
    PROVE  Says(t, [a \in Addr |-> IF a >= end /\ "NOMAP" \notin M[a] THEN Absent ELSE M[a]])
<1>1. PICK N : N = [a \in Addr |-> IF a >= end /\ "NOMAP" \notin M[a] THEN Absent ELSE M[a]]
  OBVIOUS
<1>2. M \in [Addr -> MarkSets]
  BY DEF Says
<1>3. N \in [Addr -> MarkSets]
  BY <1>1, <1>2, MarkFacts
<1>4. ASSUME NEW a \in Addr, NEW g PROVE Has(t, a, g) <=> N[a] # Absent /\ g = FlagBits(N[a])
  <2>0. a \in Nat /\ (a < end <=> ~ (a >= end))
    BY DEF Addr
  <2>1. Has(s, a, g) <=> M[a] # Absent /\ g = FlagBits(M[a])
    BY DEF Says
  <2>2. Has(t, a, g) <=> Has(s, a, g) /\ (~ (a >= end) \/ 0 \in g)
    BY <2>0
  <2>3. N[a] = IF a >= end /\ "NOMAP" \notin M[a] THEN Absent ELSE M[a]
    BY <1>1
  <2>4. 0 \in FlagBits(M[a]) <=> "NOMAP" \in M[a]
    BY MarkFacts
  <2>5. CASE a >= end /\ "NOMAP" \notin M[a]
    BY <2>1, <2>2, <2>3, <2>4, <2>5
  <2>6. CASE ~ (a >= end /\ "NOMAP" \notin M[a])
    BY <2>1, <2>2, <2>3, <2>4, <2>6
  <2> QED BY <2>5, <2>6
<1> QED BY <1>1, <1>3, <1>4 DEF Says

LEMMA FlagBitsChange ==
    ASSUME NEW x \in SUBSET {"NOMAP", "DMA"}, NEW set, NEW flag \in {"NOMAP", "DMA"},
           NEW y, y = IF set THEN x \cup {flag} ELSE x \ {flag}
    PROVE  y \in SUBSET {"NOMAP", "DMA"} /\ NewFlags(FlagBits(x), set, flag) = FlagBits(y)
<1>1. Bits("NOMAP") = {0} /\ Bits("DMA") = {1}
  BY DEF Bits
<1>2. CASE set
  <2>1. CASE flag = "NOMAP"
    BY <1>1, <1>2, <2>1 DEF NewFlags, FlagBits
  <2>2. CASE flag = "DMA"
    BY <1>1, <1>2, <2>2 DEF NewFlags, FlagBits
  <2> QED BY <2>1, <2>2
<1>3. CASE ~ set
  <2>1. CASE flag = "NOMAP"
    BY <1>1, <1>3, <2>1 DEF NewFlags, FlagBits
  <2>2. CASE flag = "DMA"
    BY <1>1, <1>3, <2>2 DEF NewFlags, FlagBits
  <2> QED BY <2>1, <2>2
<1> QED BY <1>2, <1>3

(* t is s with flag set or cleared in C *)
FlagsSet(t, s, C, set, flag) ==
    /\ \A a \in Addr : a \in C =>
          \A g : Has(t, a, g) <=> \E h : Has(s, a, h) /\ g = NewFlags(h, set, flag)
    /\ \A a \in Addr : a \notin C => \A g : Has(t, a, g) <=> Has(s, a, g)

LEMMA SaysFlag ==
    ASSUME NEW s, NEW M, Says(s, M), NEW t, MemArr(t), NEW C, NEW set, NEW flag \in {"NOMAP", "DMA"},
           FlagsSet(t, s, C, set, flag), NEW N,
           N = [a \in Addr |-> IF a \notin C \/ M[a] = Absent THEN M[a]
                               ELSE IF set THEN M[a] \cup {flag} ELSE M[a] \ {flag}]
    PROVE  Says(t, N)
<1>0. PICK Y : Y = [a \in Addr |-> IF set THEN M[a] \cup {flag} ELSE M[a] \ {flag}]
  OBVIOUS
<1>2. M \in [Addr -> MarkSets]
  BY DEF Says
<1>3. ASSUME NEW a \in Addr, M[a] # Absent
      PROVE  Y[a] \in SUBSET {"NOMAP", "DMA"} /\ NewFlags(FlagBits(M[a]), set, flag) = FlagBits(Y[a])
  <2>1. M[a] \in SUBSET {"NOMAP", "DMA"}
    BY <1>2, <1>3, MarkFacts
  <2>2. Y[a] = IF set THEN M[a] \cup {flag} ELSE M[a] \ {flag}
    BY <1>0
  <2>3. PICK x, y : x = M[a] /\ y = Y[a]
    OBVIOUS
  <2>4. x \in SUBSET {"NOMAP", "DMA"} /\ y = IF set THEN x \cup {flag} ELSE x \ {flag}
    BY <2>1, <2>2, <2>3
  <2>5. y \in SUBSET {"NOMAP", "DMA"} /\ NewFlags(FlagBits(x), set, flag) = FlagBits(y)
    BY <2>4, FlagBitsChange
  <2> QED BY <2>3, <2>5
<1>4. \A a \in Addr : N[a] = IF a \notin C \/ M[a] = Absent THEN M[a] ELSE Y[a]
  BY <1>0
<1>5. N \in [Addr -> MarkSets]
  <2>1. \A a \in Addr : N[a] \in MarkSets
    BY <1>2, <1>3, <1>4, MarkFacts
  <2>2. N = [a \in Addr |-> N[a]]
    OBVIOUS
  <2> QED BY <2>1, <2>2
<1>6. ASSUME NEW a \in Addr, NEW g PROVE Has(t, a, g) <=> N[a] # Absent /\ g = FlagBits(N[a])
  <2>1. \A h : Has(s, a, h) <=> M[a] # Absent /\ h = FlagBits(M[a])
    BY DEF Says
  <2>2. CASE a \notin C
    <3>1. N[a] = M[a]
      BY <1>4, <2>2
    <3> QED BY <2>1, <2>2, <3>1 DEF FlagsSet
  <2>3. CASE a \in C /\ M[a] = Absent
    <3>1. N[a] = Absent
      BY <1>4, <2>3
    <3> QED BY <2>1, <2>3, <3>1 DEF FlagsSet
  <2>4. CASE a \in C /\ M[a] # Absent
    <3>1. N[a] = Y[a] /\ Y[a] # Absent
      BY <1>3, <1>4, <2>4, MarkFacts
    <3>2. Has(t, a, g) <=> \E h : Has(s, a, h) /\ g = NewFlags(h, set, flag)
      BY <2>4 DEF FlagsSet
    <3>3. Has(t, a, g) <=> g = NewFlags(FlagBits(M[a]), set, flag)
      BY <2>1, <2>4, <3>2
    <3> QED BY <1>3, <2>4, <3>1, <3>3
  <2> QED BY <2>2, <2>3, <2>4
<1> QED BY <1>5, <1>6 DEF Says
-----------------------------------------------------------------------------
(* The inductive invariant *)

Inv == Dom(memblock) /\ Says(memblock.memory.regions, marks)

LEMMA InitInv == Init => Inv
<1> SUFFICES ASSUME Init PROVE Inv
  OBVIOUS
<1>0. PHYS_ADDR_MAX \in Nat
  BY RangesAssumption DEF RangesAssumption
<1>1. Dom(memblock) /\ memblock.memory.regions = <<Dummy>>
  BY DEF Init, Type, Dom
<1>2. marks \in [Addr -> MarkSets] /\ \A a \in Addr : marks[a] = Absent
  BY MarkFacts DEF Init
<1>3. MemArr(<<Dummy>>)
  BY <1>0, DummyFacts DEF MemArr
<1>4. \A a \in Addr : \A g : ~ Has(<<Dummy>>, a, g)
  <2>1. \A a \in Addr : a \in Int
    BY <1>0 DEF Addr
  <2> QED BY <2>1, DummyFacts
<1> QED BY <1>1, <1>2, <1>3, <1>4 DEF Inv, Says

(* A step that changes no region of memory and no mark *)
LEMMA KeepsInv ==
    ASSUME Inv, Keeps(memblock', memblock), marks' = marks
    PROVE  Inv'
BY DEF Inv, Keeps

LEMMA ReservedAny ==
    ASSUME NEW m, Dom(m), NEW b, NEW s
    PROVE  /\ Keeps(memblock_add_range(m, "reserved", b, s).m, m)
           /\ Keeps(memblock_remove_range(m, "reserved", b, s).m, m)
<1>1. Keeps(m, m)
  BY DEF Keeps
<1>2. Result(AddRange(m, "reserved", b, s, {}, memblock_double_array), m)
  BY <1>1, AddAny
<1>3. Result(RemoveRange(m, "reserved", b, s, memblock_double_array), m)
  BY <1>1, RemoveAny
<1> QED BY <1>2, <1>3 DEF memblock_add_range, memblock_remove_range, Result

LEMMA AddStep ==
    ASSUME Inv, NEW r \in AddRanges, memblock_add(r)
    PROVE  Inv'
<1>0. PHYS_ADDR_MAX \in Nat /\ r[1] \in 0 .. PHYS_ADDR_MAX /\ r[2] \in Nat
  BY RangesAssumption DEF RangesAssumption
<1>1. PICK x : x = memblock_add_range(memblock, "memory", r[1], r[2])
  OBVIOUS
<1>2. PICK N : N = [a \in Addr |-> IF a \in Cells(r) /\ marks[a] = Absent THEN {} ELSE marks[a]]
  OBVIOUS
<1>3. memblock' = x.m /\ marks' = IF x.ok THEN N ELSE marks
  BY <1>1, <1>2 DEF memblock_add, Returned, Commit
<1>4. PICK s, size : s = memblock.memory.regions /\ size = memblock_cap_size(r[1], r[2])
  OBVIOUS
<1>5. Dom(memblock) /\ Says(s, marks) /\ MemArr(s)
  BY <1>4 DEF Inv, Says
<1>6. /\ Dom(x.m) /\ (~ x.ok => x.m.memory.regions = s)
      /\ x.ok => /\ MemArr(x.m.memory.regions)
                 /\ \A g : \A a \in Nat : Has(x.m.memory.regions, a, g) <=>
                       Has(s, a, g) \/ (r[1] <= a /\ a < r[1] + size /\ g = {} /\ Outside(s, a))
  <2>1. AddOutcome(x, s, r[1], size)
    BY <1>0, <1>1, <1>4, <1>5, AddMemory
  <2> QED BY <2>1 DEF AddOutcome
<1>7. CASE ~ x.ok
  BY <1>3, <1>4, <1>5, <1>6, <1>7 DEF Inv
<1>8. CASE x.ok
  <2>1. PICK t : t = x.m.memory.regions
    OBVIOUS
  <2>2. \A a \in Addr : a \in Nat /\ (a \in Cells(r) <=> r[1] <= a /\ a < r[1] + size)
    BY <1>0, <1>4, CellsOf DEF Addr
  <2>3. \A g : \A a \in Addr : Has(t, a, g) <=> Has(s, a, g) \/ (a \in Cells(r) /\ g = {} /\ Outside(s, a))
    BY <1>6, <1>8, <2>1, <2>2
  <2>4. Says(t, N)
    BY <1>2, <1>5, <1>6, <1>8, <2>1, <2>3, SaysAdd
  <2> QED BY <1>3, <1>6, <1>8, <2>1, <2>4 DEF Inv
<1> QED BY <1>7, <1>8

LEMMA RemoveStep ==
    ASSUME Inv, NEW r \in AddRanges, memblock_remove(r)
    PROVE  Inv'
<1>0. PHYS_ADDR_MAX \in Nat /\ r[1] \in 0 .. PHYS_ADDR_MAX /\ r[2] \in Nat
  BY RangesAssumption DEF RangesAssumption
<1>1. PICK x : x = memblock_remove_range(memblock, "memory", r[1], r[2])
  OBVIOUS
<1>2. PICK N : N = [a \in Addr |-> IF a \in Cells(r) THEN Absent ELSE marks[a]]
  OBVIOUS
<1>3. memblock' = x.m /\ marks' = IF x.ok THEN N ELSE marks
  BY <1>1, <1>2 DEF memblock_remove, Returned, Commit
<1>4. PICK s, size : s = memblock.memory.regions /\ size = memblock_cap_size(r[1], r[2])
  OBVIOUS
<1>5. Dom(memblock) /\ Says(s, marks) /\ MemArr(s)
  BY <1>4 DEF Inv, Says
<1>6. /\ Dom(x.m) /\ (~ x.ok => x.m.memory.regions = s)
      /\ x.ok => /\ MemArr(x.m.memory.regions)
                 /\ \A g : \A a \in Nat : Has(x.m.memory.regions, a, g) <=>
                       Has(s, a, g) /\ ~ (r[1] <= a /\ a < r[1] + size)
  <2>1. RemoveOutcome(x, s, r[1], size)
    BY <1>0, <1>1, <1>4, <1>5, RemoveMemory
  <2> QED BY <2>1 DEF RemoveOutcome
<1>7. CASE ~ x.ok
  BY <1>3, <1>4, <1>5, <1>6, <1>7 DEF Inv
<1>8. CASE x.ok
  <2>1. PICK t : t = x.m.memory.regions
    OBVIOUS
  <2>2. \A a \in Addr : a \in Nat /\ (a \in Cells(r) <=> r[1] <= a /\ a < r[1] + size)
    BY <1>0, <1>4, CellsOf DEF Addr
  <2>3. \A g : \A a \in Addr : Has(t, a, g) <=> Has(s, a, g) /\ ~ (a \in Cells(r))
    BY <1>6, <1>8, <2>1, <2>2
  <2>4. Says(t, N)
    BY <1>2, <1>5, <1>6, <1>8, <2>1, <2>3, SaysRemove
  <2> QED BY <1>3, <1>6, <1>8, <2>1, <2>4 DEF Inv
<1> QED BY <1>7, <1>8

LEMMA FlagStep ==
    ASSUME Flags \subseteq {"NOMAP", "DMA"}, Inv, NEW r \in FlagRanges, NEW set \in BOOLEAN, NEW flag \in Flags,
           memblock_setclr_flag(r, set, flag)
    PROVE  Inv'
<1>0. PHYS_ADDR_MAX \in Nat /\ r[1] \in 0 .. PHYS_ADDR_MAX /\ r[2] \in Nat /\ r[1] \in Nat
  BY RangesAssumption DEF RangesAssumption
<1>1. PICK size : size = memblock_cap_size(r[1], r[2])
  OBVIOUS
<1>2. size \in Nat
  BY <1>0, <1>1, CapSize
<1>3. PICK x : x = Flagged(IsolateRoom(memblock, r[1], size), r[1], r[1] + size, set, flag)
  OBVIOUS
<1>4. PICK N : N = [a \in Addr |-> IF a \notin Cells(r) \/ marks[a] = Absent THEN marks[a]
                                  ELSE IF set THEN marks[a] \cup {flag} ELSE marks[a] \ {flag}]
  OBVIOUS
<1>5. memblock' = x.m /\ marks' = IF x.ok THEN N ELSE marks
  BY <1>1, <1>3, <1>4 DEF memblock_setclr_flag, Returned, Commit
<1>6. PICK s : s = memblock.memory.regions
  OBVIOUS
<1>7. Dom(memblock) /\ Says(s, marks) /\ MemArr(s)
  BY <1>6 DEF Inv, Says
<1>8. flag \in {"NOMAP", "DMA"} /\ Bits(flag) \in SUBSET Nat
  <2>1. flag \in {"NOMAP", "DMA"}
    OBVIOUS
  <2>2. Bits("NOMAP") = {0} /\ Bits("DMA") = {1}
    BY DEF Bits
  <2> QED BY <2>1, <2>2
<1>9. /\ Dom(x.m) /\ (~ x.ok => x.m.memory.regions = s)
      /\ x.ok => /\ MemArr(x.m.memory.regions)
                 /\ \A a \in Int : (r[1] <= a /\ a < r[1] + size) =>
                       \A g : Has(x.m.memory.regions, a, g) <=> \E h : Has(s, a, h) /\ g = NewFlags(h, set, flag)
                 /\ \A a \in Int : ~ (r[1] <= a /\ a < r[1] + size) =>
                       \A g : Has(x.m.memory.regions, a, g) <=> Has(s, a, g)
  <2>1. FlagOutcome(x, s, r[1], size, set, flag)
    BY <1>0, <1>2, <1>3, <1>6, <1>7, <1>8, FlagMemory
  <2> QED BY <2>1 DEF FlagOutcome
<1>10. CASE ~ x.ok
  BY <1>5, <1>6, <1>7, <1>9, <1>10 DEF Inv
<1>11. CASE x.ok
  <2>1. PICK t : t = x.m.memory.regions
    OBVIOUS
  <2>2. \A a \in Addr : a \in Int /\ (a \in Cells(r) <=> r[1] <= a /\ a < r[1] + size)
    BY <1>0, <1>1, CellsOf DEF Addr
  <2>3. \A a \in Addr : a \in Cells(r) =>
          \A g : Has(t, a, g) <=> \E h : Has(s, a, h) /\ g = NewFlags(h, set, flag)
    BY <1>9, <1>11, <2>1, <2>2
  <2>4. \A a \in Addr : a \notin Cells(r) => \A g : Has(t, a, g) <=> Has(s, a, g)
    BY <1>9, <1>11, <2>1, <2>2
  <2>5. Says(t, N)
    <3>1. FlagsSet(t, s, Cells(r), set, flag)
      BY <2>3, <2>4 DEF FlagsSet
    <3>2. MemArr(t)
      BY <1>9, <1>11, <2>1
    <3>3. PICK C : C = Cells(r)
      OBVIOUS
    <3>4. N = [a \in Addr |-> IF a \notin C \/ marks[a] = Absent THEN marks[a]
                              ELSE IF set THEN marks[a] \cup {flag} ELSE marks[a] \ {flag}]
      BY <1>4, <3>3, Zenon
    <3> QED BY <1>7, <1>8, <3>1, <3>2, <3>3, <3>4, SaysFlag
  <2> QED BY <1>5, <1>9, <1>11, <2>1, <2>5 DEF Inv
<1> QED BY <1>10, <1>11

LEMMA MaxAddr ==
    ASSUME Inv, NEW limit \in Limits
    PROVE  __find_max_addr(memblock, limit) \in 0 .. PHYS_ADDR_MAX
<1>0. PHYS_ADDR_MAX \in Nat /\ limit \in Nat
  BY RangesAssumption DEF RangesAssumption
<1>1. MemArr(memblock.memory.regions)
  BY DEF Inv, Says
<1>2. memblock.memory.regions \in Seq(AnyRegion) /\ EndsBy(memblock.memory.regions, PHYS_ADDR_MAX)
  BY <1>1, MemArrFacts DEF MemArr
<1> QED BY <1>0, <1>2, MaxAddrOk

LEMMA LimitStep ==
    ASSUME Inv, NEW limit \in Limits, memblock_enforce_memory_limit(limit)
    PROVE  Inv'
<1>0. PHYS_ADDR_MAX \in Nat
  BY RangesAssumption DEF RangesAssumption
<1>1. PICK end : end = __find_max_addr(memblock, limit)
  OBVIOUS
<1>2. end \in 0 .. PHYS_ADDR_MAX /\ end \in Nat
  BY <1>0, <1>1, MaxAddr
<1>3. PICK x : x = memblock_remove_range(memblock, "memory", end, PHYS_ADDR_MAX)
  OBVIOUS
<1>4. PICK N : N = [a \in Addr |-> IF a >= end THEN Absent ELSE marks[a]]
  OBVIOUS
<1>5. PICK y : y = memblock_remove_range(x.m, "reserved", end, PHYS_ADDR_MAX)
  OBVIOUS
<1>6. memblock' = y.m /\ marks' = IF x.ok THEN N ELSE marks
  BY <1>1, <1>3, <1>4, <1>5 DEF memblock_enforce_memory_limit, CutBoth, CutReserved, Commit
<1>7. PICK s, size : s = memblock.memory.regions /\ size = memblock_cap_size(end, PHYS_ADDR_MAX)
  OBVIOUS
<1>8. end + size = PHYS_ADDR_MAX
  <2>1. size = IF PHYS_ADDR_MAX <= PHYS_ADDR_MAX - end THEN PHYS_ADDR_MAX ELSE PHYS_ADDR_MAX - end
    BY <1>0, <1>2, <1>7, CapSize
  <2> QED BY <1>0, <1>2, <2>1
<1>9. Dom(memblock) /\ Says(s, marks) /\ MemArr(s)
  BY <1>7 DEF Inv, Says
<1>10. /\ Dom(x.m) /\ (~ x.ok => x.m.memory.regions = s)
       /\ x.ok => /\ MemArr(x.m.memory.regions)
                  /\ \A g : \A a \in Nat : Has(x.m.memory.regions, a, g) <=>
                        Has(s, a, g) /\ ~ (end <= a /\ a < end + size)
  <2>1. RemoveOutcome(x, s, end, size)
    BY <1>0, <1>2, <1>3, <1>7, <1>9, RemoveMemory
  <2> QED BY <2>1 DEF RemoveOutcome
<1>11. Dom(y.m) /\ y.m.memory.regions = x.m.memory.regions
  BY <1>5, <1>10, ReservedAny DEF Keeps
<1>12. CASE ~ x.ok
  BY <1>6, <1>9, <1>10, <1>11, <1>12 DEF Inv
<1>13. CASE x.ok
  <2>1. PICK t, C : t = x.m.memory.regions /\ C = {a \in Addr : a >= end}
    OBVIOUS
  <2>2. \A a \in Addr : a \in Nat /\ (a \in C <=> end <= a /\ a < end + size) /\ (a \in C <=> a >= end)
    BY <1>0, <1>2, <1>8, <2>1 DEF Addr
  <2>3. \A g : \A a \in Addr : Has(t, a, g) <=> Has(s, a, g) /\ ~ (a \in C)
    BY <1>10, <1>13, <2>1, <2>2
  <2>4. Says(t, [a \in Addr |-> IF a \in C THEN Absent ELSE marks[a]])
    BY <1>9, <1>10, <1>13, <2>1, <2>3, SaysRemove
  <2>5. N = [a \in Addr |-> IF a \in C THEN Absent ELSE marks[a]]
    BY <1>4, <2>2
  <2> QED BY <1>6, <1>11, <1>13, <2>1, <2>4, <2>5 DEF Inv
<1> QED BY <1>12, <1>13

LEMMA CapStep ==
    ASSUME Inv, NEW limit \in Limits, memblock_mem_limit_remove_map(limit)
    PROVE  Inv'
<1>0. PHYS_ADDR_MAX \in Nat
  BY RangesAssumption DEF RangesAssumption
<1>1. PICK end : end = __find_max_addr(memblock, limit)
  OBVIOUS
<1>2. end \in Nat
  BY <1>0, <1>1, MaxAddr
<1>3. PICK g : g = Grow(memblock, "memory", 2, 0, end, memblock_double_array)
  OBVIOUS
<1>4. memblock_cap_memory_range(g, end)
  BY <1>1, <1>3 DEF memblock_mem_limit_remove_map
<1>5. Result(g, memblock)
  <2>1. Keeps(memblock, memblock)
    BY DEF Inv, Keeps
  <2> QED BY <1>3, <2>1, GrowAny
<1>6. CASE ~ g.ok
  <2>1. memblock' = g.m /\ marks' = marks
    BY <1>4, <1>6 DEF memblock_cap_memory_range, Commit
  <2> QED BY <1>5, <2>1, KeepsInv DEF Result
<1>7. CASE g.ok
  <2>1. PICK s : s = memblock.memory.regions
    OBVIOUS
  <2>2. Dom(g.m) /\ g.m.memory.regions = s
    BY <1>5, <2>1 DEF Result, Keeps
  <2>3. PICK x : x = CapMapped(g.m, Isolate(s, 0, end), end)
    OBVIOUS
  <2>4. PICK N : N = [a \in Addr |-> IF a >= end /\ "NOMAP" \notin marks[a] THEN Absent ELSE marks[a]]
    OBVIOUS
  <2>5. PICK y : y = memblock_remove_range(x.m, "reserved", end, PHYS_ADDR_MAX)
    OBVIOUS
  <2>6. memblock' = y.m /\ marks' = IF x.ok THEN N ELSE marks
    BY <1>4, <1>7, <2>2, <2>3, <2>4, <2>5 DEF memblock_cap_memory_range, CutBoth, CutReserved, Commit
  <2>7. Says(s, marks) /\ MemArr(s)
    BY <2>1 DEF Inv, Says
  <2>8. PICK t : t = x.m.memory.regions
    OBVIOUS
  <2>9. /\ Dom(x.m) /\ x.ok = TRUE /\ MemArr(t)
        /\ \A gg : \A a \in Nat : Has(t, a, gg) <=> Has(s, a, gg) /\ (a < end \/ 0 \in gg)
    <3>1. CapOutcome(x, s, end)
      BY <1>0, <1>2, <2>2, <2>3, <2>7, CapMemory
    <3> QED BY <2>8, <3>1 DEF CapOutcome
  <2>10. Dom(y.m) /\ y.m.memory.regions = t
    BY <2>5, <2>8, <2>9, ReservedAny DEF Keeps
  <2>11. Says(t, N)
    BY <1>0, <1>2, <2>4, <2>7, <2>9, SaysCap
  <2> QED BY <2>6, <2>9, <2>10, <2>11 DEF Inv
<1> QED BY <1>6, <1>7

LEMMA AllocRangeKeeps ==
    ASSUME NEW m, Dom(m), NEW size, NEW align, NEW start, NEW end
    PROVE  Keeps(__memblock_alloc_range(m, size, align, start, end).m, m)
<1>1. PICK found : found = __memblock_find_in_range(m, size, align, start, end)
  OBVIOUS
<1>2. Keeps(ReserveFound(m, found, size).m, m)
  <2>1. CASE found = 0
    <3>1. ReserveFound(m, found, size) = [m |-> m, addr |-> 0]
      BY <2>1, Zenon DEF ReserveFound
    <3> QED BY <3>1 DEF Keeps
  <2>2. CASE found # 0
    <3>1. PICK x : x = memblock_add_range(m, "reserved", found, size)
      OBVIOUS
    <3>2. ReserveFound(m, found, size) = Reserved(found, x)
      BY <2>2, <3>1, Zenon DEF ReserveFound
    <3>3. Reserved(found, x).m = x.m
      BY DEF Reserved
    <3>4. Keeps(x.m, m)
      BY <3>1, ReservedAny
    <3> QED BY <3>2, <3>3, <3>4
  <2> QED BY <2>1, <2>2
<1> QED BY <1>1, <1>2 DEF __memblock_alloc_range

LEMMA AllocStep ==
    ASSUME Inv, NEW size, NEW align,
           \/ memblock_phys_alloc(size, align)
           \/ \E min_addr \in Limits : memblock_alloc_internal(size, align, min_addr)
    PROVE  Inv'
<1>0. Dom(memblock)
  BY DEF Inv
<1>1. CASE memblock_phys_alloc(size, align)
  <2>1. PICK x : x = __memblock_alloc_range(memblock, size, align, 0, 0)
    OBVIOUS
  <2>2. memblock' = x.m /\ marks' = marks
    BY <1>1, <2>1 DEF memblock_phys_alloc, Allocated, Commit
  <2>3. Keeps(x.m, memblock)
    BY <1>0, <2>1, AllocRangeKeeps
  <2> QED BY <2>2, <2>3, KeepsInv
<1>2. CASE \E min_addr \in Limits : memblock_alloc_internal(size, align, min_addr)
  <2>1. PICK min_addr \in Limits : memblock_alloc_internal(size, align, min_addr)
    BY <1>2
  <2>2. PICK x : x = __memblock_alloc_range(memblock, size, align, min_addr, 0)
    OBVIOUS
  <2>3. PICK y : y = TryAgain(x, size, align)
    OBVIOUS
  <2>4. memblock' = y.m /\ marks' = marks
    BY <2>1, <2>2, <2>3 DEF memblock_alloc_internal, Allocated, Commit
  <2>5. Keeps(x.m, memblock)
    BY <1>0, <2>2, AllocRangeKeeps
  <2>6. PICK z : z = __memblock_alloc_range(x.m, size, align, 0, 0)
    OBVIOUS
  <2>7. Keeps(z.m, x.m)
    BY <2>5, <2>6, AllocRangeKeeps DEF Keeps
  <2>8. y = x \/ y = z
    BY <2>3, <2>6, Zenon DEF TryAgain
  <2>9. Keeps(y.m, memblock)
    BY <2>5, <2>7, <2>8, KeepsTrans
  <2> QED BY <2>4, <2>9, KeepsInv
<1> QED BY <1>1, <1>2

LEMMA ReservedStep ==
    ASSUME Inv,
           \/ \E r \in ReserveRanges : memblock_reserve(r)
           \/ \E b \in owned : memblock_free(b)
           \/ memblock_allow_resize
    PROVE  Inv'
<1>0. Dom(memblock)
  BY DEF Inv
<1>1. ASSUME NEW r \in ReserveRanges, memblock_reserve(r) PROVE Inv'
  <2>1. PICK x : x = memblock_add_range(memblock, "reserved", r[1], r[2])
    OBVIOUS
  <2>2. memblock' = x.m /\ marks' = marks
    BY <1>1, <2>1 DEF memblock_reserve, Returned, Commit
  <2>3. Keeps(x.m, memblock)
    BY <1>0, <2>1, ReservedAny
  <2> QED BY <2>2, <2>3, KeepsInv
<1>2. ASSUME NEW b \in owned, memblock_free(b) PROVE Inv'
  <2>1. PICK x : x = memblock_remove_range(memblock, "reserved", b[1], b[2])
    OBVIOUS
  <2>2. memblock' = x.m /\ marks' = marks
    BY <1>2, <2>1 DEF memblock_free, Freed, Commit
  <2>3. Keeps(x.m, memblock)
    BY <1>0, <2>1, ReservedAny
  <2> QED BY <2>2, <2>3, KeepsInv
<1>3. ASSUME memblock_allow_resize PROVE Inv'
  <2>1. PICK x : x = memblock_remove_range(memblock, "reserved", InitPgDir[1], InitPgDir[2])
    OBVIOUS
  <2>2. memblock' = x.m /\ marks' = marks
    BY <1>3, <2>1 DEF memblock_allow_resize, Returned, Commit
  <2>3. Keeps(x.m, memblock)
    BY <1>0, <2>1, ReservedAny
  <2> QED BY <2>2, <2>3, KeepsInv
<1> QED BY <1>1, <1>2, <1>3

(* The calls that set a field of the struct, or move the boot on *)
LEMMA OtherStep ==
    ASSUME Inv,
           \/ \E limit \in Limits : memblock_set_current_limit(limit)
           \/ memblock_set_bottom_up
           \/ paging_init
           \/ UNCHANGED vars
    PROVE  Inv'
<1>0. Dom(memblock)
  BY DEF Inv
<1>1. ASSUME NEW limit \in Limits, memblock_set_current_limit(limit) PROVE Inv'
  <2>1. PICK n : n = [memblock EXCEPT !.current_limit = limit]
    OBVIOUS
  <2>2. memblock' = n /\ marks' = marks
    BY <1>1, <2>1 DEF memblock_set_current_limit
  <2>3. Keeps(n, memblock)
    BY <1>0, <2>1 DEF Dom, Keeps
  <2> QED BY <2>2, <2>3, KeepsInv
<1>2. ASSUME memblock_set_bottom_up PROVE Inv'
  <2>1. PICK n : n = [memblock EXCEPT !.bottom_up = TRUE]
    OBVIOUS
  <2>2. memblock' = n /\ marks' = marks
    BY <1>2, <2>1 DEF memblock_set_bottom_up
  <2>3. Keeps(n, memblock)
    BY <1>0, <2>1 DEF Dom, Keeps
  <2> QED BY <2>2, <2>3, KeepsInv
<1>3. ASSUME paging_init \/ UNCHANGED vars PROVE Inv'
  <2>1. memblock' = memblock /\ marks' = marks
    BY <1>3 DEF paging_init, vars
  <2> QED BY <2>1 DEF Inv
<1> QED BY <1>1, <1>2, <1>3

LEMMA NextInv ==
    ASSUME Flags \subseteq {"NOMAP", "DMA"}, Inv, [Next]_vars
    PROVE  Inv'
<1>1. ASSUME NEW r \in AddRanges, memblock_add(r) PROVE Inv'
  BY <1>1, AddStep
<1>2. ASSUME NEW r \in AddRanges, memblock_remove(r) PROVE Inv'
  BY <1>2, RemoveStep
<1>3. ASSUME NEW limit \in Limits, memblock_enforce_memory_limit(limit) PROVE Inv'
  BY <1>3, LimitStep
<1>4. ASSUME NEW limit \in Limits, memblock_mem_limit_remove_map(limit) PROVE Inv'
  BY <1>4, CapStep
<1>5. ASSUME NEW r \in FlagRanges, NEW set \in BOOLEAN, NEW flag \in Flags, memblock_setclr_flag(r, set, flag)
      PROVE  Inv'
  BY <1>5, FlagStep
<1>6. ASSUME NEW size \in Sizes, NEW align \in Aligns,
             \/ memblock_phys_alloc(size, align)
             \/ \E min_addr \in Limits : memblock_alloc_internal(size, align, min_addr)
      PROVE  Inv'
  BY <1>6, AllocStep
<1>7. CASE \/ \E r \in ReserveRanges : memblock_reserve(r)
           \/ \E b \in owned : memblock_free(b)
           \/ memblock_allow_resize
  BY <1>7, ReservedStep
<1>8. CASE \/ \E limit \in Limits : memblock_set_current_limit(limit)
           \/ memblock_set_bottom_up
           \/ paging_init
           \/ UNCHANGED vars
  BY <1>8, OtherStep
<1> QED BY <1>1, <1>2, <1>3, <1>4, <1>5, <1>6, <1>7, <1>8 DEF Next

LEMMA InvExact == Inv => MemoryExact
<1> SUFFICES ASSUME Inv, NEW a \in Addr, NEW i, i = memblock_search(memblock.memory, a)
             PROVE  /\ i = 0 <=> marks[a] = Absent
                    /\ i # 0 => /\ memblock_is_nomap(memblock.memory.regions[i]) <=> "NOMAP" \in marks[a]
                                /\ 1 \in memblock.memory.regions[i].flags <=> "DMA" \in marks[a]
  BY DEF MemoryExact
<1>0. a \in Nat
  BY RangesAssumption DEF RangesAssumption, Addr
<1>1. PICK t : t = memblock.memory
  OBVIOUS
<1>2. PICK s : s = t.regions
  OBVIOUS
<1>3. Says(s, marks) /\ MemArr(s)
  BY <1>1, <1>2 DEF Inv, Says
<1>4. Outside(s, a) <=> marks[a] = Absent
  BY <1>3, SaysOutside
<1>5. CASE s = <<Dummy>>
  <2>1. i = 0
    BY <1>0, <1>1, <1>2, <1>5, SearchDummy
  <2>2. Outside(s, a)
    BY <1>0, <1>5, DummyFacts
  <2> QED BY <1>4, <2>1, <2>2
<1>6. CASE Arr(s)
  <2>1. /\ i # 0 => i \in 1 .. Len(s) /\ In(s[i], a)
        /\ i = 0 => Outside(s, a)
    BY <1>0, <1>1, <1>2, <1>6, SearchOk
  <2>2. CASE i = 0
    BY <1>4, <2>1, <2>2
  <2>3. CASE i # 0
    <3>1. PICK g : g = s[i].flags
      OBVIOUS
    <3>2. Has(s, a, g) /\ ~ Outside(s, a)
      BY <2>1, <2>3, <3>1 DEF Has, Outside
    <3>3. g = FlagBits(marks[a])
      BY <1>3, <3>2 DEF Says
    <3>4. (0 \in g <=> "NOMAP" \in marks[a]) /\ (1 \in g <=> "DMA" \in marks[a])
      BY <3>3, MarkFacts
    <3> QED BY <1>1, <1>2, <1>4, <2>3, <3>1, <3>2, <3>4 DEF memblock_is_nomap
  <2> QED BY <2>2, <2>3
<1> QED BY <1>3, <1>5, <1>6 DEF MemArr

(* After every sequence of boot calls memblock.memory says of every address, and of its
   flags, what the calls made of it, as long as callers mark memory NOMAP and DMA only:
   MEMBLOCK_MOVABLE is 0x3, the two other flags at once, and cannot be told from them. *)
THEOREM Invariance ==
    ASSUME Flags \subseteq {"NOMAP", "DMA"}
    PROVE  Spec => []Inv
<1>1. Inv /\ [Next]_vars => Inv'
  BY NextInv
<1> QED BY InitInv, <1>1, PTL DEF Spec

(* memblock_is_memory, memblock_is_map_memory and the DMA flag answer for every address as
   the calls memblock_add, memblock_remove, memblock_mark_*, memblock_clear_* and the two
   memory limits left it, whatever arrays had to grow on the way and whichever failed to. *)
THEOREM MemoryAlwaysExact ==
    ASSUME Flags \subseteq {"NOMAP", "DMA"}
    PROVE  Spec => []MemoryExact
BY Invariance, InvExact, PTL
=============================================================================
