---------------------------- MODULE PercpuLemmas ----------------------------
(***************************************************************************)
(* Facts about the per-CPU allocator's pure operators: what the searches   *)
(* in bitmaps find, that the hints of blocks and chunks stay exact, and    *)
(* that the search for room finds room.                                    *)
(***************************************************************************)
EXTENDS Percpu, FiniteSetTheorems, WellFoundedInduction, TLAPS

LEMMA LeastNat ==
    ASSUME NEW S \in SUBSET Nat, S # {}
    PROVE  \E m \in S : \A k \in S : m <= k
<1> DEFINE R == {ss \in Nat \X Nat : ss[1] < ss[2]}
<1>1. IsWellFoundedOn(R, Nat)
  BY NatLessThanWellFounded DEF OpToRel
<1> HIDE DEF R
<1>2. PICK m \in S : \A y \in S : ~ (<<y, m>> \in R)
  BY <1>1, WFMin
<1>3. \A y \in S : ~ (y < m)
  BY <1>2 DEF R
<1> QED BY <1>3

(* A set that holds a and the successor of each of its members below n holds a .. n. *)
LEMMA UpTo ==
    ASSUME NEW a \in Nat, NEW n \in Nat, NEW S, a \in S, \A i \in a + 1 .. n : i - 1 \in S => i \in S
    PROVE  a .. n \subseteq S
<1> SUFFICES ASSUME a .. n \ S # {} PROVE FALSE
  OBVIOUS
<1>1. PICK m \in a .. n \ S : \A k \in a .. n \ S : m <= k
  <2>1. a .. n \ S \in SUBSET Nat
    OBVIOUS
  <2> QED BY <2>1, LeastNat
<1>2. m # a
  BY <1>1
<1>3. m \in a + 1 .. n /\ m - 1 \in a .. n
  BY <1>1, <1>2
<1>4. m - 1 \in S
  BY <1>1, <1>3
<1> QED BY <1>1, <1>3, <1>4

LEMMA MinNat ==
    ASSUME NEW S \in SUBSET Nat, S # {}
    PROVE  Min(S) \in S /\ \A y \in S : Min(S) <= y
BY LeastNat DEF Min

(* The greatest element of a set of numbers *)
LEMMA MaxIs ==
    ASSUME NEW S \in SUBSET Int, NEW m \in S, \A y \in S : y <= m
    PROVE  Max(S) = m
<1>1. Max(S) \in S /\ \A y \in S : Max(S) >= y
  <2>1. \E x \in S : \A y \in S : x >= y
    OBVIOUS
  <2> QED BY <2>1, Zenon DEF Max
<1>2. PICK x : x = Max(S)
  OBVIOUS
<1>3. x \in S /\ x >= m
  BY <1>1, <1>2
<1>4. x \in Int /\ m \in Int /\ x <= m
  BY <1>3
<1>5. x = m
  BY <1>3, <1>4
<1> QED BY <1>2, <1>5

LEMMA Sizes ==
    /\ Blk \in Nat /\ Blk >= 1
    /\ PCPU_MIN_ALLOC_SIZE \in Nat /\ PCPU_MIN_ALLOC_SIZE >= 1
    /\ pcpu_unit_pages \in Nat /\ pcpu_unit_pages >= 1
    /\ MaxChunks \in Nat /\ MaxChunks >= 1
    /\ StaticBits \in Nat /\ DynBits \in Nat /\ DynBits >= 1
    /\ PCPU_SLOT_BASE_SHIFT \in Nat
BY PercpuAssumption DEF Blk

-----------------------------------------------------------------------------
(* Bitmaps *)

(* Bits s .. e - 1 are clear. *)
Clear(map, s, e) == \A x \in s .. e - 1 : x \notin map
AllSet(map, s, e) == \A x \in s .. e - 1 : x \in map

LEMMA FindBit ==
    ASSUME NEW map \in SUBSET Nat, NEW size \in Nat, NEW from \in Nat
    PROVE  LET r == find_next_bit(map, size, from)
           IN  /\ r \in Nat /\ r <= size
               /\ r < size => from <= r /\ r \in map
               /\ Clear(map, from, r)
<1> DEFINE S == {b \in map : from <= b /\ b < size} \cup {size}
<1>1. S \in SUBSET Nat /\ S # {}
  OBVIOUS
<1>2. Min(S) \in S /\ \A y \in S : Min(S) <= y
  BY <1>1, MinNat
<1>3. find_next_bit(map, size, from) = Min(S)
  BY DEF find_next_bit
<1>4. PICK r : r = Min(S)
  OBVIOUS
<1>5. r \in Nat /\ r <= size /\ (r < size => from <= r /\ r \in map)
  BY <1>1, <1>2, <1>4
<1>6. ASSUME NEW x \in from .. r - 1 PROVE x \notin map
  <2>1. x \in Nat /\ from <= x /\ x < r /\ x < size
    BY <1>5
  <2>2. SUFFICES ASSUME x \in map PROVE FALSE
    OBVIOUS
  <2>3. x \in S
    BY <2>1, <2>2
  <2> QED BY <1>2, <1>4, <1>5, <2>1, <2>3
<1> QED BY <1>3, <1>4, <1>5, <1>6 DEF Clear

LEMMA FindZero ==
    ASSUME NEW map, NEW size \in Nat, NEW from \in Nat
    PROVE  LET r == find_next_zero_bit(map, size, from)
           IN  /\ r \in Nat /\ r <= size
               /\ r < size => from <= r /\ r \notin map
               /\ AllSet(map, from, r)
<1> DEFINE S == {b \in from .. size - 1 : b \notin map} \cup {size}
<1>1. S \in SUBSET Nat /\ S # {}
  OBVIOUS
<1>2. Min(S) \in S /\ \A y \in S : Min(S) <= y
  BY <1>1, MinNat
<1>3. find_next_zero_bit(map, size, from) = Min(S)
  BY DEF find_next_zero_bit
<1>4. PICK r : r = Min(S)
  OBVIOUS
<1>5. r \in Nat /\ r <= size /\ (r < size => from <= r /\ r \notin map)
  BY <1>1, <1>2, <1>4
<1>6. ASSUME NEW x \in from .. r - 1 PROVE x \in map
  <2>1. x \in Nat /\ from <= x /\ x < r /\ x < size
    BY <1>5
  <2>2. SUFFICES ASSUME x \notin map PROVE FALSE
    OBVIOUS
  <2>3. x \in S
    BY <2>1, <2>2
  <2> QED BY <1>2, <1>4, <1>5, <2>1, <2>3
<1> QED BY <1>3, <1>4, <1>5, <1>6 DEF AllSet

(* What pcpu_next_unpop finds: a maximal run of clear bits, or that there is none *)
IsRun(map, from, end, rs, re) ==
    /\ from <= rs /\ rs < re /\ re <= end
    /\ AllSet(map, from, rs) /\ Clear(map, rs, re) /\ (re = end \/ re \in map)

LEMMA NextUnpop ==
    ASSUME NEW map \in SUBSET Nat, NEW end \in Nat, NEW from \in Nat
    PROVE  LET r == pcpu_next_unpop(map, from, end)
           IN  /\ r[1] \in Nat /\ r[2] \in Nat /\ r[2] <= end
               /\ \/ r[1] < r[2] /\ IsRun(map, from, end, r[1], r[2])
                  \/ r[1] = end /\ r[2] = end /\ AllSet(map, from, end)
<1> DEFINE rs == find_next_zero_bit(map, end, from)
           re == find_next_bit(map, end, rs + 1)
<1>1. /\ rs \in Nat /\ rs <= end
      /\ rs < end => from <= rs /\ rs \notin map
      /\ AllSet(map, from, rs)
  BY FindZero
<1>2. /\ re \in Nat /\ re <= end
      /\ re < end => rs + 1 <= re /\ re \in map
      /\ Clear(map, rs + 1, re)
  <2> HIDE DEF rs
  <2>1. rs + 1 \in Nat
    BY <1>1
  <2> QED BY <2>1, FindBit
<1>3. pcpu_next_unpop(map, from, end) = <<rs, re>>
  BY DEF pcpu_next_unpop
<1> HIDE DEF rs, re
<1>4. CASE rs = end
  <2>1. re = end
    BY <1>2, <1>4
  <2> QED BY <1>1, <1>3, <1>4, <2>1
<1>5. CASE rs # end
  <2>1. rs < re
    BY <1>1, <1>2, <1>5
  <2>2. Clear(map, rs, re)
    BY <1>1, <1>2, <1>5 DEF Clear
  <2>3. IsRun(map, from, end, rs, re)
    BY <1>1, <1>2, <1>5, <2>1, <2>2 DEF IsRun
  <2> QED BY <1>1, <1>2, <1>3, <2>1, <2>3
<1> QED BY <1>4, <1>5


-----------------------------------------------------------------------------
(* Division, blocks and alignment *)

LEMMA DivMod ==
    ASSUME NEW p \in Nat, NEW m \in Nat \ {0}
    PROVE  /\ p \div m \in Nat /\ p % m \in 0 .. m - 1
           /\ p = (p \div m) * m + (p % m)
OBVIOUS

LEMMA MulLess ==
    ASSUME NEW d \in Int, NEW e \in Int, NEW m \in Nat, d < e
    PROVE  d * m \in Int /\ e * m \in Int /\ d * m + m <= e * m
<1>1. e - d - 1 \in Nat
  OBVIOUS
<1>2. (e - d - 1) * m \in Nat
  BY <1>1
<1>3. (e - d - 1) * m = e * m - d * m - m
  OBVIOUS
<1>4. d * m \in Int /\ e * m \in Int
  OBVIOUS
<1> HIDE <1>1
<1> QED BY <1>2, <1>3, <1>4

LEMMA MulLeq ==
    ASSUME NEW d \in Int, NEW e \in Int, NEW m \in Nat, d <= e
    PROVE  d * m \in Int /\ e * m \in Int /\ d * m <= e * m
<1>1. CASE d = e
  BY <1>1
<1>2. CASE d < e
  BY <1>2, MulLess
<1> QED BY <1>1, <1>2

LEMMA DivModUnique ==
    ASSUME NEW m \in Nat \ {0}, NEW d \in Int, NEW e \in Int, NEW r \in 0 .. m - 1,
           NEW s \in 0 .. m - 1, d * m + r = e * m + s
    PROVE  d = e /\ r = s
<1>1. CASE d < e
  BY <1>1, MulLess
<1>2. CASE e < d
  BY <1>2, MulLess
<1>3. CASE d = e
  BY <1>3
<1> QED BY <1>1, <1>2, <1>3

LEMMA DivModIs ==
    ASSUME NEW m \in Nat \ {0}, NEW d \in Nat, NEW r \in 0 .. m - 1
    PROVE  (d * m + r) \div m = d /\ (d * m + r) % m = r
<1> DEFINE p == d * m + r
<1>1. p \in Nat
  OBVIOUS
<1> HIDE DEF p
<1>2. /\ p \div m \in Nat /\ p % m \in 0 .. m - 1
      /\ p = (p \div m) * m + (p % m)
  BY <1>1, DivMod
<1>3. p = d * m + r
  BY DEF p
<1>4. p \div m = d /\ p % m = r
  BY <1>2, <1>3, DivModUnique
<1> QED BY <1>4 DEF p

(* Where the bits of a chunk are: the block of each, and the place in the block *)
LEMMA InBlock ==
    ASSUME NEW off \in Nat
    PROVE  /\ off \div Blk \in Nat /\ off % Blk \in 0 .. Blk - 1
           /\ off = (off \div Blk) * Blk + (off % Blk)
<1>1. Blk \in Nat \ {0}
  BY Sizes
<1> QED BY <1>1, DivMod

LEMMA BlockIs ==
    ASSUME NEW i \in Nat, NEW x \in 0 .. Blk - 1
    PROVE  /\ i * Blk \in Nat /\ i * Blk + x \in Nat
           /\ (i * Blk + x) \div Blk = i /\ (i * Blk + x) % Blk = x
<1>1. Blk \in Nat \ {0}
  BY Sizes
<1>2. i * Blk \in Nat
  BY <1>1
<1> QED BY <1>1, <1>2, DivModIs

(* Blocks follow each other. *)
LEMMA BlockOrder ==
    ASSUME NEW i \in Int, NEW j \in Int
    PROVE  /\ i * Blk \in Int /\ (i + 1) * Blk = i * Blk + Blk
           /\ i < j => i * Blk + Blk <= j * Blk
           /\ i <= j => i * Blk <= j * Blk
           /\ i >= 0 => i * Blk \in Nat
<1>1. Blk \in Nat
  BY Sizes
<1>2. i < j => i * Blk + Blk <= j * Blk
  BY <1>1, MulLess
<1>3. i <= j => i * Blk <= j * Blk
  BY <1>1, MulLeq
<1> QED BY <1>1, <1>2, <1>3

(* Rounding up *)
LEMMA AlignUpFacts ==
    ASSUME NEW x \in Nat, NEW a \in Nat \ {0}
    PROVE  /\ AlignUp(x, a) \in Nat /\ AlignUp(x, a) % a = 0
           /\ x <= AlignUp(x, a) /\ AlignUp(x, a) <= x + a - 1
           /\ AlignUp(x, a) = ((x + a - 1) \div a) * a /\ (x + a - 1) \div a \in Nat
           /\ AlignUp(x, a) \div a = (x + a - 1) \div a
<1>1. x + a - 1 \in Nat
  OBVIOUS
<1>2. PICK q, r : q = (x + a - 1) \div a /\ r = (x + a - 1) % a
  OBVIOUS
<1>3. q \in Nat /\ r \in 0 .. a - 1 /\ x + a - 1 = q * a + r
  BY <1>1, <1>2, DivMod
<1>4. 0 \in 0 .. a - 1
  OBVIOUS
<1>5. (q * a + 0) % a = 0 /\ (q * a + 0) \div a = q
  BY <1>3, <1>4, DivModIs
<1>6. q * a \in Nat /\ q * a + 0 = q * a
  BY <1>3
<1>7. AlignUp(x, a) = q * a
  BY <1>2 DEF AlignUp
<1>8. x <= q * a /\ q * a <= x + a - 1
  BY <1>3, <1>6
<1> QED BY <1>2, <1>3, <1>5, <1>6, <1>7, <1>8

LEMMA Divides ==
    ASSUME NEW x \in Nat, NEW a \in Nat \ {0}, x % a = 0
    PROVE  x \div a \in Nat /\ x = (x \div a) * a
<1>1. PICK q, r : q = x \div a /\ r = x % a
  OBVIOUS
<1>2. q \in Nat /\ x = q * a + r /\ r = 0
  BY <1>1, DivMod
<1>3. x = q * a
  BY <1>2
<1> QED BY <1>1, <1>2, <1>3

LEMMA Multiple ==
    ASSUME NEW q \in Nat, NEW a \in Nat \ {0}
    PROVE  q * a \in Nat /\ (q * a) % a = 0 /\ (q * a) \div a = q
<1>1. 0 \in 0 .. a - 1 /\ q * a \in Nat /\ q * a + 0 = q * a
  OBVIOUS
<1>2. (q * a + 0) \div a = q /\ (q * a + 0) % a = 0
  BY <1>1, DivModIs
<1> QED BY <1>1, <1>2

(* Alignments divide the block, so that rounding up does not leave it. *)
LEMMA AlignInBlock ==
    ASSUME NEW a \in Nat \ {0}, Blk % a = 0, NEW x \in 0 .. Blk, NEW i \in Nat
    PROVE  /\ AlignUp(x, a) \in Nat /\ x <= AlignUp(x, a) /\ AlignUp(x, a) <= Blk
           /\ i * Blk + AlignUp(x, a) \in Nat
           /\ (i * Blk + AlignUp(x, a)) % a = 0
<1>0. Blk \in Nat /\ x \in Nat
  BY Sizes
<1>1. PICK q : q = (x + a - 1) \div a
  OBVIOUS
<1>2. PICK y : y = AlignUp(x, a)
  OBVIOUS
<1>3. /\ y \in Nat /\ x <= y /\ y <= x + a - 1
      /\ y = q * a /\ q \in Nat
  BY <1>0, <1>1, <1>2, AlignUpFacts
<1>4. PICK B \in Nat : Blk = B * a
  BY <1>0, Divides
<1>5. y <= Blk
  <2>1. SUFFICES ASSUME B < q PROVE FALSE
    <3>1. ~ (B < q) => q <= B
      BY <1>3, <1>4
    <3> QED BY <1>3, <1>4, <3>1, MulLeq
  <2>2. B * a + a <= q * a
    BY <1>3, <1>4, <2>1, MulLess
  <2> QED BY <1>0, <1>3, <1>4, <2>2
<1>6. i * Blk + y = (i * B + q) * a /\ i * B + q \in Nat
  BY <1>3, <1>4
<1>7. (i * Blk + y) % a = 0 /\ i * Blk + y \in Nat
  BY <1>6, Multiple
<1> QED BY <1>2, <1>3, <1>5, <1>7

(* A request in bits: at least one, no more than a chunk has; its alignment divides the
   block. *)
LEMMA Request ==
    ASSUME NEW req \in Requests
    PROVE  /\ ReqBits(req) \in 1 .. pcpu_unit_pages * Blk
           /\ ReqAlign(req) \in Nat \ {0} /\ Blk % ReqAlign(req) = 0
<1> DEFINE M == PCPU_MIN_ALLOC_SIZE
<1>1. M \in Nat \ {0} /\ Blk \in Nat \ {0} /\ pcpu_unit_pages \in Nat
  BY Sizes
<1>2. req \in [size : 1 .. pcpu_unit_size, align : 1 .. PAGE_SIZE]
  BY PercpuAssumption
<1>3. req.align > M => req.align % M = 0 /\ PAGE_SIZE % req.align = 0
  BY PercpuAssumption
<1>4. PAGE_SIZE = Blk * M /\ pcpu_unit_size = pcpu_unit_pages * (Blk * M)
  BY DEF PAGE_SIZE, pcpu_unit_size
<1>5. PICK U : U = pcpu_unit_pages * Blk
  OBVIOUS
<1>6. U \in Nat /\ pcpu_unit_size = U * M /\ U * M \in Nat
  BY <1>1, <1>4, <1>5
<1>7. PICK sz, al : sz = req.size /\ al = req.align
  OBVIOUS
<1>8. sz \in Nat /\ sz >= 1 /\ sz <= U * M
  <2>1. sz \in 1 .. pcpu_unit_size
    BY <1>2, <1>7
  <2> QED BY <1>6, <2>1
<1>9. al \in Nat /\ al >= 1 /\ al \in Int /\ M \in Int
  <2>1. al \in 1 .. PAGE_SIZE
    BY <1>2, <1>7
  <2>2. PAGE_SIZE \in Nat
    BY <1>1, <1>4
  <2> QED BY <1>1, <2>1, <2>2
<1> HIDE DEF M
<1>10. ReqBits(req) \in 1 .. U
  <2>1. PICK q : q = (sz + M - 1) \div M
    OBVIOUS
  <2>2. AlignUp(sz, M) \div M = q /\ AlignUp(sz, M) = q * M /\ q \in Nat
    BY <1>1, <1>8, <2>1, AlignUpFacts
  <2>3. sz <= q * M /\ q * M <= sz + M - 1
    BY <1>1, <1>8, <2>2, AlignUpFacts
  <2>4. ReqBits(req) = q
    BY <1>7, <2>2 DEF ReqBits, M
  <2>5. q # 0
    BY <1>1, <1>8, <2>3
  <2>6. ~ (U < q)
    <3>1. ASSUME U < q PROVE U * M + M <= q * M
      BY <1>1, <1>6, <2>2, <3>1, MulLess
    <3> QED BY <1>1, <1>6, <1>8, <2>2, <2>3, <3>1
  <2> QED BY <1>6, <2>2, <2>4, <2>5, <2>6
<1>11. ReqAlign(req) \in Nat \ {0} /\ Blk % ReqAlign(req) = 0
  <2>1. CASE al <= M
    <3>1. Max({al, M}) = M
      BY <1>9, <2>1, MaxIs
    <3>2. M \div M = 1
      BY <1>1
    <3>3. ReqAlign(req) = 1
      BY <1>7, <3>1, <3>2 DEF ReqAlign, M
    <3>4. Blk % 1 = 0
      BY <1>1
    <3> QED BY <3>3, <3>4
  <2>2. CASE al > M
    <3>1. Max({al, M}) = al
      BY <1>9, <2>2, MaxIs
    <3>2. PICK A : A = al \div M
      OBVIOUS
    <3>3. A \in Nat /\ al = A * M
      BY <1>1, <1>3, <1>7, <1>9, <2>2, <3>2, Divides
    <3>4. ReqAlign(req) = A
      BY <1>7, <3>1, <3>2 DEF ReqAlign, M
    <3>5. A # 0
      BY <1>9, <3>3, <1>1
    <3>6. PICK q \in Nat : Blk * M = q * al
      <4>1. Blk * M \in Nat /\ (Blk * M) % al = 0 /\ al \in Nat \ {0}
        BY <1>1, <1>3, <1>4, <1>7, <1>9, <2>2
      <4>2. PICK z : z = Blk * M
        OBVIOUS
      <4>3. z \div al \in Nat /\ z = (z \div al) * al
        BY <4>1, <4>2, Divides
      <4> QED BY <4>2, <4>3
    <3>7. Blk * M = (q * A) * M
      BY <1>1, <3>3, <3>6
    <3>8. Blk = q * A
      <4>1. q * A \in Nat
        BY <3>3
      <4>2. PICK z \in Nat : z = q * A
        BY <4>1
      <4>3. z * M = Blk * M
        BY <3>7, <4>2
      <4>4. ~ (z < Blk) /\ ~ (Blk < z)
        <5>1. ASSUME z < Blk PROVE FALSE
          <6>1. z * M + M <= Blk * M
            BY <1>1, <5>1, MulLess
          <6>2. z * M \in Int
            BY <1>1
          <6> QED BY <1>1, <4>3, <6>1, <6>2
        <5>2. ASSUME Blk < z PROVE FALSE
          <6>1. Blk * M + M <= z * M
            BY <1>1, <5>2, MulLess
          <6>2. z * M \in Int
            BY <1>1
          <6> QED BY <1>1, <4>3, <6>1, <6>2
        <5> QED BY <5>1, <5>2
      <4> QED BY <1>1, <4>2, <4>4
    <3>9. Blk % A = 0
      <4>1. (q * A) % A = 0
        BY <3>3, <3>5, <3>6, Multiple
      <4> QED BY <3>8, <4>1
    <3> QED BY <3>3, <3>4, <3>5, <3>9
  <2> QED BY <1>9, <2>1, <2>2
<1> QED BY <1>5, <1>10, <1>11

-----------------------------------------------------------------------------
(* The hints of a block *)

BlockRec == [first_free : 0 .. Blk, left_free : 0 .. Blk, right_free : 0 .. Blk,
             contig_hint : 0 .. Blk, contig_hint_start : 0 .. Blk]
HintOk(b, map) ==
    /\ b.contig_hint_start + b.contig_hint <= Blk
    /\ Clear(map, b.contig_hint_start, b.contig_hint_start + b.contig_hint)
LongestOk(b, map) == \A s, e \in 0 .. Blk : Clear(map, s, e) => e - s <= b.contig_hint
LeftOk(b, map) == Clear(map, 0, b.left_free) /\ (b.left_free = Blk \/ b.left_free \in map)
RightOk(b, map) ==
    Clear(map, Blk - b.right_free, Blk) /\ (b.right_free = Blk \/ Blk - b.right_free - 1 \in map)
FirstOk(b, map) == AllSet(map, 0, b.first_free)

(* The hints of b are those of the bitmap. *)
BlockInv(b, map) ==
    /\ b \in BlockRec
    /\ HintOk(b, map) /\ LongestOk(b, map) /\ LeftOk(b, map) /\ RightOk(b, map) /\ FirstOk(b, map)

LEMMA UpdateFields ==
    ASSUME NEW b \in BlockRec, NEW start \in 0 .. Blk, NEW end \in 0 .. Blk, start < end
    PROVE  LET u == pcpu_block_update(b, start, end)
           IN  /\ u \in BlockRec
               /\ u.first_free <= b.first_free /\ u.first_free <= start
               /\ u.left_free = IF start = 0 THEN end ELSE b.left_free
               /\ u.right_free = IF end = Blk THEN Blk - start ELSE b.right_free
               /\ u.contig_hint >= b.contig_hint /\ u.contig_hint >= end - start
               /\ \/ u.contig_hint = end - start /\ u.contig_hint_start = start
                  \/ /\ u.contig_hint = b.contig_hint
                     /\ u.contig_hint_start = b.contig_hint_start
<1>0. Blk \in Nat
  BY Sizes
<1>1. PICK ff, lf, rf, h, hs : /\ b.first_free = ff /\ b.left_free = lf /\ b.right_free = rf
                               /\ b.contig_hint = h /\ b.contig_hint_start = hs
  OBVIOUS
<1>2. {ff, lf, rf, h, hs} \subseteq 0 .. Blk
  BY <1>1 DEF BlockRec
<1>3. PICK ff2, lf2, rf2, h2, hs2 :
          /\ ff2 = (IF ff < start THEN ff ELSE start)
          /\ lf2 = (IF start = 0 THEN end - start ELSE lf)
          /\ rf2 = (IF end = Blk THEN end - start ELSE rf)
          /\ h2 = (IF end - start > h THEN end - start ELSE h)
          /\ hs2 = (IF end - start > h \/ (end - start = h /\ BetterStart(start, hs))
                    THEN start ELSE hs)
  OBVIOUS
<1>4. pcpu_block_update(b, start, end) =
          [first_free |-> ff2, left_free |-> lf2, right_free |-> rf2,
           contig_hint |-> h2, contig_hint_start |-> hs2]
  BY <1>1, <1>3 DEF pcpu_block_update, Lower
<1>5. {ff2, lf2, rf2, h2, hs2} \subseteq 0 .. Blk
  BY <1>0, <1>2, <1>3
<1>6. /\ ff2 <= ff /\ ff2 <= start
      /\ lf2 = IF start = 0 THEN end ELSE lf
      /\ rf2 = IF end = Blk THEN Blk - start ELSE rf
      /\ h2 >= h /\ h2 >= end - start
      /\ (h2 = end - start /\ hs2 = start) \/ (h2 = h /\ hs2 = hs)
  BY <1>0, <1>2, <1>3
<1>7. PICK u : u = pcpu_block_update(b, start, end)
  OBVIOUS
<1>8. u \in BlockRec /\ u.first_free = ff2 /\ u.left_free = lf2 /\ u.right_free = rf2
      /\ u.contig_hint = h2 /\ u.contig_hint_start = hs2
  BY <1>4, <1>5, <1>7 DEF BlockRec
<1>9. /\ u \in BlockRec
      /\ u.first_free <= b.first_free /\ u.first_free <= start
      /\ u.left_free = IF start = 0 THEN end ELSE b.left_free
      /\ u.right_free = IF end = Blk THEN Blk - start ELSE b.right_free
      /\ u.contig_hint >= b.contig_hint /\ u.contig_hint >= end - start
      /\ \/ u.contig_hint = end - start /\ u.contig_hint_start = start
         \/ u.contig_hint = b.contig_hint /\ u.contig_hint_start = b.contig_hint_start
  BY <1>1, <1>6, <1>8
<1> QED BY <1>7, <1>9

(* pcpu_block_refresh_hint, when it has looked at the bits below x.rs *)
RefreshInv(map, x, k) ==
    /\ x.block \in BlockRec /\ x.rs \in 0 .. Blk + 1
    /\ HintOk(x.block, map) /\ FirstOk(x.block, map)
    /\ x.rs = 0 \/ x.rs = Blk + 1 \/ x.rs - 1 \in map
    /\ \A s, e \in 0 .. Blk : Clear(map, s, e) /\ s < x.rs => e - s <= x.block.contig_hint
    /\ IF x.rs = 0 THEN x.block.left_free = 0 ELSE LeftOk(x.block, map)
    /\ IF x.rs <= Blk THEN x.block.right_free = 0 ELSE RightOk(x.block, map)
    /\ x.rs >= k \/ AllSet(map, x.rs, Blk)

LEMMA RefreshRound ==
    ASSUME NEW map \in SUBSET (0 .. Blk - 1), NEW x, NEW k \in Nat, RefreshInv(map, x, k)
    PROVE  RefreshInv(map, RefreshStep(map, x), k + 1)
<1>0. Blk \in Nat /\ Blk >= 1 /\ map \in SUBSET Nat
  BY Sizes
<1>1. PICK b, rs : b = x.block /\ rs = x.rs
  OBVIOUS
<1>2. b \in BlockRec /\ rs \in 0 .. Blk + 1
  BY <1>1 DEF RefreshInv
<1>3. PICK r : r = pcpu_next_unpop(map, rs, Blk)
  OBVIOUS
<1>4. /\ r[1] \in Nat /\ r[2] \in Nat /\ r[2] <= Blk
      /\ \/ r[1] < r[2] /\ IsRun(map, rs, Blk, r[1], r[2])
         \/ r[1] = Blk /\ r[2] = Blk /\ AllSet(map, rs, Blk)
  BY <1>0, <1>2, <1>3, NextUnpop
<1>5. CASE ~ (r[1] < r[2])
  <2>1. RefreshStep(map, x) = x
    BY <1>1, <1>3, <1>5 DEF RefreshStep
  <2>2. AllSet(map, x.rs, Blk)
    BY <1>1, <1>4, <1>5
  <2>3. RefreshInv(map, x, k + 1)
    BY <2>2 DEF RefreshInv
  <2> QED BY <2>1, <2>3
<1>6. CASE r[1] < r[2]
  <2>1. PICK start, end : start = r[1] /\ end = r[2]
    OBVIOUS
  <2>2. start \in 0 .. Blk /\ end \in 0 .. Blk /\ start < end
    BY <1>0, <1>4, <1>6, <2>1
  <2>3. /\ rs <= start /\ AllSet(map, rs, start) /\ Clear(map, start, end)
        /\ end = Blk \/ end \in map
    BY <1>4, <1>6, <2>1 DEF IsRun
  <2>4. PICK u : u = pcpu_block_update(b, start, end)
    OBVIOUS
  <2>5. /\ u \in BlockRec
        /\ u.first_free <= b.first_free /\ u.first_free <= start
        /\ u.left_free = IF start = 0 THEN end ELSE b.left_free
        /\ u.right_free = IF end = Blk THEN Blk - start ELSE b.right_free
        /\ u.contig_hint >= b.contig_hint /\ u.contig_hint >= end - start
        /\ \/ u.contig_hint = end - start /\ u.contig_hint_start = start
           \/ u.contig_hint = b.contig_hint /\ u.contig_hint_start = b.contig_hint_start
    BY <1>2, <2>2, <2>4, UpdateFields
  <2>6. PICK y : y = RefreshStep(map, x)
    OBVIOUS
  <2>7. y = [block |-> u, rs |-> end + 1]
    BY <1>1, <1>3, <1>6, <2>1, <2>4, <2>6 DEF RefreshStep
  <2>8. y.block = u /\ y.rs = end + 1 /\ y.rs \in 0 .. Blk + 1
    BY <1>0, <2>2, <2>7
  <2>20. b.contig_hint \in 0 .. Blk /\ b.contig_hint_start \in 0 .. Blk /\ b.left_free \in 0 .. Blk
         /\ b.right_free \in 0 .. Blk /\ b.first_free \in 0 .. Blk /\ u.contig_hint \in 0 .. Blk
         /\ u.contig_hint_start \in 0 .. Blk /\ u.first_free \in 0 .. Blk
    BY <1>2, <2>5 DEF BlockRec
  <2>9. HintOk(u, map)
    <3>1. HintOk(b, map)
      BY <1>1 DEF RefreshInv
    <3>2. CASE u.contig_hint = end - start /\ u.contig_hint_start = start
      <4>1. start + (end - start) = end
        BY <2>2
      <4> QED BY <1>0, <2>2, <2>3, <3>2, <4>1 DEF HintOk
    <3>3. CASE u.contig_hint = b.contig_hint /\ u.contig_hint_start = b.contig_hint_start
      BY <3>1, <3>3 DEF HintOk
    <3> QED BY <2>5, <3>2, <3>3
  <2>10. FirstOk(u, map)
    <3>1. FirstOk(b, map)
      BY <1>1 DEF RefreshInv
    <3> QED BY <2>5, <2>20, <3>1 DEF FirstOk, AllSet
  <2>11. y.rs = Blk + 1 \/ y.rs - 1 \in map
    BY <1>0, <2>2, <2>3, <2>8
  <2>12. ASSUME NEW s \in 0 .. Blk, NEW e \in 0 .. Blk, Clear(map, s, e), s < y.rs
         PROVE  e - s <= u.contig_hint
    <3>1. CASE s < rs
      <4>1. e - s <= b.contig_hint
        BY <1>1, <2>12, <3>1 DEF RefreshInv
      <4> QED BY <1>0, <2>5, <2>20, <4>1
    <3>2. CASE ~ (s < rs) /\ e > s
      <4>1. s \notin map
        BY <1>0, <2>12, <3>2 DEF Clear
      <4>2. s >= start
        BY <1>0, <1>2, <2>2, <2>3, <3>2, <4>1 DEF AllSet
      <4>3. s # end \/ end = Blk
        BY <2>3, <4>1
      <4>4. s < end
        BY <1>0, <2>2, <2>8, <2>12, <3>2, <4>3
      <4>5. e <= end
        <5>1. SUFFICES ASSUME end < e, end \in map PROVE FALSE
          BY <1>0, <2>2, <2>3
        <5>2. end \in s .. e - 1
          BY <1>0, <2>2, <4>4, <5>1
        <5> QED BY <2>12, <5>1, <5>2 DEF Clear
      <4> QED BY <1>0, <2>2, <2>5, <2>20, <4>2, <4>5
    <3>3. CASE e <= s
      BY <1>0, <2>20, <3>3
    <3> QED BY <1>0, <1>2, <3>1, <3>2, <3>3
  <2>13. LeftOk(u, map)
    <3>1. CASE start = 0
      <4>1. u.left_free = end
        BY <2>5, <3>1
      <4> QED BY <2>3, <3>1, <4>1 DEF LeftOk
    <3>2. CASE start # 0 /\ rs = 0
      <4>1. u.left_free = b.left_free /\ b.left_free = 0
        BY <1>1, <2>5, <3>2 DEF RefreshInv
      <4>2. 0 \in map
        BY <2>2, <2>3, <3>2 DEF AllSet
      <4> QED BY <1>0, <4>1, <4>2 DEF LeftOk, Clear
    <3>3. CASE start # 0 /\ rs # 0
      <4>1. u.left_free = b.left_free /\ LeftOk(b, map)
        BY <1>1, <2>5, <3>3 DEF RefreshInv
      <4> QED BY <4>1 DEF LeftOk
    <3> QED BY <3>1, <3>2, <3>3
  <2>14. end # Blk => u.right_free = 0
    <3>1. rs <= Blk
      BY <1>0, <1>2, <2>2, <2>3
    <3>2. b.right_free = 0
      BY <1>1, <3>1 DEF RefreshInv
    <3> QED BY <2>5, <3>2
  <2>15. end = Blk => RightOk(u, map)
    <3> SUFFICES ASSUME end = Blk PROVE RightOk(u, map)
      OBVIOUS
    <3>1. u.right_free = Blk - start /\ Blk - (Blk - start) = start
      BY <1>0, <2>2, <2>5
    <3>2. start = 0 \/ start - 1 \in map
      <4>1. CASE rs < start
        BY <1>0, <1>2, <2>2, <2>3, <4>1 DEF AllSet
      <4>2. CASE rs = start
        <5>1. rs = 0 \/ rs - 1 \in map
          <6>1. rs = 0 \/ rs = Blk + 1 \/ rs - 1 \in map
            BY <1>1 DEF RefreshInv
          <6> QED BY <1>0, <2>2, <4>2, <6>1
        <5> QED BY <4>2, <5>1
      <4> QED BY <1>0, <1>2, <2>2, <2>3, <4>1, <4>2
    <3>3. start = 0 => u.right_free = Blk
      BY <1>0, <3>1
    <3> QED BY <2>3, <3>1, <3>2, <3>3 DEF RightOk
  <2>16. y.rs # 0 /\ (y.rs <= Blk => end # Blk) /\ (~ (y.rs <= Blk) => end = Blk)
    BY <1>0, <2>2, <2>8
  <2>17. y.rs >= k + 1 \/ AllSet(map, y.rs, Blk)
    <3>1. CASE rs >= k
      BY <1>0, <1>2, <2>2, <2>3, <2>8, <3>1
    <3>2. CASE ~ (rs >= k)
      <4>1. AllSet(map, rs, Blk)
        BY <1>1, <3>2 DEF RefreshInv
      <4> QED BY <1>0, <1>2, <2>2, <2>3, <2>8, <4>1 DEF AllSet
    <3> QED BY <3>1, <3>2
  <2>18. RefreshInv(map, y, k + 1)
    BY <2>5, <2>8, <2>9, <2>10, <2>11, <2>12, <2>13, <2>14, <2>15, <2>16, <2>17 DEF RefreshInv
  <2> QED BY <2>6, <2>18
<1> QED BY <1>5, <1>6

(* Computed anew, the hints are exact. *)
LEMMA Refresh ==
    ASSUME NEW map \in SUBSET (0 .. Blk - 1), NEW b \in BlockRec, FirstOk(b, map)
    PROVE  BlockInv(pcpu_block_refresh_hint(b, map), map)
<1>0. Blk \in Nat /\ Blk >= 1 /\ 0 + 1 = 1
  BY Sizes
<1> DEFINE v == [block |-> [b EXCEPT !.contig_hint = 0, !.left_free = 0, !.right_free = 0],
                 rs |-> b.first_free]
<1> DEFINE G(u, i) == RefreshStep(map, u)
           Def(f, m) == f = [i \in 0 .. m |-> IF i = 0 THEN v ELSE G(f[i - 1], i)]
           round == CHOOSE f : f = [i \in 0 .. Blk |-> IF i = 0 THEN v
                                               ELSE RefreshStep(map, f[i - 1])]
<1>1. \E f : Def(f, Blk)
  <2> DEFINE S == {m \in 0 .. Blk : \E f : Def(f, m)}
  <2> HIDE DEF G
  <2>1. 0 \in S
    <3> DEFINE f == [i \in 0 .. 0 |-> v]
    <3>1. Def(f, 0)
      BY <1>0
    <3> HIDE DEF Def
    <3> QED BY <1>0, <3>1
  <2>2. ASSUME NEW m \in 1 .. Blk, m - 1 \in S PROVE m \in S
    <3>1. PICK f : Def(f, m - 1)
      BY <2>2
    <3> DEFINE g == [i \in 0 .. m |-> IF i = m THEN (IF m = 0 THEN v ELSE G(f[m - 1], m)) ELSE f[i]]
    <3>2. ASSUME NEW i \in 0 .. m PROVE g[i] = IF i = 0 THEN v ELSE G(g[i - 1], i)
      <4>1. CASE i = m
        <5>1. g[i - 1] = f[m - 1]
          BY <1>0, <4>1
        <5> QED BY <4>1, <5>1
      <4>2. CASE i # m /\ i # 0
        <5>1. i \in 0 .. m - 1 /\ g[i] = f[i] /\ g[i - 1] = f[i - 1]
          BY <1>0, <4>2
        <5> QED BY <3>1, <4>2, <5>1
      <4>3. CASE i # m /\ i = 0
        BY <1>0, <3>1, <4>3
      <4> QED BY <4>1, <4>2, <4>3
    <3>3. g = [i \in 0 .. m |-> g[i]]
      OBVIOUS
    <3> HIDE DEF g
    <3>4. Def(g, m)
      BY <3>2, <3>3
    <3> QED BY <3>4
  <2> HIDE DEF S
  <2>3. 0 .. Blk \subseteq S
    BY <1>0, <2>1, <2>2, UpTo
  <2>4. Blk \in S
    BY <1>0, <2>3
  <2> HIDE DEF Def
  <2> QED BY <2>4 DEF S
<1>2. Def(round, Blk)
  <2>1. \E f : f = [i \in 0 .. Blk |-> IF i = 0 THEN v
                                   ELSE RefreshStep(map, f[i - 1])]
    BY <1>1
  <2> QED BY <2>1
<1>3. pcpu_block_refresh_hint(b, map) = round[Blk].block
  BY DEF pcpu_block_refresh_hint
<1> HIDE DEF round
<1>4. /\ \A i \in 0 .. Blk : i = 0 => round[i] = v
      /\ \A i \in 0 .. Blk : ~ (i = 0) => round[i] = G(round[i - 1], i)
  <2> HIDE DEF G
  <2> QED BY <1>0, <1>2
<1>5. RefreshInv(map, v, 0)
  <2>1. v.block = [first_free |-> b.first_free, left_free |-> 0, right_free |-> 0,
                   contig_hint |-> 0, contig_hint_start |-> b.contig_hint_start]
        /\ v.rs = b.first_free
    BY DEF BlockRec
  <2>2. b.first_free \in 0 .. Blk /\ b.contig_hint_start \in 0 .. Blk
    BY DEF BlockRec
  <2> HIDE DEF v
  <2>3. PICK u : u = v.block
    OBVIOUS
  <2>4. u \in BlockRec /\ u.first_free = b.first_free /\ u.left_free = 0 /\ u.right_free = 0
        /\ u.contig_hint = 0 /\ u.contig_hint_start = b.contig_hint_start
    BY <1>0, <2>1, <2>2, <2>3 DEF BlockRec
  <2>5. HintOk(u, map)
    BY <1>0, <2>2, <2>4 DEF HintOk, Clear
  <2>6. FirstOk(u, map)
    BY <2>4 DEF FirstOk
  <2>7. v.rs = 0 \/ v.rs - 1 \in map
    BY <1>0, <2>1, <2>2 DEF FirstOk, AllSet
  <2>8. ASSUME NEW s \in 0 .. Blk, NEW e \in 0 .. Blk, Clear(map, s, e), s < v.rs
        PROVE  e - s <= u.contig_hint
    <3>1. s \in map
      BY <1>0, <2>1, <2>2, <2>8 DEF FirstOk, AllSet
    <3>2. ~ (s < e)
      BY <1>0, <2>8, <3>1 DEF Clear
    <3> QED BY <1>0, <2>4, <3>2
  <2>9. v.rs # 0 => LeftOk(u, map)
    <3>1. v.rs # 0 => 0 \in map
      BY <1>0, <2>1, <2>2 DEF FirstOk, AllSet
    <3> QED BY <2>4, <3>1 DEF LeftOk, Clear
  <2>10. v.rs \in 0 .. Blk
    BY <2>1, <2>2
  <2> QED BY <1>0, <2>3, <2>4, <2>5, <2>6, <2>7, <2>8, <2>9, <2>10 DEF RefreshInv
<1> HIDE DEF v, Def
<1> DEFINE S == {k \in 0 .. Blk : RefreshInv(map, round[k], k)}
<1>6. 0 \in S
  <2>1. round[0] = v
    BY <1>0, <1>4
  <2> QED BY <1>0, <1>5, <2>1
<1>7. ASSUME NEW k \in 0 + 1 .. Blk, k - 1 \in S PROVE k \in S
  <2>1. round[k] = RefreshStep(map, round[k - 1])
    BY <1>0, <1>4
  <2>2. RefreshInv(map, round[k - 1], k - 1) /\ k - 1 \in Nat
    BY <1>7
  <2>3. RefreshInv(map, RefreshStep(map, round[k - 1]), (k - 1) + 1)
    BY <2>2, RefreshRound
  <2>4. (k - 1) + 1 = k /\ k \in 0 .. Blk
    BY <1>0
  <2> QED BY <2>1, <2>3, <2>4
<1> HIDE DEF S
<1>8. 0 .. Blk \subseteq S
  BY <1>0, <1>6, <1>7, UpTo
<1>9. RefreshInv(map, round[Blk], Blk)
  BY <1>0, <1>8 DEF S
<1>10. PICK x, u : x = round[Blk] /\ u = x.block
  OBVIOUS
<1>11. RefreshInv(map, x, Blk)
  BY <1>9, <1>10
<1>12. u \in BlockRec /\ HintOk(u, map) /\ FirstOk(u, map) /\ x.rs \in 0 .. Blk + 1
  BY <1>10, <1>11 DEF RefreshInv
<1>13. AllSet(map, x.rs, Blk)
  <2>1. x.rs >= Blk \/ AllSet(map, x.rs, Blk)
    BY <1>11 DEF RefreshInv
  <2> QED BY <1>0, <1>12, <2>1 DEF AllSet
<1>14. LongestOk(u, map)
  <2> SUFFICES ASSUME NEW s \in 0 .. Blk, NEW e \in 0 .. Blk, Clear(map, s, e)
               PROVE  e - s <= u.contig_hint
    BY DEF LongestOk
  <2>1. CASE s < x.rs
    BY <1>10, <1>11, <2>1 DEF RefreshInv
  <2>2. CASE ~ (s < x.rs)
    <3>1. ~ (s < e)
      BY <1>0, <1>12, <1>13, <2>2 DEF Clear, AllSet
    <3>2. u.contig_hint \in 0 .. Blk
      BY <1>12 DEF BlockRec
    <3> QED BY <1>0, <3>1, <3>2
  <2> QED BY <2>1, <2>2
<1>15. LeftOk(u, map)
  <2>1. CASE x.rs # 0
    BY <1>10, <1>11, <2>1 DEF RefreshInv
  <2>2. CASE x.rs = 0
    <3>1. u.left_free = 0
      BY <1>10, <1>11, <2>2 DEF RefreshInv
    <3>2. 0 \in map
      BY <1>0, <1>13, <2>2 DEF AllSet
    <3> QED BY <3>1, <3>2 DEF LeftOk, Clear
  <2> QED BY <2>1, <2>2
<1>16. RightOk(u, map)
  <2>1. CASE x.rs <= Blk
    <3>1. u.right_free = 0
      BY <1>10, <1>11, <2>1 DEF RefreshInv
    <3>2. Blk - 1 \in map
      <4>1. CASE x.rs = Blk
        <5>1. x.rs - 1 \in map
          <6>1. x.rs = 0 \/ x.rs = Blk + 1 \/ x.rs - 1 \in map
            BY <1>11 DEF RefreshInv
          <6> QED BY <1>0, <4>1, <6>1
        <5> QED BY <4>1, <5>1
      <4>2. CASE x.rs # Blk
        BY <1>0, <1>12, <1>13, <2>1, <4>2 DEF AllSet
      <4> QED BY <4>1, <4>2
    <3>3. Blk - 0 - 1 = Blk - 1 /\ Blk - 0 = Blk
      BY <1>0
    <3> QED BY <1>0, <3>1, <3>2, <3>3 DEF RightOk, Clear
  <2>2. CASE ~ (x.rs <= Blk)
    BY <1>10, <1>11, <2>2 DEF RefreshInv
  <2> QED BY <2>1, <2>2
<1>17. BlockInv(u, map)
  BY <1>12, <1>14, <1>15, <1>16 DEF BlockInv
<1> QED BY <1>3, <1>10, <1>17

(* The bits s .. e - 1 of a block are taken, and the longest run is not the one they were
   in: what pcpu_block_update_hint_alloc subtracts keeps the hints exact. *)
Taken(b, u, old, map, s, e) ==
    /\ old \in SUBSET (0 .. Blk - 1) /\ map = old \cup (s .. e - 1)
    /\ s \in 0 .. Blk /\ e \in 0 .. Blk /\ s < e /\ Clear(old, s, e)
    /\ BlockInv(b, old) /\ u \in BlockRec /\ FirstOk(u, map)
    /\ u.contig_hint = b.contig_hint /\ u.contig_hint_start = b.contig_hint_start
    /\ u.left_free = Lower(b.left_free, s) /\ u.right_free = Lower(b.right_free, Blk - e)
    /\ ~ (b.contig_hint_start <= s /\ s < b.contig_hint_start + b.contig_hint)

LEMMA BlockTake ==
    ASSUME NEW b, NEW u, NEW old, NEW map, NEW s, NEW e, Taken(b, u, old, map, s, e)
    PROVE  BlockInv(u, map)
<1>0. Blk \in Nat /\ Blk >= 1
  BY Sizes
<1>1. /\ old \in SUBSET (0 .. Blk - 1) /\ map = old \cup (s .. e - 1)
      /\ s \in 0 .. Blk /\ e \in 0 .. Blk /\ s < e /\ Clear(old, s, e)
      /\ b \in BlockRec /\ u \in BlockRec /\ FirstOk(u, map)
      /\ HintOk(b, old) /\ LongestOk(b, old) /\ LeftOk(b, old) /\ RightOk(b, old)
  BY DEF Taken, BlockInv
<1>2. PICK h, hs, lf, rf : /\ h = b.contig_hint /\ hs = b.contig_hint_start
                           /\ lf = b.left_free /\ rf = b.right_free
  OBVIOUS
<1>3. h \in 0 .. Blk /\ hs \in 0 .. Blk /\ lf \in 0 .. Blk /\ rf \in 0 .. Blk
  BY <1>1, <1>2 DEF BlockRec
<1>4. /\ u.contig_hint = h /\ u.contig_hint_start = hs
      /\ u.left_free = Lower(lf, s) /\ u.right_free = Lower(rf, Blk - e)
      /\ ~ (hs <= s /\ s < hs + h)
  BY <1>2 DEF Taken
<1>5. hs + h <= Blk /\ Clear(old, hs, hs + h)
  BY <1>1, <1>2 DEF HintOk
<1>6. \A x, y \in 0 .. Blk : Clear(old, x, y) => y - x <= h
  BY <1>1, <1>2 DEF LongestOk
<1>7. e <= hs \/ hs + h <= s
  <2>1. SUFFICES ASSUME s < hs, hs < e PROVE FALSE
    BY <1>0, <1>1, <1>3, <1>4
  <2>2. Clear(old, s, hs + h)
    BY <1>0, <1>1, <1>3, <1>5, <2>1 DEF Clear
  <2>3. hs + h \in 0 .. Blk
    BY <1>0, <1>3, <1>5
  <2>4. (hs + h) - s <= h
    BY <1>1, <1>6, <2>2, <2>3
  <2> QED BY <1>0, <1>1, <1>3, <2>1, <2>4
<1>8. HintOk(u, map)
  <2>1. Clear(map, hs, hs + h)
    BY <1>0, <1>1, <1>3, <1>5, <1>7 DEF Clear
  <2> QED BY <1>4, <1>5, <2>1 DEF HintOk
<1>9. LongestOk(u, map)
  <2> SUFFICES ASSUME NEW x \in 0 .. Blk, NEW y \in 0 .. Blk, Clear(map, x, y)
               PROVE  y - x <= h
    BY <1>4 DEF LongestOk
  <2>1. Clear(old, x, y)
    BY <1>1 DEF Clear
  <2> QED BY <1>6, <2>1
<1>10. LeftOk(u, map)
  <2>1. Clear(old, 0, lf) /\ (lf = Blk \/ lf \in old)
    BY <1>1, <1>2 DEF LeftOk
  <2>2. CASE lf < s
    <3>1. u.left_free = lf /\ lf \in old
      BY <1>0, <1>1, <1>3, <1>4, <2>1, <2>2 DEF Lower
    <3>2. Clear(map, 0, lf)
      BY <1>0, <1>1, <1>3, <2>1, <2>2 DEF Clear
    <3> QED BY <1>1, <3>1, <3>2 DEF LeftOk
  <2>3. CASE ~ (lf < s)
    <3>1. u.left_free = s /\ s \in map
      BY <1>0, <1>1, <1>3, <1>4, <2>3 DEF Lower
    <3>2. Clear(map, 0, s)
      BY <1>0, <1>1, <1>3, <2>1, <2>3 DEF Clear
    <3> QED BY <3>1, <3>2 DEF LeftOk
  <2> QED BY <2>2, <2>3
<1>11. RightOk(u, map)
  <2>1. Clear(old, Blk - rf, Blk) /\ (rf = Blk \/ Blk - rf - 1 \in old)
    BY <1>1, <1>2 DEF RightOk
  <2>2. CASE rf < Blk - e
    <3>1. u.right_free = rf /\ Blk - rf - 1 \in old
      BY <1>0, <1>1, <1>3, <1>4, <2>1, <2>2 DEF Lower
    <3>2. Clear(map, Blk - rf, Blk)
      BY <1>0, <1>1, <1>3, <2>1, <2>2 DEF Clear
    <3> QED BY <1>1, <3>1, <3>2 DEF RightOk
  <2>3. CASE ~ (rf < Blk - e)
    <3>1. u.right_free = Blk - e /\ Blk - (Blk - e) = e /\ e - 1 \in map
      BY <1>0, <1>1, <1>3, <1>4, <2>3 DEF Lower
    <3>2. Clear(map, e, Blk)
      BY <1>0, <1>1, <1>3, <2>1, <2>3 DEF Clear
    <3> QED BY <3>1, <3>2 DEF RightOk
  <2> QED BY <2>2, <2>3
<1> QED BY <1>1, <1>8, <1>9, <1>10, <1>11 DEF BlockInv

(* Chunk ch has the bits of [off, off + n) in its alloc_map; its block i still has the
   hints of bitmap old, where the bits s .. e - 1 were free. *)
Taking(ch, i, old, s, e) ==
    /\ old \in SUBSET (0 .. Blk - 1) /\ pcpu_index_alloc_map(ch, i) = old \cup (s .. e - 1)
    /\ s \in 0 .. Blk /\ e \in 0 .. Blk /\ s < e /\ Clear(old, s, e)
    /\ BlockInv(ch.md_blocks[i], old)

LEMMA StartBlockOk ==
    ASSUME NEW ch, NEW off \in Nat, NEW n \in Nat, NEW only \in BOOLEAN, NEW old, NEW e,
           Taking(ch, off \div Blk, old, off % Blk, e),
           IF only THEN e = (off % Blk) + n ELSE e = Blk /\ (off % Blk) + n >= Blk
    PROVE  BlockInv(StartBlock(ch, off, n, only), pcpu_index_alloc_map(ch, off \div Blk))
<1>0. Blk \in Nat /\ Blk >= 1
  BY Sizes
<1>1. PICK i, s, b, map : /\ i = off \div Blk /\ s = off % Blk /\ b = ch.md_blocks[i]
                          /\ map = pcpu_index_alloc_map(ch, i)
  OBVIOUS
<1>2. /\ old \in SUBSET (0 .. Blk - 1) /\ map = old \cup (s .. e - 1)
      /\ s \in 0 .. Blk /\ e \in 0 .. Blk /\ s < e /\ Clear(old, s, e)
      /\ BlockInv(b, old) /\ b \in BlockRec /\ FirstOk(b, old)
  BY <1>1 DEF Taking, BlockInv
<1>3. map \in SUBSET (0 .. Blk - 1)
  BY <1>0, <1>2
<1>4. PICK ff : ff = IF b.first_free = s THEN find_next_zero_bit(map, Blk, s + n) ELSE b.first_free
  OBVIOUS
<1>5. PICK b2 : b2 = [b EXCEPT !.first_free = ff]
  OBVIOUS
<1>20. s + n \in Nat /\ s + n >= e
  BY <1>0, <1>1, <1>2
<1>6. ff \in 0 .. Blk /\ AllSet(map, 0, ff)
  <2>1. CASE b.first_free # s
    <3>1. ff \in 0 .. Blk /\ ff = b.first_free
      BY <1>2, <1>4, <2>1 DEF BlockRec
    <3> QED BY <1>2, <3>1 DEF FirstOk, AllSet
  <2>2. CASE b.first_free = s
    <3>1. PICK z : z = find_next_zero_bit(map, Blk, s + n)
      OBVIOUS
    <3>2. z \in Nat /\ z <= Blk /\ AllSet(map, s + n, z)
      BY <1>0, <1>20, <3>1, FindZero
    <3>3. ASSUME NEW x \in 0 .. z - 1 PROVE x \in map
      <4>1. CASE x < s
        BY <1>2, <2>2, <4>1 DEF FirstOk, AllSet
      <4>2. CASE s <= x /\ x < e
        BY <1>0, <1>2, <3>2, <4>2
      <4>3. CASE e <= x
        <5>1. e = s + n
          BY <1>0, <1>1, <1>2, <3>2, <4>3
        <5> QED BY <1>0, <1>2, <1>20, <3>2, <4>3, <5>1 DEF AllSet
      <4> QED BY <1>2, <4>1, <4>2, <4>3
    <3>4. ff = z
      BY <1>4, <2>2, <3>1
    <3> QED BY <1>0, <3>2, <3>3, <3>4 DEF AllSet
  <2> QED BY <2>1, <2>2
<1>7. b2 = [first_free |-> ff, left_free |-> b.left_free, right_free |-> b.right_free,
            contig_hint |-> b.contig_hint, contig_hint_start |-> b.contig_hint_start]
  BY <1>2, <1>5 DEF BlockRec
<1>8. b2 \in BlockRec /\ b2.first_free = ff /\ b2.left_free = b.left_free
      /\ b2.right_free = b.right_free /\ b2.contig_hint = b.contig_hint
      /\ b2.contig_hint_start = b.contig_hint_start
  BY <1>2, <1>6, <1>7 DEF BlockRec
<1>9. FirstOk(b2, map)
  BY <1>6, <1>8 DEF FirstOk
<1>10. CASE b2.contig_hint_start <= s /\ s < b2.contig_hint_start + b2.contig_hint
  <2>1. StartBlock(ch, off, n, only) = pcpu_block_refresh_hint(b2, map)
    BY <1>1, <1>4, <1>5, <1>10 DEF StartBlock, pcpu_off_to_block_index, pcpu_off_to_block_off
  <2>2. BlockInv(pcpu_block_refresh_hint(b2, map), map)
    BY <1>3, <1>8, <1>9, Refresh
  <2> QED BY <1>1, <2>1, <2>2
<1>11. CASE ~ (b2.contig_hint_start <= s /\ s < b2.contig_hint_start + b2.contig_hint)
  <2>1. PICK l2, r2 : l2 = Lower(b.left_free, s)
                      /\ r2 = IF only THEN Lower(b.right_free, Blk - (s + n)) ELSE 0
    OBVIOUS
  <2>2. b.left_free \in 0 .. Blk /\ b.right_free \in 0 .. Blk
    BY <1>2 DEF BlockRec
  <2>3. r2 = Lower(b.right_free, Blk - e) /\ l2 \in 0 .. Blk /\ r2 \in 0 .. Blk
    BY <1>0, <1>1, <1>2, <2>1, <2>2 DEF Lower
  <2>4. PICK u : u = [b2 EXCEPT !.left_free = l2, !.right_free = r2]
    OBVIOUS
  <2>5. u = [first_free |-> ff, left_free |-> l2, right_free |-> r2,
             contig_hint |-> b.contig_hint, contig_hint_start |-> b.contig_hint_start]
    BY <1>7, <2>4
  <2>6. u \in BlockRec /\ u.first_free = ff /\ u.left_free = l2
        /\ u.right_free = r2 /\ u.contig_hint = b.contig_hint
        /\ u.contig_hint_start = b.contig_hint_start
    BY <1>2, <1>6, <2>3, <2>5 DEF BlockRec
  <2>7. StartBlock(ch, off, n, only) = u
    BY <1>1, <1>4, <1>5, <1>8, <1>11, <2>1, <2>4
    DEF StartBlock, pcpu_off_to_block_index, pcpu_off_to_block_off
  <2>8. FirstOk(u, map)
    BY <1>6, <2>6 DEF FirstOk
  <2>9. Taken(b, u, old, map, s, e)
    BY <1>2, <1>8, <1>11, <2>1, <2>3, <2>6, <2>8 DEF Taken
  <2>10. BlockInv(u, map)
    BY <2>9, BlockTake
  <2> QED BY <1>1, <2>7, <2>10
<1> QED BY <1>10, <1>11

LEMMA EndBlockOk ==
    ASSUME NEW ch, NEW i, NEW old, NEW e, Taking(ch, i, old, 0, e)
    PROVE  BlockInv(EndBlock(ch, i, e), pcpu_index_alloc_map(ch, i))
<1>0. Blk \in Nat /\ Blk >= 1
  BY Sizes
<1>1. PICK b, map : b = ch.md_blocks[i] /\ map = pcpu_index_alloc_map(ch, i)
  OBVIOUS
<1>2. /\ old \in SUBSET (0 .. Blk - 1) /\ map = old \cup (0 .. e - 1)
      /\ e \in 0 .. Blk /\ 0 < e /\ Clear(old, 0, e)
      /\ BlockInv(b, old) /\ b \in BlockRec /\ FirstOk(b, old)
  BY <1>1 DEF Taking, BlockInv
<1>3. map \in SUBSET (0 .. Blk - 1) /\ e \in Nat
  BY <1>0, <1>2
<1>4. PICK ff : ff = find_next_zero_bit(map, Blk, e)
  OBVIOUS
<1>5. PICK b2 : b2 = [b EXCEPT !.first_free = ff]
  OBVIOUS
<1>6. ff \in 0 .. Blk /\ AllSet(map, 0, ff)
  <2>1. ff \in Nat /\ ff <= Blk /\ AllSet(map, e, ff)
    BY <1>0, <1>3, <1>4, FindZero
  <2>2. AllSet(map, 0, ff)
    BY <1>0, <1>2, <2>1 DEF AllSet
  <2> QED BY <1>0, <2>1, <2>2
<1>7. b2 = [first_free |-> ff, left_free |-> b.left_free, right_free |-> b.right_free,
            contig_hint |-> b.contig_hint, contig_hint_start |-> b.contig_hint_start]
  BY <1>2, <1>5 DEF BlockRec
<1>8. b2 \in BlockRec /\ b2.first_free = ff /\ b2.left_free = b.left_free
      /\ b2.right_free = b.right_free /\ b2.contig_hint = b.contig_hint
      /\ b2.contig_hint_start = b.contig_hint_start
  BY <1>2, <1>6, <1>7 DEF BlockRec
<1>9. FirstOk(b2, map)
  BY <1>6, <1>8 DEF FirstOk
<1>10. CASE e = Blk
  <2>1. EndBlock(ch, i, e) = Full(b2)
    BY <1>1, <1>4, <1>5, <1>10 DEF EndBlock
  <2>2. PICK u : u = Full(b2)
    OBVIOUS
  <2>3. u = [first_free |-> ff, left_free |-> 0, right_free |-> 0,
             contig_hint |-> 0, contig_hint_start |-> b.contig_hint_start]
    BY <1>7, <2>2 DEF Full
  <2>4. b.contig_hint_start \in 0 .. Blk
    BY <1>2 DEF BlockRec
  <2>5. u \in BlockRec /\ u.first_free = ff /\ u.left_free = 0 /\ u.right_free = 0
        /\ u.contig_hint = 0 /\ u.contig_hint_start = b.contig_hint_start
    BY <1>0, <1>6, <2>3, <2>4 DEF BlockRec
  <2>6. HintOk(u, map) /\ LeftOk(u, map) /\ RightOk(u, map) /\ FirstOk(u, map)
    BY <1>0, <1>2, <1>6, <1>10, <2>4, <2>5 DEF HintOk, LeftOk, RightOk, FirstOk, Clear
  <2>7. LongestOk(u, map)
    <3> SUFFICES ASSUME NEW x \in 0 .. Blk, NEW y \in 0 .. Blk, Clear(map, x, y)
                 PROVE  y - x <= 0
      BY <2>5 DEF LongestOk
    <3>1. ~ (x < y)
      BY <1>0, <1>2, <1>10 DEF Clear
    <3> QED BY <1>0, <3>1
  <2> QED BY <1>1, <2>1, <2>2, <2>5, <2>6, <2>7 DEF BlockInv
<1>11. CASE e # Blk /\ e > b2.contig_hint_start
  <2>1. EndBlock(ch, i, e) = pcpu_block_refresh_hint(b2, map)
    BY <1>1, <1>4, <1>5, <1>11 DEF EndBlock
  <2>2. BlockInv(pcpu_block_refresh_hint(b2, map), map)
    BY <1>3, <1>8, <1>9, Refresh
  <2> QED BY <1>1, <2>1, <2>2
<1>12. CASE e # Blk /\ ~ (e > b2.contig_hint_start)
  <2>1. PICK l2, r2 : l2 = 0 /\ r2 = Lower(b.right_free, Blk - e)
    OBVIOUS
  <2>2. b.left_free \in 0 .. Blk /\ b.right_free \in 0 .. Blk /\ b.contig_hint_start \in 0 .. Blk
    BY <1>2 DEF BlockRec
  <2>3. l2 = Lower(b.left_free, 0) /\ l2 \in 0 .. Blk /\ r2 \in 0 .. Blk
    BY <1>0, <1>2, <2>1, <2>2 DEF Lower
  <2>4. PICK u : u = [b2 EXCEPT !.left_free = l2, !.right_free = r2]
    OBVIOUS
  <2>5. u = [first_free |-> ff, left_free |-> l2, right_free |-> r2,
             contig_hint |-> b.contig_hint, contig_hint_start |-> b.contig_hint_start]
    BY <1>7, <2>4
  <2>6. u \in BlockRec /\ u.first_free = ff /\ u.left_free = l2
        /\ u.right_free = r2 /\ u.contig_hint = b.contig_hint
        /\ u.contig_hint_start = b.contig_hint_start
    BY <1>2, <1>6, <2>3, <2>5 DEF BlockRec
  <2>7. EndBlock(ch, i, e) = u
    BY <1>1, <1>4, <1>5, <1>8, <1>12, <2>1, <2>4 DEF EndBlock
  <2>8. FirstOk(u, map)
    BY <1>6, <2>6 DEF FirstOk
  <2>9. ~ (b.contig_hint_start <= 0)
    BY <1>0, <1>2, <1>8, <1>12, <2>2
  <2>10. 0 \in 0 .. Blk
    BY <1>0
  <2>11. Taken(b, u, old, map, 0, e)
    BY <1>2, <2>1, <2>3, <2>6, <2>8, <2>9, <2>10 DEF Taken
  <2>12. BlockInv(u, map)
    BY <2>11, BlockTake
  <2> QED BY <1>1, <2>7, <2>12
<1> QED BY <1>10, <1>11, <1>12

LEMMA FullOk ==
    ASSUME NEW b \in BlockRec
    PROVE  BlockInv(Full(b), 0 .. Blk - 1)
<1>0. Blk \in Nat /\ Blk >= 1
  BY Sizes
<1>1. PICK u, map : u = Full(b) /\ map = 0 .. Blk - 1
  OBVIOUS
<1>2. u = [first_free |-> b.first_free, left_free |-> 0, right_free |-> 0,
           contig_hint |-> 0, contig_hint_start |-> b.contig_hint_start]
  BY <1>1 DEF Full, BlockRec
<1>3. b.contig_hint_start \in 0 .. Blk /\ b.first_free \in 0 .. Blk
  BY DEF BlockRec
<1>4. u \in BlockRec /\ u.first_free = b.first_free /\ u.left_free = 0 /\ u.right_free = 0
      /\ u.contig_hint = 0 /\ u.contig_hint_start = b.contig_hint_start
  BY <1>0, <1>2, <1>3 DEF BlockRec
<1>5. HintOk(u, map) /\ LeftOk(u, map) /\ RightOk(u, map) /\ FirstOk(u, map)
  BY <1>0, <1>1, <1>3, <1>4 DEF HintOk, LeftOk, RightOk, FirstOk, Clear, AllSet
<1>6. LongestOk(u, map)
  <2> SUFFICES ASSUME NEW x \in 0 .. Blk, NEW y \in 0 .. Blk, Clear(map, x, y)
               PROVE  y - x <= 0
    BY <1>4 DEF LongestOk
  <2>1. ~ (x < y)
    BY <1>0, <1>1 DEF Clear
  <2> QED BY <1>0, <2>1
<1> QED BY <1>1, <1>4, <1>5, <1>6 DEF BlockInv

LEMMA FreeOk == BlockInv(FreeBlock, {})
<1>0. Blk \in Nat /\ Blk >= 1
  BY Sizes
<1>1. PICK u : u = FreeBlock
  OBVIOUS
<1>2. u \in BlockRec /\ u.first_free = 0 /\ u.left_free = Blk /\ u.right_free = Blk
      /\ u.contig_hint = Blk /\ u.contig_hint_start = 0
  BY <1>0, <1>1 DEF FreeBlock, BlockRec
<1>3. HintOk(u, {}) /\ LeftOk(u, {}) /\ RightOk(u, {}) /\ FirstOk(u, {})
  BY <1>0, <1>2 DEF HintOk, LeftOk, RightOk, FirstOk, Clear, AllSet
<1>4. LongestOk(u, {})
  BY <1>0, <1>2 DEF LongestOk
<1> QED BY <1>1, <1>2, <1>3, <1>4 DEF BlockInv

(* The bits s .. e - 1 of a block are given back, which makes start .. end - 1 a run that
   is as long as it can be. *)
Freed(b, old, map, s, e, start, end) ==
    /\ old \in SUBSET (0 .. Blk - 1) /\ map = old \ (s .. e - 1)
    /\ {s, e, start, end} \subseteq 0 .. Blk /\ s < e /\ AllSet(old, s, e)
    /\ start <= s /\ e <= end /\ Clear(map, start, end)
    /\ start = 0 \/ start - 1 \in map
    /\ end = Blk \/ end \in map
    /\ BlockInv(b, old)

LEMMA BlockFree ==
    ASSUME NEW b, NEW old, NEW map, NEW s, NEW e, NEW start, NEW end,
           Freed(b, old, map, s, e, start, end)
    PROVE  /\ BlockInv(pcpu_block_update(b, start, end), map)
           /\ pcpu_block_update(b, start, end).contig_hint >= 1
<1>0. Blk \in Nat /\ Blk >= 1
  BY Sizes
<1>1. /\ old \in SUBSET (0 .. Blk - 1) /\ map = old \ (s .. e - 1)
      /\ s \in 0 .. Blk /\ e \in 0 .. Blk /\ start \in 0 .. Blk /\ end \in 0 .. Blk
      /\ s < e /\ AllSet(old, s, e)
      /\ start <= s /\ e <= end /\ Clear(map, start, end)
      /\ start = 0 \/ start - 1 \in map
      /\ end = Blk \/ end \in map
      /\ b \in BlockRec /\ FirstOk(b, old)
      /\ HintOk(b, old) /\ LongestOk(b, old) /\ LeftOk(b, old) /\ RightOk(b, old)
  BY DEF Freed, BlockInv
<1>2. PICK u : u = pcpu_block_update(b, start, end)
  OBVIOUS
<1>3. start < end
  BY <1>0, <1>1
<1>4. /\ u \in BlockRec
      /\ u.first_free <= b.first_free /\ u.first_free <= start
      /\ u.left_free = IF start = 0 THEN end ELSE b.left_free
      /\ u.right_free = IF end = Blk THEN Blk - start ELSE b.right_free
      /\ u.contig_hint >= b.contig_hint /\ u.contig_hint >= end - start
      /\ \/ u.contig_hint = end - start /\ u.contig_hint_start = start
         \/ u.contig_hint = b.contig_hint /\ u.contig_hint_start = b.contig_hint_start
  BY <1>1, <1>2, <1>3, UpdateFields
<1>5. b.contig_hint \in 0 .. Blk /\ b.contig_hint_start \in 0 .. Blk /\ b.left_free \in 0 .. Blk
      /\ b.right_free \in 0 .. Blk /\ b.first_free \in 0 .. Blk /\ u.contig_hint \in 0 .. Blk
      /\ u.contig_hint_start \in 0 .. Blk /\ u.first_free \in 0 .. Blk
  BY <1>1, <1>4 DEF BlockRec
<1>6. HintOk(u, map)
  <2>1. CASE u.contig_hint = end - start /\ u.contig_hint_start = start
    <3>1. start + (end - start) = end
      BY <1>0, <1>1
    <3> QED BY <1>0, <1>1, <2>1, <3>1 DEF HintOk
  <2>2. CASE u.contig_hint = b.contig_hint /\ u.contig_hint_start = b.contig_hint_start
    BY <1>1, <2>2 DEF HintOk, Clear
  <2> QED BY <1>4, <2>1, <2>2
<1>7. FirstOk(u, map)
  BY <1>0, <1>1, <1>4, <1>5 DEF FirstOk, AllSet
<1>8. LongestOk(u, map)
  <2> SUFFICES ASSUME NEW x \in 0 .. Blk, NEW y \in 0 .. Blk, Clear(map, x, y)
               PROVE  y - x <= u.contig_hint
    BY DEF LongestOk
  <2>1. CASE y <= x
    BY <1>0, <1>5, <2>1
  <2>2. CASE x < y /\ (y <= start \/ end <= x)
    <3>1. Clear(old, x, y)
      BY <1>0, <1>1, <2>2 DEF Clear
    <3>2. y - x <= b.contig_hint
      BY <1>1, <3>1 DEF LongestOk
    <3> QED BY <1>0, <1>4, <1>5, <3>2
  <2>3. CASE x < y /\ start < y /\ x < end
    <3>1. start <= x
      <4>1. SUFFICES ASSUME x < start, start - 1 \in map PROVE FALSE
        BY <1>0, <1>1
      <4>2. start - 1 \in x .. y - 1
        BY <1>0, <1>1, <2>3, <4>1
      <4> QED BY <4>1, <4>2 DEF Clear
    <3>2. y <= end
      <4>1. SUFFICES ASSUME end < y, end \in map PROVE FALSE
        BY <1>0, <1>1
      <4>2. end \in x .. y - 1
        BY <1>0, <1>1, <2>3, <4>1
      <4> QED BY <4>1, <4>2 DEF Clear
    <3> QED BY <1>0, <1>1, <1>4, <1>5, <3>1, <3>2
  <2> QED BY <1>0, <1>1, <2>1, <2>2, <2>3
<1>9. LeftOk(u, map)
  <2>1. CASE start = 0
    BY <1>1, <1>4, <2>1 DEF LeftOk
  <2>2. CASE start # 0
    <3>1. PICK lf : lf = b.left_free
      OBVIOUS
    <3>2. u.left_free = lf /\ Clear(old, 0, lf) /\ (lf = Blk \/ lf \in old) /\ lf \in 0 .. Blk
      BY <1>1, <1>4, <1>5, <2>2, <3>1 DEF LeftOk
    <3>3. start - 1 \in old
      BY <1>1, <2>2
    <3>4. lf <= start - 1
      BY <1>0, <1>1, <2>2, <3>2, <3>3 DEF Clear
    <3>5. lf \in map
      BY <1>0, <1>1, <3>2, <3>4
    <3>6. Clear(map, 0, lf)
      BY <1>1, <3>2 DEF Clear
    <3> QED BY <3>2, <3>5, <3>6 DEF LeftOk
  <2> QED BY <2>1, <2>2
<1>10. RightOk(u, map)
  <2>1. CASE end = Blk
    <3>1. u.right_free = Blk - start /\ Blk - (Blk - start) = start
      BY <1>0, <1>1, <1>4, <2>1
    <3>2. start = 0 => u.right_free = Blk
      BY <1>0, <3>1
    <3> QED BY <1>1, <2>1, <3>1, <3>2 DEF RightOk
  <2>2. CASE end # Blk
    <3>1. PICK rf : rf = b.right_free
      OBVIOUS
    <3>2. /\ u.right_free = rf /\ Clear(old, Blk - rf, Blk) /\ rf \in 0 .. Blk
          /\ rf = Blk \/ Blk - rf - 1 \in old
      BY <1>1, <1>4, <1>5, <2>2, <3>1 DEF RightOk
    <3>3. end \in old /\ end \in 0 .. Blk - 1
      BY <1>0, <1>1, <2>2
    <3>4. end <= Blk - rf - 1
      BY <1>0, <1>1, <3>2, <3>3 DEF Clear
    <3>5. Blk - rf - 1 \in map
      BY <1>0, <1>1, <3>2, <3>4
    <3>6. Clear(map, Blk - rf, Blk)
      BY <1>1, <3>2 DEF Clear
    <3> QED BY <3>2, <3>5, <3>6 DEF RightOk
  <2> QED BY <2>1, <2>2
<1>11. u.contig_hint >= 1
  BY <1>0, <1>1, <1>3, <1>4, <1>5
<1>12. BlockInv(u, map)
  BY <1>4, <1>6, <1>7, <1>8, <1>9, <1>10 DEF BlockInv
<1> QED BY <1>2, <1>11, <1>12

-----------------------------------------------------------------------------
(* A chunk's blocks and its bitmap *)

ChunkHints(ch) ==
    /\ ch.nr_pages \in Nat \ {0} /\ ch.alloc_map \in SUBSET (0 .. ch.nr_pages * Blk - 1)
    /\ \A i \in 0 .. ch.nr_pages - 1 : BlockInv(ch.md_blocks[i], pcpu_index_alloc_map(ch, i))

LEMMA Lift ==
    ASSUME NEW ch, NEW i \in Nat, NEW s \in 0 .. Blk, NEW e \in 0 .. Blk
    PROVE  /\ pcpu_index_alloc_map(ch, i) \in SUBSET (0 .. Blk - 1)
           /\ \A x \in 0 .. Blk - 1 :
                 x \in pcpu_index_alloc_map(ch, i) <=> i * Blk + x \in ch.alloc_map
           /\ Clear(pcpu_index_alloc_map(ch, i), s, e)
                 <=> Clear(ch.alloc_map, i * Blk + s, i * Blk + e)
           /\ AllSet(pcpu_index_alloc_map(ch, i), s, e)
                 <=> AllSet(ch.alloc_map, i * Blk + s, i * Blk + e)
<1>0. Blk \in Nat /\ i * Blk \in Nat
  BY Sizes
<1>1. PICK m, B : m = pcpu_index_alloc_map(ch, i) /\ B = i * Blk
  OBVIOUS
<1>20. B \in Int /\ s \in Int /\ e \in Int
  BY <1>0, <1>1
<1>2. m \in SUBSET (0 .. Blk - 1)
      /\ \A x \in 0 .. Blk - 1 : x \in m <=> B + x \in ch.alloc_map
  BY <1>1 DEF pcpu_index_alloc_map
<1>3. Clear(m, s, e) => Clear(ch.alloc_map, B + s, B + e)
  <2> SUFFICES ASSUME Clear(m, s, e), NEW y \in B + s .. B + e - 1 PROVE y \notin ch.alloc_map
    BY <1>20 DEF Clear
  <2>1. y - B \in s .. e - 1 /\ y - B \in 0 .. Blk - 1 /\ B + (y - B) = y
    BY <1>0, <1>1
  <2> QED BY <1>2, <1>20, <2>1 DEF Clear
<1>4. Clear(ch.alloc_map, B + s, B + e) => Clear(m, s, e)
  <2> SUFFICES ASSUME Clear(ch.alloc_map, B + s, B + e), NEW x \in s .. e - 1 PROVE x \notin m
    BY <1>20 DEF Clear
  <2>1. B + x \in B + s .. B + e - 1 /\ x \in 0 .. Blk - 1
    BY <1>0, <1>1
  <2> QED BY <1>2, <1>20, <2>1 DEF Clear
<1>5. AllSet(m, s, e) => AllSet(ch.alloc_map, B + s, B + e)
  <2> SUFFICES ASSUME AllSet(m, s, e), NEW y \in B + s .. B + e - 1 PROVE y \in ch.alloc_map
    BY <1>20 DEF AllSet
  <2>1. y - B \in s .. e - 1 /\ y - B \in 0 .. Blk - 1 /\ B + (y - B) = y
    BY <1>0, <1>1
  <2> QED BY <1>2, <1>20, <2>1 DEF AllSet
<1>6. AllSet(ch.alloc_map, B + s, B + e) => AllSet(m, s, e)
  <2> SUFFICES ASSUME AllSet(ch.alloc_map, B + s, B + e), NEW x \in s .. e - 1 PROVE x \in m
    BY <1>20 DEF AllSet
  <2>1. B + x \in B + s .. B + e - 1 /\ x \in 0 .. Blk - 1
    BY <1>0, <1>1
  <2> QED BY <1>2, <1>20, <2>1 DEF AllSet
<1> QED BY <1>1, <1>2, <1>3, <1>4, <1>5, <1>6

(* The hints of block i, said of the chunk's bitmap *)
BlockFacts(b, A, B) ==
    /\ b.first_free \in 0 .. Blk /\ b.left_free \in 0 .. Blk /\ b.right_free \in 0 .. Blk
    /\ b.contig_hint \in 0 .. Blk /\ b.contig_hint_start \in 0 .. Blk
    /\ b.contig_hint_start + b.contig_hint <= Blk
    /\ Clear(A, B + b.contig_hint_start, B + b.contig_hint_start + b.contig_hint)
    /\ Clear(A, B, B + b.left_free) /\ (b.left_free = Blk \/ B + b.left_free \in A)
    /\ Clear(A, B + Blk - b.right_free, B + Blk)
    /\ b.right_free = Blk \/ B + Blk - b.right_free - 1 \in A
    /\ AllSet(A, B, B + b.first_free)
    /\ \A s, e \in 0 .. Blk : Clear(A, B + s, B + e) => e - s <= b.contig_hint
    /\ b.contig_hint_start + b.contig_hint < Blk
          => B + b.contig_hint_start + b.contig_hint \in A

LEMMA FactsOf ==
    ASSUME NEW ch, ChunkHints(ch), NEW i \in 0 .. ch.nr_pages - 1
    PROVE  BlockFacts(ch.md_blocks[i], ch.alloc_map, i * Blk)
<1>0. Blk \in Nat /\ Blk >= 1 /\ i \in Nat /\ i * Blk \in Nat /\ 0 \in 0 .. Blk /\ Blk \in 0 .. Blk
  <2>1. Blk \in Nat /\ Blk >= 1
    BY Sizes
  <2>2. i \in Nat
    BY DEF ChunkHints
  <2> QED BY <2>1, <2>2
<1>1. PICK b, m, A, B : /\ b = ch.md_blocks[i] /\ m = pcpu_index_alloc_map(ch, i)
                        /\ A = ch.alloc_map /\ B = i * Blk
  OBVIOUS
<1>2. b \in BlockRec /\ HintOk(b, m) /\ LongestOk(b, m) /\ LeftOk(b, m) /\ RightOk(b, m)
      /\ FirstOk(b, m)
  BY <1>1 DEF ChunkHints, BlockInv
<1>3. PICK h, hs, lf, rf, ff : /\ h = b.contig_hint /\ hs = b.contig_hint_start
                               /\ lf = b.left_free /\ rf = b.right_free /\ ff = b.first_free
  OBVIOUS
<1>4. h \in 0 .. Blk /\ hs \in 0 .. Blk /\ lf \in 0 .. Blk /\ rf \in 0 .. Blk /\ ff \in 0 .. Blk
  BY <1>2, <1>3 DEF BlockRec
<1>5. \A s, e \in 0 .. Blk :
          /\ Clear(m, s, e) <=> Clear(A, B + s, B + e)
          /\ AllSet(m, s, e) <=> AllSet(A, B + s, B + e)
  BY <1>0, <1>1, Lift
<1>6. m \in SUBSET (0 .. Blk - 1) /\ \A x \in 0 .. Blk - 1 : x \in m <=> B + x \in A
  BY <1>0, <1>1, Lift
<1>7. hs + h <= Blk /\ Clear(A, B + hs, B + hs + h)
  <2>1. hs + h <= Blk /\ Clear(m, hs, hs + h)
    BY <1>2, <1>3 DEF HintOk
  <2>2. hs + h \in 0 .. Blk
    BY <1>0, <1>4, <2>1
  <2>3. Clear(A, B + hs, B + (hs + h))
    BY <1>4, <1>5, <2>1, <2>2
  <2>4. B + (hs + h) = B + hs + h
    BY <1>0, <1>1, <1>4
  <2> QED BY <2>1, <2>3, <2>4
<1>8. Clear(A, B, B + lf) /\ (lf = Blk \/ B + lf \in A)
  <2>1. Clear(m, 0, lf) /\ (lf = Blk \/ lf \in m)
    BY <1>2, <1>3 DEF LeftOk
  <2>2. Clear(A, B + 0, B + lf) /\ B + 0 = B
    BY <1>0, <1>1, <1>4, <1>5, <2>1
  <2>3. lf # Blk => B + lf \in A
    BY <1>6, <2>1
  <2> QED BY <2>2, <2>3
<1>9. Clear(A, B + Blk - rf, B + Blk) /\ (rf = Blk \/ B + Blk - rf - 1 \in A)
  <2>1. Clear(m, Blk - rf, Blk) /\ (rf = Blk \/ Blk - rf - 1 \in m)
    BY <1>2, <1>3 DEF RightOk
  <2>2. Blk - rf \in 0 .. Blk /\ B + (Blk - rf) = B + Blk - rf
        /\ B + (Blk - rf - 1) = B + Blk - rf - 1
    BY <1>0, <1>1, <1>4
  <2>3. Clear(A, B + (Blk - rf), B + Blk)
    BY <1>0, <1>5, <2>1, <2>2
  <2>4. rf # Blk => B + (Blk - rf - 1) \in A
    BY <1>6, <2>1
  <2> QED BY <2>2, <2>3, <2>4
<1>10. AllSet(A, B, B + ff)
  <2>1. AllSet(m, 0, ff)
    BY <1>2, <1>3 DEF FirstOk
  <2>2. AllSet(A, B + 0, B + ff) /\ B + 0 = B
    BY <1>0, <1>1, <1>4, <1>5, <2>1
  <2> QED BY <2>2
<1>11. \A s, e \in 0 .. Blk : Clear(A, B + s, B + e) => e - s <= h
  BY <1>2, <1>3, <1>5 DEF LongestOk
<1>12. ASSUME hs + h < Blk PROVE B + hs + h \in A
  <2>1. SUFFICES ASSUME B + hs + h \notin A PROVE FALSE
    OBVIOUS
  <2>2. hs + h + 1 \in 0 .. Blk
    BY <1>0, <1>4, <1>12
  <2>3. Clear(A, B + hs, B + (hs + h + 1))
    BY <1>0, <1>1, <1>4, <1>7, <2>1 DEF Clear
  <2>4. (hs + h + 1) - hs <= h
    BY <1>4, <1>11, <2>2, <2>3
  <2> QED BY <1>4, <2>4
<1>13. BlockFacts(b, A, B)
  BY <1>3, <1>4, <1>7, <1>8, <1>9, <1>10, <1>11, <1>12 DEF BlockFacts
<1> QED BY <1>1, <1>13

-----------------------------------------------------------------------------
(* The next free region of a chunk *)

FreePage(ch, p) == Clear(ch.alloc_map, p * Blk, p * Blk + Blk)

Region == [bit_off : Nat, bits : Nat, block_off : Nat, done : BOOLEAN]

(* What pcpu_next_md_free_region knows before it looks at block i, the first it looks at or
   one it comes to with nothing in hand *)
Fresh(ch, off, i, x) ==
    /\ x \in Region /\ x.bits = 0 /\ x.done = FALSE /\ x.block_off \in 0 .. Blk - 1
    /\ off <= i * Blk + x.block_off
    /\ x.block_off = 0 \/ i * Blk + x.block_off - 1 \in ch.alloc_map
    /\ AllSet(ch.alloc_map, 0, off) => AllSet(ch.alloc_map, 0, i * Blk + x.block_off)
    /\ \A p \in 0 .. ch.nr_pages - 1 :
          FreePage(ch, p) /\ off <= p * Blk => i * Blk + x.block_off <= p * Blk

(* ... and when it has looked at the blocks before i *)
MdInv(ch, off, i, x) ==
    /\ x \in Region /\ off <= x.bit_off
    /\ Clear(ch.alloc_map, x.bit_off, x.bit_off + x.bits)
    /\ IF x.done
       THEN x.bits > 0 /\ x.bit_off + x.bits <= i * Blk /\ x.bit_off + x.bits \in ch.alloc_map
       ELSE x.bit_off + x.bits = i * Blk /\ x.block_off = 0
    /\ \A p \in 0 .. ch.nr_pages - 1 : FreePage(ch, p) /\ off <= p * Blk => x.bit_off <= p * Blk
    /\ AllSet(ch.alloc_map, 0, off) /\ x.bits = 0 => AllSet(ch.alloc_map, 0, i * Blk)

LEMMA MdFresh ==
    ASSUME NEW ch, NEW off, NEW i \in Nat, NEW x, MdInv(ch, off, i, x), ~ x.done, x.bits = 0
    PROVE  Fresh(ch, off, i, x)
<1>0. Blk \in Nat /\ Blk >= 1 /\ i * Blk \in Nat
  BY Sizes
<1>1. x \in Region /\ x.block_off = 0 /\ x.bit_off = i * Blk /\ off <= x.bit_off /\ x.done = FALSE
  <2>1. x \in Region /\ x.block_off = 0 /\ x.bit_off + x.bits = i * Blk /\ off <= x.bit_off
    BY DEF MdInv
  <2>2. x.bit_off \in Nat /\ x.done \in BOOLEAN
    BY <2>1 DEF Region
  <2> QED BY <1>0, <2>1, <2>2
<1>2. i * Blk + x.block_off = i * Blk /\ x.block_off \in 0 .. Blk - 1
  BY <1>0, <1>1
<1>3. \A p \in 0 .. ch.nr_pages - 1 :
          FreePage(ch, p) /\ off <= p * Blk => i * Blk <= p * Blk
  BY <1>1 DEF MdInv
<1>4. AllSet(ch.alloc_map, 0, off) => AllSet(ch.alloc_map, 0, i * Blk)
  BY DEF MdInv
<1> QED BY <1>1, <1>2, <1>3, <1>4 DEF Fresh

LEMMA MdRound ==
    ASSUME NEW ch, ChunkHints(ch), NEW off \in Nat, NEW i \in 0 .. ch.nr_pages - 1, NEW x,
           Fresh(ch, off, i, x) \/ MdInv(ch, off, i, x)
    PROVE  MdInv(ch, off, i + 1, MdStep(ch.md_blocks[i], i, x))
<1>0. Blk \in Nat /\ Blk >= 1 /\ ch.nr_pages \in Nat /\ i \in Nat /\ i * Blk \in Nat
      /\ (i + 1) * Blk = i * Blk + Blk
  BY Sizes DEF ChunkHints
<1>1. PICK b, A, B : b = ch.md_blocks[i] /\ A = ch.alloc_map /\ B = i * Blk
  OBVIOUS
<1>2. BlockFacts(b, A, B)
  BY <1>1, FactsOf
<1>3. PICK y : y = MdStep(b, i, x)
  OBVIOUS
<1>4. x \in Region
  BY DEF Fresh, MdInv
<1>5. B \in Nat /\ (i + 1) * Blk = B + Blk
  BY <1>0, <1>1
<1>6. PICK h, hs, lf, rf : /\ h = b.contig_hint /\ hs = b.contig_hint_start
                           /\ lf = b.left_free /\ rf = b.right_free
  OBVIOUS
<1>7. h \in 0 .. Blk /\ hs \in 0 .. Blk /\ lf \in 0 .. Blk /\ rf \in 0 .. Blk
  BY <1>2, <1>6 DEF BlockFacts
<1>8. \A p \in 0 .. ch.nr_pages - 1 : p * Blk \in Nat /\ (p > i => B + Blk <= p * Blk)
                                      /\ (p < i => p * Blk + Blk <= B)
  BY <1>0, <1>1, BlockOrder
<1>9. SUFFICES MdInv(ch, off, i + 1, y)
  BY <1>1, <1>3
<1>10. CASE x.done
  <2>1. MdInv(ch, off, i, x)
    BY <1>10 DEF Fresh
  <2>2. y = x
    BY <1>3, <1>10 DEF MdStep
  <2>3. x.bit_off \in Nat /\ x.bits \in Nat /\ x.bits > 0 /\ x.bit_off + x.bits <= B
    BY <1>1, <1>4, <1>10, <2>1 DEF MdInv, Region
  <2>4. x.bit_off + x.bits <= (i + 1) * Blk /\ x.bits # 0
    BY <1>0, <1>5, <2>3
  <2> QED BY <1>10, <2>1, <2>2, <2>4 DEF MdInv
<1>11. CASE ~ x.done /\ x.bits # 0
  <2>1. MdInv(ch, off, i, x)
    BY <1>11 DEF Fresh
  <2>2. x.bit_off \in Nat /\ x.bits \in Nat /\ x.bit_off + x.bits = B /\ x.block_off = 0
        /\ off <= x.bit_off /\ Clear(A, x.bit_off, x.bit_off + x.bits)
    BY <1>1, <1>4, <1>11, <2>1 DEF MdInv, Region
  <2>3. y = [x EXCEPT !.bits = @ + lf, !.done = lf # Blk]
    BY <1>3, <1>6, <1>11 DEF MdStep
  <2>4. PICK d \in BOOLEAN : d = (lf # Blk)
    OBVIOUS
  <2>5. y = [bit_off |-> x.bit_off, bits |-> x.bits + lf, block_off |-> 0, done |-> d]
    BY <1>4, <2>2, <2>3, <2>4 DEF Region
  <2>6. y.bit_off = x.bit_off /\ y.bits = x.bits + lf /\ y.block_off = 0 /\ y.done = d
    BY <2>5
  <2>7. y \in Region
    <3>1. x.bits + lf \in Nat
      BY <1>7, <2>2
    <3> QED BY <2>2, <2>4, <2>5, <3>1 DEF Region
  <2>8. Clear(A, B, B + lf) /\ (lf = Blk \/ B + lf \in A)
    BY <1>2, <1>6 DEF BlockFacts
  <2>9. y.bit_off + y.bits = B + lf
    BY <1>5, <1>7, <2>2, <2>6
  <2>10. Clear(A, y.bit_off, y.bit_off + y.bits)
    BY <1>5, <1>7, <2>2, <2>6, <2>8, <2>9 DEF Clear
  <2>11. y.bits > 0
    BY <1>7, <1>11, <2>2, <2>6
  <2>12. y.done => y.bit_off + y.bits <= (i + 1) * Blk /\ y.bit_off + y.bits \in A
    <3>1. y.done => lf # Blk
      BY <2>4, <2>6, Zenon
    <3>2. lf # Blk => y.bit_off + y.bits \in A
      BY <2>8, <2>9
    <3>3. y.bit_off + y.bits <= (i + 1) * Blk
      BY <1>0, <1>5, <1>7, <2>9
    <3> QED BY <3>1, <3>2, <3>3
  <2>13. ~ y.done => y.bit_off + y.bits = (i + 1) * Blk
    <3>1. ~ y.done => lf = Blk
      BY <2>4, <2>6, Zenon
    <3> QED BY <1>5, <2>9, <3>1
  <2>14. \A p \in 0 .. ch.nr_pages - 1 : FreePage(ch, p) /\ off <= p * Blk => y.bit_off <= p * Blk
    BY <2>1, <2>6 DEF MdInv
  <2>15. off <= y.bit_off /\ y.bits # 0
    BY <2>2, <2>6, <2>11
  <2> QED BY <1>1, <2>6, <2>7, <2>10, <2>11, <2>12, <2>13, <2>14, <2>15 DEF MdInv
<1>12. CASE ~ x.done /\ x.bits = 0
  <2>1. Fresh(ch, off, i, x)
    BY <1>0, <1>12, MdFresh
  <2>2. PICK bo : bo = x.block_off
    OBVIOUS
  <2>3. /\ bo \in 0 .. Blk - 1 /\ off <= B + bo /\ (bo = 0 \/ B + bo - 1 \in A)
        /\ AllSet(A, 0, off) => AllSet(A, 0, B + bo)
        /\ \A p \in 0 .. ch.nr_pages - 1 : FreePage(ch, p) /\ off <= p * Blk => B + bo <= p * Blk
    BY <1>1, <2>1, <2>2 DEF Fresh
  <2>4. ASSUME NEW p \in 0 .. ch.nr_pages - 1, FreePage(ch, p), off <= p * Blk
        PROVE  p = i \/ p > i
    <3>1. p * Blk \in Nat /\ (p < i => p * Blk + Blk <= B) /\ B + bo <= p * Blk
      BY <1>8, <2>3, <2>4
    <3> QED BY <1>0, <1>5, <2>3, <3>1
  <2>5. CASE h # 0 /\ hs >= bo /\ h + hs < Blk
    <3>1. y = [bit_off |-> B + hs, bits |-> h, block_off |-> bo, done |-> TRUE]
      BY <1>1, <1>3, <1>6, <1>12, <2>2, <2>5 DEF MdStep
    <3>2. y \in Region /\ y.bit_off = B + hs /\ y.bits = h /\ y.done = TRUE
      BY <1>0, <1>5, <1>7, <2>3, <3>1 DEF Region
    <3>3. Clear(A, B + hs, B + hs + h) /\ B + hs + h \in A
      <4>1. hs + h < Blk
        BY <1>7, <2>5
      <4> QED BY <1>2, <1>6, <4>1 DEF BlockFacts
    <3>4. B + hs + h <= (i + 1) * Blk /\ off <= B + hs /\ h > 0
      BY <1>0, <1>5, <1>7, <2>3, <2>5
    <3>5. ASSUME NEW p \in 0 .. ch.nr_pages - 1, FreePage(ch, p), off <= p * Blk
          PROVE  B + hs <= p * Blk
      <4>1. p # i
        <5>1. SUFFICES ASSUME p = i PROVE FALSE
          OBVIOUS
        <5>2. Clear(A, B + 0, B + Blk)
          BY <1>1, <1>5, <3>5, <5>1 DEF FreePage
        <5>3. 0 \in 0 .. Blk /\ Blk \in 0 .. Blk
          BY <1>0
        <5>4. Blk - 0 <= h
          BY <1>2, <1>6, <5>2, <5>3 DEF BlockFacts
        <5> QED BY <1>0, <1>7, <2>5, <5>4
      <4>2. p > i
        BY <2>4, <3>5, <4>1
      <4> QED BY <1>0, <1>5, <1>7, <1>8, <4>2
    <3> QED BY <1>1, <3>2, <3>3, <3>4, <3>5 DEF MdInv
  <2>6. CASE ~ (h # 0 /\ hs >= bo /\ h + hs < Blk)
    <3>1. y = [bit_off |-> (i + 1) * Blk - rf, bits |-> rf, block_off |-> 0, done |-> FALSE]
      BY <1>1, <1>3, <1>6, <1>12, <2>2, <2>6 DEF MdStep
    <3>2. PICK bit : bit = B + Blk - rf
      OBVIOUS
    <3>3. bit \in Nat /\ bit = (i + 1) * Blk - rf /\ bit + rf = (i + 1) * Blk /\ bit + rf = B + Blk
      BY <1>0, <1>5, <1>7, <3>2
    <3>4. y \in Region /\ y.bit_off = bit /\ y.bits = rf /\ y.done = FALSE /\ y.block_off = 0
      BY <1>7, <3>1, <3>3 DEF Region
    <3>5. Clear(A, bit, B + Blk) /\ (rf = Blk \/ bit - 1 \in A)
      BY <1>0, <1>2, <1>5, <1>6, <1>7, <3>2 DEF BlockFacts
    <3>6. off <= bit
      <4>1. bo <= Blk - rf
        <5>1. CASE bo = 0
          BY <1>0, <1>7, <5>1
        <5>2. CASE bo # 0
          <6>1. B + bo - 1 \in A
            BY <2>3, <5>2
          <6>2. B + bo - 1 < bit
            BY <1>0, <1>5, <1>7, <2>3, <3>3, <3>5, <6>1 DEF Clear
          <6> QED BY <1>0, <1>5, <1>7, <2>3, <3>2, <6>2
        <5> QED BY <5>1, <5>2
      <4> QED BY <1>0, <1>5, <1>7, <2>3, <3>2, <4>1
    <3>7. ASSUME NEW p \in 0 .. ch.nr_pages - 1, FreePage(ch, p), off <= p * Blk
          PROVE  bit <= p * Blk
      <4>1. CASE p = i
        <5>1. Clear(A, B, B + Blk)
          BY <1>1, <3>7, <4>1 DEF FreePage
        <5>2. rf = Blk
          BY <1>0, <1>5, <1>7, <3>2, <3>3, <3>5, <5>1 DEF Clear
        <5> QED BY <1>0, <1>1, <1>5, <3>2, <4>1, <5>2
      <4>2. CASE p > i
        BY <1>0, <1>5, <1>7, <1>8, <3>2, <4>2
      <4> QED BY <2>4, <3>7, <4>1, <4>2
    <3>8. ASSUME AllSet(A, 0, off), rf = 0 PROVE AllSet(A, 0, (i + 1) * Blk)
      <4>1. AllSet(A, 0, B + bo)
        BY <2>3, <3>8
      <4>2. SUFFICES ASSUME NEW z \in 0 .. B + Blk - 1, z \notin A PROVE FALSE
        BY <1>0, <1>5 DEF AllSet
      <4>3. z >= B + bo
        BY <1>5, <2>3, <4>1, <4>2 DEF AllSet
      <4>4. z - B \in 0 .. Blk /\ z - B + 1 \in 0 .. Blk
        BY <1>0, <1>5, <2>3, <4>3
      <4>5. Clear(A, B + (z - B), B + (z - B + 1))
        BY <1>5, <4>2, <4>4 DEF Clear
      <4>6. (z - B + 1) - (z - B) <= h
        BY <1>2, <1>6, <4>4, <4>5 DEF BlockFacts
      <4>7. h >= 1
        BY <1>5, <1>7, <4>6
      <4>8. Clear(A, B + hs, B + hs + h) /\ hs + h <= Blk
        BY <1>2, <1>6 DEF BlockFacts
      <4>9. B + hs \notin A
        BY <1>5, <1>7, <4>7, <4>8 DEF Clear
      <4>10. hs >= bo
        BY <1>5, <1>7, <2>3, <4>1, <4>9 DEF AllSet
      <4>11. hs + h = Blk
        BY <1>0, <1>7, <2>6, <4>7, <4>8, <4>10
      <4>12. B + Blk - 1 \notin A
        BY <1>0, <1>5, <1>7, <4>7, <4>8, <4>11 DEF Clear
      <4>13. bit - 1 \in A
        BY <1>0, <3>5, <3>8
      <4> QED BY <1>0, <1>5, <3>2, <3>8, <4>12, <4>13
    <3>9. Clear(A, bit, bit + rf)
      BY <3>3, <3>5
    <3> QED BY <1>1, <3>3, <3>4, <3>6, <3>7, <3>8, <3>9 DEF MdInv
  <2> QED BY <2>5, <2>6
<1> QED BY <1>10, <1>11, <1>12

(* Where a search may begin: no run that goes on at off begins before it. *)
OffOk(ch, off) ==
    off \in Nat /\ (off = 0 \/ off > ch.nr_pages * Blk \/ off - 1 \in ch.alloc_map)

(* r is a region of free bits that ends where they end, it is at off or later, no free page
   was passed over, and none is found only if there is none (if none was before off). *)
RegionOk(ch, off, r) ==
    /\ r.bit_off \in Nat /\ r.bits \in Nat /\ off <= r.bit_off
    /\ \/ r.bit_off >= ch.nr_pages * Blk
       \/ /\ r.bits > 0 /\ r.bit_off + r.bits <= ch.nr_pages * Blk
          /\ Clear(ch.alloc_map, r.bit_off, r.bit_off + r.bits)
          /\ r.bit_off + r.bits = ch.nr_pages * Blk \/ r.bit_off + r.bits \in ch.alloc_map
    /\ \A p \in 0 .. ch.nr_pages - 1 : FreePage(ch, p) /\ off <= p * Blk => r.bit_off <= p * Blk
    /\ AllSet(ch.alloc_map, 0, off) /\ r.bit_off >= ch.nr_pages * Blk
          => AllSet(ch.alloc_map, 0, ch.nr_pages * Blk)

LEMMA NextRegion ==
    ASSUME NEW ch, ChunkHints(ch), NEW off, OffOk(ch, off)
    PROVE  RegionOk(ch, off, pcpu_next_md_free_region(ch, off))
<1> DEFINE n == ch.nr_pages
           i0 == off \div Blk
           v == SearchFrom(off)
<1>0. /\ Blk \in Nat /\ Blk >= 1 /\ n \in Nat /\ n >= 1 /\ off \in Nat
      /\ i0 \in Nat /\ off % Blk \in 0 .. Blk - 1 /\ off = i0 * Blk + (off % Blk)
      /\ i0 * Blk \in Nat /\ n * Blk \in Nat /\ 0 + 1 = 1
  <2>1. Blk \in Nat /\ Blk >= 1 /\ n \in Nat /\ n >= 1 /\ off \in Nat
    BY Sizes DEF ChunkHints, OffOk
  <2>2. i0 \in Nat /\ off % Blk \in 0 .. Blk - 1 /\ off = i0 * Blk + (off % Blk)
    BY <2>1, InBlock
  <2> HIDE DEF i0, n
  <2> QED BY <2>1, <2>2
<1>30. v \in Region /\ v.bit_off = off /\ v.bits = 0 /\ v.block_off = off % Blk /\ v.done = FALSE
  BY <1>0 DEF SearchFrom, Region, pcpu_off_to_block_off
<1>31. pcpu_next_md_free_region(ch, off) =
        (CHOOSE f : f = [i \in 0 .. n |-> IF i <= i0 THEN v
                          ELSE MdStep(ch.md_blocks[i - 1], i - 1, f[i - 1])])[n]
  BY DEF pcpu_next_md_free_region, pcpu_off_to_block_index
<1>32. \A i \in 0 .. n - 1 : (i + 1) - 1 = i
  BY <1>0
<1> HIDE DEF n, i0, v
<1> DEFINE G(u, i) == MdStep(ch.md_blocks[i - 1], i - 1, u)
           Def(f, m) == f = [i \in 0 .. m |-> IF i <= i0 THEN v ELSE G(f[i - 1], i)]
           scan == CHOOSE f : f = [i \in 0 .. n |-> IF i <= i0 THEN v
                                               ELSE MdStep(ch.md_blocks[i - 1], i - 1, f[i - 1])]
<1>1. \E f : Def(f, n)
  <2> DEFINE S == {m \in 0 .. n : \E f : Def(f, m)}
  <2> HIDE DEF G
  <2>1. 0 \in S
    <3> DEFINE f == [i \in 0 .. 0 |-> v]
    <3>1. Def(f, 0)
      BY <1>0
    <3> HIDE DEF Def
    <3> QED BY <1>0, <3>1
  <2>2. ASSUME NEW m \in 1 .. n, m - 1 \in S PROVE m \in S
    <3>1. PICK f : Def(f, m - 1)
      BY <2>2
    <3> DEFINE g == [i \in 0 .. m |-> IF i = m THEN (IF m <= i0 THEN v ELSE G(f[m - 1], m)) ELSE f[i]]
    <3>2. ASSUME NEW i \in 0 .. m PROVE g[i] = IF i <= i0 THEN v ELSE G(g[i - 1], i)
      <4>1. CASE i = m
        <5>1. g[i - 1] = f[m - 1]
          BY <1>0, <4>1
        <5> QED BY <4>1, <5>1
      <4>2. CASE i # m /\ i # 0
        <5>1. i \in 0 .. m - 1 /\ g[i] = f[i] /\ g[i - 1] = f[i - 1]
          BY <1>0, <4>2
        <5> QED BY <3>1, <4>2, <5>1
      <4>3. CASE i # m /\ i = 0
        BY <1>0, <3>1, <4>3
      <4> QED BY <4>1, <4>2, <4>3
    <3>3. g = [i \in 0 .. m |-> g[i]]
      OBVIOUS
    <3> HIDE DEF g
    <3>4. Def(g, m)
      BY <3>2, <3>3
    <3> QED BY <3>4
  <2> HIDE DEF S
  <2>3. 0 .. n \subseteq S
    BY <1>0, <2>1, <2>2, UpTo
  <2>4. n \in S
    BY <1>0, <2>3
  <2> HIDE DEF Def
  <2> QED BY <2>4 DEF S
<1>2. Def(scan, n)
  <2>1. \E f : f = [i \in 0 .. n |-> IF i <= i0 THEN v
                                   ELSE MdStep(ch.md_blocks[i - 1], i - 1, f[i - 1])]
    BY <1>1
  <2> QED BY <2>1
<1>3. pcpu_next_md_free_region(ch, off) = scan[n]
  BY <1>31
<1> HIDE DEF scan
<1>4. /\ \A i \in 0 .. n : i <= i0 => scan[i] = v
      /\ \A i \in 0 .. n : ~ (i <= i0) => scan[i] = G(scan[i - 1], i)
  <2> HIDE DEF G
  <2> QED BY <1>0, <1>2
<1> HIDE DEF Def
<1>5. CASE n <= i0
  <2>1. scan[n] = v
    BY <1>0, <1>4, <1>5
  <2>2. n * Blk <= i0 * Blk
    BY <1>0, <1>5, BlockOrder
  <2>3. off >= n * Blk
    BY <1>0, <2>2
  <2>4. \A p \in 0 .. n - 1 : p * Blk \in Nat /\ p * Blk + Blk <= n * Blk
    BY <1>0, BlockOrder
  <2>5. \A p \in 0 .. n - 1 : ~ (off <= p * Blk)
    BY <1>0, <2>3, <2>4
  <2>6. AllSet(ch.alloc_map, 0, off) => AllSet(ch.alloc_map, 0, n * Blk)
    BY <1>0, <2>3 DEF AllSet
  <2> QED BY <1>0, <1>3, <1>30, <2>1, <2>3, <2>5, <2>6 DEF RegionOk, n
<1>6. CASE i0 < n
  <2>1. Fresh(ch, off, i0, v)
    <3>1. off % Blk = 0 \/ off - 1 \in ch.alloc_map
      <4>1. i0 * Blk + Blk <= n * Blk
        BY <1>0, <1>6, BlockOrder
      <4>2. ~ (off > n * Blk)
        BY <1>0, <4>1
      <4>3. off = 0 => off % Blk = 0
        BY <1>0
      <4> QED BY <4>2, <4>3 DEF OffOk, n
    <3> QED BY <1>0, <1>30, <3>1 DEF Fresh
  <2> DEFINE S == {i \in i0 + 1 .. n : MdInv(ch, off, i, scan[i])}
  <2>2. ASSUME NEW i \in 0 .. n - 1, i >= i0, Fresh(ch, off, i, scan[i]) \/ MdInv(ch, off, i, scan[i])
        PROVE  MdInv(ch, off, i + 1, scan[i + 1])
    <3>1. i + 1 \in 0 .. n /\ ~ (i + 1 <= i0)
      BY <1>0, <2>2
    <3>2. scan[i + 1] = MdStep(ch.md_blocks[(i + 1) - 1], (i + 1) - 1, scan[(i + 1) - 1])
      BY <1>4, <3>1
    <3>3. (i + 1) - 1 = i
      BY <1>32
    <3>4. MdInv(ch, off, i + 1, MdStep(ch.md_blocks[i], i, scan[i]))
      BY <1>0, <2>2, MdRound DEF n
    <3> QED BY <3>2, <3>3, <3>4
  <2>3. i0 + 1 \in S
    <3>1. scan[i0] = v /\ i0 \in 0 .. n - 1
      BY <1>0, <1>4, <1>6
    <3>2. MdInv(ch, off, i0 + 1, scan[i0 + 1])
      BY <1>0, <2>1, <2>2, <3>1
    <3> QED BY <1>0, <1>6, <3>2
  <2>4. ASSUME NEW i \in (i0 + 1) + 1 .. n, i - 1 \in S PROVE i \in S
    <3>1. i - 1 \in 0 .. n - 1 /\ i - 1 >= i0 /\ (i - 1) + 1 = i /\ i \in i0 + 1 .. n
      BY <1>0
    <3>2. MdInv(ch, off, i - 1, scan[i - 1])
      BY <2>4
    <3>3. MdInv(ch, off, (i - 1) + 1, scan[(i - 1) + 1])
      BY <2>2, <3>1, <3>2
    <3> QED BY <3>1, <3>3
  <2> HIDE DEF S
  <2>5. i0 + 1 .. n \subseteq S
    <3>1. i0 + 1 \in Nat
      BY <1>0
    <3> QED BY <1>0, <2>3, <2>4, <3>1, UpTo
  <2>6. MdInv(ch, off, n, scan[n])
    BY <1>0, <1>6, <2>5 DEF S
  <2>7. PICK r : r = scan[n]
    OBVIOUS
  <2>8. MdInv(ch, off, n, r)
    BY <2>6, <2>7
  <2>9. r.bit_off \in Nat /\ r.bits \in Nat /\ off <= r.bit_off
    BY <2>8 DEF MdInv, Region
  <2>10. r.bit_off + r.bits <= n * Blk
         /\ (r.bit_off + r.bits = n * Blk \/ r.bit_off + r.bits \in ch.alloc_map)
    BY <1>0, <2>8, <2>9 DEF MdInv
  <2>11. r.bits = 0 => r.bit_off >= n * Blk
    BY <1>0, <2>8, <2>9 DEF MdInv
  <2>12. r.bit_off >= n * Blk => r.bits = 0
    BY <1>0, <2>9, <2>10
  <2>13. Clear(ch.alloc_map, r.bit_off, r.bit_off + r.bits)
    BY <2>8 DEF MdInv
  <2>14. \A p \in 0 .. n - 1 : FreePage(ch, p) /\ off <= p * Blk => r.bit_off <= p * Blk
    BY <2>8 DEF MdInv, n
  <2>15. AllSet(ch.alloc_map, 0, off) /\ r.bits = 0 => AllSet(ch.alloc_map, 0, n * Blk)
    BY <2>8 DEF MdInv
  <2>16. RegionOk(ch, off, r)
    BY <2>9, <2>10, <2>11, <2>12, <2>13, <2>14, <2>15 DEF RegionOk, n
  <2> QED BY <1>3, <2>7, <2>16
<1> QED BY <1>0, <1>5, <1>6

-----------------------------------------------------------------------------
(* The hints of a chunk *)

ChunkRec ==
    [nr_pages : Nat, alloc_map : SUBSET Nat, bound_map : SUBSET Nat,
     md_blocks : UNION {[0 .. p - 1 -> BlockRec] : p \in Nat},
     contig_bits : Nat, contig_bits_start : Nat, first_bit : Nat, free_bytes : Int,
     populated : SUBSET Nat, nr_populated : Int, nr_empty_pop_pages : Nat, immutable : BOOLEAN]

(* Chunk u is ch but for what pcpu_chunk_refresh_hint and pcpu_chunk_update write. *)
Same(u, ch) ==
    /\ u.nr_pages = ch.nr_pages /\ u.alloc_map = ch.alloc_map /\ u.bound_map = ch.bound_map
    /\ u.md_blocks = ch.md_blocks /\ u.first_bit = ch.first_bit /\ u.free_bytes = ch.free_bytes
    /\ u.populated = ch.populated /\ u.nr_populated = ch.nr_populated
    /\ u.immutable = ch.immutable

LEMMA ChunkUpdate ==
    ASSUME NEW ch \in ChunkRec, NEW off \in Nat, NEW n \in Nat
    PROVE  LET u == pcpu_chunk_update(ch, off, n)
           IN  /\ u \in ChunkRec /\ Same(u, ch) /\ u.nr_empty_pop_pages = ch.nr_empty_pop_pages
               /\ u.contig_bits >= ch.contig_bits /\ u.contig_bits >= n
               /\ u.contig_bits = n \/ u.contig_bits = ch.contig_bits
               /\ u.contig_bits_start = off \/ u.contig_bits_start = ch.contig_bits_start
               /\ n > ch.contig_bits => u.contig_bits_start = off
<1>1. PICK cb, cs : cb = ch.contig_bits /\ cs = ch.contig_bits_start
  OBVIOUS
<1>2. cb \in Nat /\ cs \in Nat
  BY <1>1 DEF ChunkRec
<1>3. PICK cb2, cs2 : /\ cb2 = (IF n > cb THEN n ELSE cb)
                      /\ cs2 = (IF n > cb \/ (n = cb /\ BetterStart(off, cs)) THEN off ELSE cs)
  OBVIOUS
<1>4. /\ cb2 \in Nat /\ cs2 \in Nat /\ cb2 >= cb /\ cb2 >= n /\ (cb2 = n \/ cb2 = cb)
      /\ cs2 = off \/ cs2 = cs
      /\ n > cb => cs2 = off
  BY <1>2, <1>3
<1>5. PICK u : u = pcpu_chunk_update(ch, off, n)
  OBVIOUS
<1>6. u = [ch EXCEPT !.contig_bits = cb2, !.contig_bits_start = cs2]
  BY <1>1, <1>3, <1>5 DEF pcpu_chunk_update, ChunkRec
<1>7. u = [nr_pages |-> ch.nr_pages, alloc_map |-> ch.alloc_map, bound_map |-> ch.bound_map,
           md_blocks |-> ch.md_blocks, contig_bits |-> cb2, contig_bits_start |-> cs2,
           first_bit |-> ch.first_bit, free_bytes |-> ch.free_bytes, populated |-> ch.populated,
           nr_populated |-> ch.nr_populated, nr_empty_pop_pages |-> ch.nr_empty_pop_pages,
           immutable |-> ch.immutable]
  BY <1>6 DEF ChunkRec
<1>8. u \in ChunkRec
  BY <1>4, <1>7 DEF ChunkRec
<1>9. u.contig_bits = cb2 /\ u.contig_bits_start = cs2
      /\ u.nr_empty_pop_pages = ch.nr_empty_pop_pages
  BY <1>7
<1>10. Same(u, ch)
  BY <1>7 DEF Same
<1> QED BY <1>1, <1>4, <1>5, <1>8, <1>9, <1>10

(* Free pages that are populated, and those of them below bit off *)
EmptyPop(ch) == {p \in ch.populated : FreePage(ch, p)}
Counted(ch, off) == {p \in ch.populated : FreePage(ch, p) /\ p * Blk < off}

(* Contig hints that are in range, not 0 if a bit is free, and right if all are free *)
ContigOk(ch) ==
    /\ ch.contig_bits \in 0 .. ch.nr_pages * Blk /\ ch.contig_bits_start \in 0 .. ch.nr_pages * Blk
    /\ AllSet(ch.alloc_map, 0, ch.nr_pages * Blk) \/ ch.contig_bits # 0
    /\ Clear(ch.alloc_map, 0, ch.nr_pages * Blk)
          => ch.contig_bits = ch.nr_pages * Blk /\ ch.contig_bits_start = 0
EmptyOk(ch) == Cardinality(EmptyPop(ch)) <= ch.nr_empty_pop_pages

Refreshable(ch) ==
    /\ ch \in ChunkRec /\ ChunkHints(ch) /\ ch.populated \in SUBSET (0 .. ch.nr_pages - 1)
    /\ ch.first_bit <= ch.nr_pages * Blk /\ AllSet(ch.alloc_map, 0, ch.first_bit)
    /\ ch.contig_bits_start <= ch.nr_pages * Blk

(* pcpu_chunk_refresh_hint after k regions *)
RoundInv(ch, x, k) ==
    /\ x.chunk \in ChunkRec /\ Same(x.chunk, ch) /\ OffOk(ch, x.bit_off)
    /\ x.chunk.contig_bits <= ch.nr_pages * Blk /\ x.chunk.contig_bits_start <= ch.nr_pages * Blk
    /\ Cardinality(Counted(ch, x.bit_off)) <= x.chunk.nr_empty_pop_pages
    /\ IF x.chunk.contig_bits = 0 THEN x.bit_off = ch.first_bit ELSE x.bit_off > ch.first_bit
    /\ Clear(ch.alloc_map, 0, ch.nr_pages * Blk)
          => \/ x.bit_off = 0
             \/ /\ x.chunk.contig_bits = ch.nr_pages * Blk /\ x.chunk.contig_bits_start = 0
                /\ x.bit_off = ch.nr_pages * Blk + 1
    /\ \/ x.bit_off >= k
       \/ pcpu_next_md_free_region(ch, x.bit_off).bit_off >= ch.nr_pages * Blk

LEMMA ChunkRound ==
    ASSUME NEW ch, Refreshable(ch), NEW x, NEW k \in Nat, RoundInv(ch, x, k)
    PROVE  RoundInv(ch, ChunkStep(ch, x), k + 1)
<1>0. PICK N : N = ch.nr_pages * Blk
  OBVIOUS
<1>1. /\ Blk \in Nat /\ Blk >= 1 /\ ch.nr_pages \in Nat /\ ch.nr_pages >= 1 /\ N \in Nat /\ N >= 1
      /\ ch.alloc_map \in SUBSET (0 .. N - 1) /\ ch.first_bit \in Nat /\ ch.first_bit <= N
      /\ ChunkHints(ch) /\ ch.populated \in SUBSET (0 .. ch.nr_pages - 1)
      /\ AllSet(ch.alloc_map, 0, ch.first_bit)
  <2>1. /\ Blk \in Nat /\ Blk >= 1 /\ ch.nr_pages \in Nat /\ ch.nr_pages >= 1
        /\ ch.alloc_map \in SUBSET (0 .. N - 1) /\ ch.first_bit \in Nat /\ ch.first_bit <= N
        /\ ChunkHints(ch) /\ ch.populated \in SUBSET (0 .. ch.nr_pages - 1)
        /\ AllSet(ch.alloc_map, 0, ch.first_bit)
    BY <1>0, Sizes DEF Refreshable, ChunkHints, ChunkRec
  <2>2. 1 * Blk <= ch.nr_pages * Blk
    BY <2>1, MulLeq
  <2> QED BY <1>0, <2>1, <2>2
<1>2. PICK c, off, r : c = x.chunk /\ off = x.bit_off /\ r = pcpu_next_md_free_region(ch, off)
  OBVIOUS
<1>3. /\ c \in ChunkRec /\ Same(c, ch) /\ OffOk(ch, off) /\ off \in Nat
      /\ c.contig_bits <= N /\ c.contig_bits_start <= N
      /\ Cardinality(Counted(ch, off)) <= c.nr_empty_pop_pages
      /\ IF c.contig_bits = 0 THEN off = ch.first_bit ELSE off > ch.first_bit
      /\ Clear(ch.alloc_map, 0, N)
            => off = 0 \/ (c.contig_bits = N /\ c.contig_bits_start = 0 /\ off = N + 1)
      /\ off >= k \/ r.bit_off >= N
  BY <1>0, <1>2 DEF RoundInv, OffOk
<1>4. RegionOk(ch, off, r)
  BY <1>1, <1>2, <1>3, NextRegion
<1>5. r.bit_off \in Nat /\ r.bits \in Nat /\ off <= r.bit_off
  BY <1>4 DEF RegionOk
<1>6. CASE ~ (r.bit_off < N)
  <2>1. ChunkStep(ch, x) = x
    BY <1>0, <1>2, <1>6 DEF ChunkStep, pcpu_chunk_map_bits
  <2>2. r.bit_off >= N
    BY <1>1, <1>5, <1>6
  <2>3. RoundInv(ch, x, k + 1)
    BY <1>0, <1>2, <2>2 DEF RoundInv
  <2> QED BY <2>1, <2>3
<1>7. CASE r.bit_off < N
  <2>1. PICK rb, n : rb = r.bit_off /\ n = r.bits
    OBVIOUS
  <2>2. /\ rb \in Nat /\ n \in Nat /\ off <= rb /\ n > 0 /\ rb + n <= N /\ rb < N
        /\ Clear(ch.alloc_map, rb, rb + n)
        /\ rb + n = N \/ rb + n \in ch.alloc_map
        /\ \A p \in 0 .. ch.nr_pages - 1 : FreePage(ch, p) /\ off <= p * Blk => rb <= p * Blk
    BY <1>0, <1>1, <1>4, <1>5, <1>7, <2>1 DEF RegionOk
  <2>3. PICK u : u = pcpu_chunk_update(c, rb, n)
    OBVIOUS
  <2>4. /\ u \in ChunkRec /\ Same(u, c) /\ u.nr_empty_pop_pages = c.nr_empty_pop_pages
        /\ u.contig_bits >= c.contig_bits /\ u.contig_bits >= n
        /\ u.contig_bits = n \/ u.contig_bits = c.contig_bits
        /\ u.contig_bits_start = rb \/ u.contig_bits_start = c.contig_bits_start
        /\ n > c.contig_bits => u.contig_bits_start = rb
    BY <1>3, <2>2, <2>3, ChunkUpdate
  <2>5. PICK q : q = pcpu_cnt_pop_pages(ch, rb, n)
    OBVIOUS
  <2> DEFINE P == {p \in ch.populated : rb <= p * Blk /\ (p + 1) * Blk <= rb + n}
  <2>6. IsFiniteSet(ch.populated)
    <3>1. 0 \in Int /\ ch.nr_pages - 1 \in Int
      BY <1>1
    <3>2. IsFiniteSet(0 .. ch.nr_pages - 1)
      BY <3>1, FS_Interval
    <3> QED BY <1>1, <3>2, FS_Subset
  <2>7. q = Cardinality(P) /\ q \in Nat /\ IsFiniteSet(P)
    <3>1. IsFiniteSet(P)
      BY <2>6, FS_Subset
    <3>2. q = Cardinality(P)
      BY <2>5 DEF pcpu_cnt_pop_pages
    <3> HIDE DEF P
    <3> QED BY <3>1, <3>2, FS_CardinalityType
  <2>8. PICK w : w = [u EXCEPT !.nr_empty_pop_pages = @ + q]
    OBVIOUS
  <2>9. w = [nr_pages |-> u.nr_pages, alloc_map |-> u.alloc_map, bound_map |-> u.bound_map,
             md_blocks |-> u.md_blocks, contig_bits |-> u.contig_bits,
             contig_bits_start |-> u.contig_bits_start,
             first_bit |-> u.first_bit, free_bytes |-> u.free_bytes, populated |-> u.populated,
             nr_populated |-> u.nr_populated, nr_empty_pop_pages |-> u.nr_empty_pop_pages + q,
             immutable |-> u.immutable]
    BY <2>4, <2>8 DEF ChunkRec
  <2>10. w \in ChunkRec /\ Same(w, ch) /\ w.contig_bits = u.contig_bits
         /\ w.contig_bits_start = u.contig_bits_start
         /\ w.nr_empty_pop_pages = c.nr_empty_pop_pages + q
    <3>1. w.contig_bits = u.contig_bits /\ w.contig_bits_start = u.contig_bits_start
          /\ w.nr_empty_pop_pages = u.nr_empty_pop_pages + q
      BY <2>9
    <3>2. Same(w, u)
      BY <2>9 DEF Same
    <3>3. Same(w, ch)
      BY <1>3, <2>4, <3>2 DEF Same
    <3>4. u.nr_empty_pop_pages + q \in Nat
      BY <2>4, <2>7 DEF ChunkRec
    <3>5. w \in ChunkRec
      BY <2>4, <2>9, <3>4 DEF ChunkRec
    <3> QED BY <2>4, <3>1, <3>3, <3>5
  <2>11. PICK y : y = ChunkStep(ch, x)
    OBVIOUS
  <2>12. y = [chunk |-> w, bit_off |-> rb + n + 1]
    BY <1>0, <1>2, <1>7, <2>1, <2>3, <2>5, <2>8, <2>11 DEF ChunkStep, pcpu_chunk_map_bits
  <2>13. y.chunk = w /\ y.bit_off = rb + n + 1
    BY <2>12
  <2>14. OffOk(ch, y.bit_off)
    <3>1. rb + n + 1 \in Nat /\ (rb + n + 1) - 1 = rb + n
      BY <2>2
    <3>2. rb + n = N => rb + n + 1 > N
      BY <1>1, <2>2
    <3> QED BY <1>0, <2>2, <2>13, <3>1, <3>2 DEF OffOk
  <2>15. c.contig_bits \in Nat /\ c.contig_bits_start \in Nat /\ u.contig_bits \in Nat
         /\ u.contig_bits_start \in Nat /\ c.nr_empty_pop_pages \in Nat
    BY <1>3, <2>4 DEF ChunkRec
  <2>16. w.contig_bits <= N /\ w.contig_bits_start <= N /\ w.contig_bits # 0
    BY <1>1, <1>3, <2>2, <2>4, <2>10, <2>15
  <2>17. Cardinality(Counted(ch, y.bit_off)) <= w.nr_empty_pop_pages
    <3>1. ASSUME NEW p \in ch.populated, FreePage(ch, p), p * Blk < rb + n + 1, ~ (p * Blk < off)
          PROVE  p \in P
      <4>1. p \in 0 .. ch.nr_pages - 1 /\ p \in Nat
        BY <1>1, <3>1
      <4>2. p * Blk \in Nat /\ (p + 1) * Blk = p * Blk + Blk /\ p * Blk + Blk <= N
        BY <1>0, <1>1, <4>1, BlockOrder
      <4>3. rb <= p * Blk
        BY <1>3, <2>2, <3>1, <4>1, <4>2
      <4>4. \A z \in p * Blk .. p * Blk + Blk - 1 : z \notin ch.alloc_map
        BY <1>1, <3>1, <4>2 DEF FreePage, Clear
      <4>5. rb + n \notin p * Blk .. p * Blk + Blk - 1
        BY <1>1, <2>2, <4>2, <4>4
      <4>6. p * Blk + Blk <= rb + n
        BY <1>1, <2>2, <3>1, <4>2, <4>5
      <4> QED BY <4>2, <4>3, <4>6
    <3>2. Counted(ch, y.bit_off) \subseteq Counted(ch, off) \cup P
      <4> HIDE DEF P
      <4> QED BY <2>13, <3>1 DEF Counted
    <3>3. IsFiniteSet(Counted(ch, off))
      BY <2>6, FS_Subset DEF Counted
    <3> HIDE DEF P
    <3>4. PICK C, D : C = Counted(ch, off) /\ D = Counted(ch, y.bit_off)
      OBVIOUS
    <3>5. IsFiniteSet(C \cup P) /\ Cardinality(C \cup P) = Cardinality(C) + Cardinality(P) - Cardinality(C \cap P)
      BY <2>7, <3>3, <3>4, FS_Union
    <3>6. IsFiniteSet(C \cap P) /\ IsFiniteSet(C)
      BY <2>7, <3>3, <3>4, FS_Intersection
    <3>7. Cardinality(C \cap P) \in Nat /\ Cardinality(C) \in Nat
      BY <3>6, FS_CardinalityType
    <3>8. D \subseteq C \cup P
      BY <3>2, <3>4
    <3>9. IsFiniteSet(D) /\ Cardinality(D) <= Cardinality(C \cup P)
      BY <3>5, <3>8, FS_Subset
    <3>10. Cardinality(D) \in Nat
      BY <3>9, FS_CardinalityType
    <3>11. Cardinality(C) <= c.nr_empty_pop_pages
      BY <1>3, <3>4
    <3>12. PICK a1, a2, a3, a4 : a1 = Cardinality(C) /\ a2 = Cardinality(C \cap P)
              /\ a3 = Cardinality(D) /\ a4 = Cardinality(C \cup P)
      OBVIOUS
    <3>13. a3 <= c.nr_empty_pop_pages + q
      <4>1. a1 \in Nat /\ a2 \in Nat /\ a3 \in Nat /\ a4 = a1 + q - a2 /\ a3 <= a4
            /\ a1 <= c.nr_empty_pop_pages
        BY <2>7, <3>5, <3>7, <3>9, <3>10, <3>11, <3>12
      <4> QED BY <2>7, <2>15, <4>1
    <3> QED BY <2>10, <3>4, <3>12, <3>13
  <2>18. y.bit_off > ch.first_bit
    BY <1>1, <1>3, <2>2, <2>13
  <2>19. ASSUME Clear(ch.alloc_map, 0, N)
         PROVE  w.contig_bits = N /\ w.contig_bits_start = 0 /\ y.bit_off = N + 1
    <3>1. off = 0
      BY <1>1, <1>3, <2>2, <2>19
    <3>2. FreePage(ch, 0) /\ 0 \in 0 .. ch.nr_pages - 1 /\ 0 * Blk = 0
      <4>1. 0 * Blk = 0 /\ 0 * Blk + Blk <= N /\ 0 \in 0 .. ch.nr_pages - 1
        BY <1>0, <1>1, BlockOrder
      <4> QED BY <1>1, <2>19, <4>1 DEF FreePage, Clear
    <3>3. rb = 0
      BY <2>2, <3>1, <3>2
    <3>4. n = N
      <4>1. rb + n \notin ch.alloc_map
        BY <1>1, <2>2, <2>19 DEF Clear
      <4> QED BY <2>2, <3>3, <4>1
    <3>5. c.contig_bits = 0
      BY <1>1, <1>3, <2>15, <3>1
    <3> QED BY <1>1, <2>4, <2>10, <2>13, <2>15, <3>3, <3>4, <3>5
  <2>20. y.bit_off >= k + 1
    BY <1>1, <1>3, <1>7, <2>1, <2>2, <2>13
  <2>21. RoundInv(ch, y, k + 1)
    BY <1>0, <2>10, <2>13, <2>14, <2>16, <2>17, <2>18, <2>19, <2>20 DEF RoundInv
  <2> QED BY <2>11, <2>21
<1> QED BY <1>6, <1>7

(* Computed anew, the chunk's hints are as ContigOk and EmptyOk say. *)
LEMMA ChunkRefresh ==
    ASSUME NEW ch, Refreshable(ch)
    PROVE  LET r == pcpu_chunk_refresh_hint(ch)
           IN  r \in ChunkRec /\ Same(r, ch) /\ ContigOk(r) /\ EmptyOk(r)
<1> DEFINE N == ch.nr_pages * Blk
           M == N + 1
           v == [chunk |-> [ch EXCEPT !.contig_bits = 0, !.nr_empty_pop_pages = 0],
                 bit_off |-> ch.first_bit]
<1>0. /\ M \in Nat /\ N \in Nat /\ N >= 1 /\ 0 + 1 = 1 /\ M = N + 1
      /\ Blk \in Nat /\ Blk >= 1 /\ ch.nr_pages \in Nat /\ ch.nr_pages >= 1
      /\ ch.alloc_map \in SUBSET (0 .. N - 1) /\ ch.first_bit \in Nat /\ ch.first_bit <= N
      /\ ChunkHints(ch) /\ ch.populated \in SUBSET (0 .. ch.nr_pages - 1)
      /\ AllSet(ch.alloc_map, 0, ch.first_bit) /\ ch \in ChunkRec
      /\ ch.contig_bits_start \in Nat /\ ch.contig_bits_start <= N
  <2>1. /\ Blk \in Nat /\ Blk >= 1 /\ ch.nr_pages \in Nat /\ ch.nr_pages >= 1
        /\ ch.alloc_map \in SUBSET (0 .. N - 1) /\ ch.first_bit \in Nat /\ ch.first_bit <= N
        /\ ChunkHints(ch) /\ ch.populated \in SUBSET (0 .. ch.nr_pages - 1)
        /\ AllSet(ch.alloc_map, 0, ch.first_bit) /\ ch \in ChunkRec
        /\ ch.contig_bits_start \in Nat /\ ch.contig_bits_start <= N
    BY Sizes DEF Refreshable, ChunkHints, ChunkRec
  <2>2. 1 * Blk <= ch.nr_pages * Blk
    <3>1. 1 \in Int /\ ch.nr_pages \in Int /\ 1 <= ch.nr_pages /\ Blk \in Nat
      BY <2>1
    <3> HIDE DEF N, M, v
    <3> QED BY <3>1, MulLeq
  <2> QED BY <2>1, <2>2
<1>30. pcpu_chunk_refresh_hint(ch) =
        (CHOOSE f : f = [i \in 0 .. M |-> IF i = 0 THEN v ELSE ChunkStep(ch, f[i - 1])])[M].chunk
  BY DEF pcpu_chunk_refresh_hint, pcpu_chunk_map_bits
<1>31. IsFiniteSet(ch.populated)
  <2>1. 0 \in Int /\ ch.nr_pages - 1 \in Int
    BY <1>0
  <2>2. IsFiniteSet(0 .. ch.nr_pages - 1)
    BY <2>1, FS_Interval
  <2> QED BY <1>0, <2>2, FS_Subset
<1>32. RoundInv(ch, v, 0)
  <2>1. PICK c : c = v.chunk
    OBVIOUS
  <2>2. c = [nr_pages |-> ch.nr_pages, alloc_map |-> ch.alloc_map, bound_map |-> ch.bound_map,
             md_blocks |-> ch.md_blocks, contig_bits |-> 0,
             contig_bits_start |-> ch.contig_bits_start,
             first_bit |-> ch.first_bit, free_bytes |-> ch.free_bytes, populated |-> ch.populated,
             nr_populated |-> ch.nr_populated, nr_empty_pop_pages |-> 0,
             immutable |-> ch.immutable]
    BY <1>0, <2>1 DEF ChunkRec
  <2>3. c \in ChunkRec /\ c.contig_bits = 0 /\ c.contig_bits_start = ch.contig_bits_start
        /\ c.nr_empty_pop_pages = 0
    BY <1>0, <2>2 DEF ChunkRec
  <2>4. Same(c, ch)
    BY <2>2 DEF Same
  <2>5. v.bit_off = ch.first_bit
    OBVIOUS
  <2>6. OffOk(ch, ch.first_bit)
    BY <1>0 DEF OffOk, AllSet
  <2>7. Counted(ch, ch.first_bit) = {}
    <3> SUFFICES ASSUME NEW p \in ch.populated, FreePage(ch, p), p * Blk < ch.first_bit PROVE FALSE
      BY DEF Counted
    <3>1. p \in Nat /\ p * Blk \in Nat
      BY <1>0, BlockOrder
    <3>2. p * Blk \notin ch.alloc_map
      BY <1>0, <3>1 DEF FreePage, Clear
    <3> QED BY <1>0, <3>1, <3>2 DEF AllSet
  <2>8. Cardinality(Counted(ch, ch.first_bit)) <= 0
    BY <2>7, FS_EmptySet
  <2>9. Clear(ch.alloc_map, 0, N) => ch.first_bit = 0
    BY <1>0 DEF Clear, AllSet
  <2> HIDE DEF v, N, M
  <2>10. c.contig_bits <= N /\ c.contig_bits_start <= N /\ v.bit_off >= 0
    BY <1>0, <2>3, <2>5
  <2> QED BY <2>1, <2>3, <2>4, <2>5, <2>6, <2>8, <2>9, <2>10 DEF RoundInv, N
<1> HIDE DEF N, M, v
<1> DEFINE G(u, i) == ChunkStep(ch, u)
           Def(f, m) == f = [i \in 0 .. m |-> IF i = 0 THEN v ELSE G(f[i - 1], i)]
           round == CHOOSE f : f = [i \in 0 .. M |-> IF i = 0 THEN v
                                               ELSE ChunkStep(ch, f[i - 1])]
<1>1. \E f : Def(f, M)
  <2> DEFINE S == {m \in 0 .. M : \E f : Def(f, m)}
  <2> HIDE DEF G
  <2>1. 0 \in S
    <3> DEFINE f == [i \in 0 .. 0 |-> v]
    <3>1. Def(f, 0)
      BY <1>0
    <3> HIDE DEF Def
    <3> QED BY <1>0, <3>1
  <2>2. ASSUME NEW m \in 1 .. M, m - 1 \in S PROVE m \in S
    <3>1. PICK f : Def(f, m - 1)
      BY <2>2
    <3> DEFINE g == [i \in 0 .. m |-> IF i = m THEN (IF m = 0 THEN v ELSE G(f[m - 1], m)) ELSE f[i]]
    <3>2. ASSUME NEW i \in 0 .. m PROVE g[i] = IF i = 0 THEN v ELSE G(g[i - 1], i)
      <4>1. CASE i = m
        <5>1. g[i - 1] = f[m - 1]
          BY <1>0, <4>1
        <5> QED BY <4>1, <5>1
      <4>2. CASE i # m /\ i # 0
        <5>1. i \in 0 .. m - 1 /\ g[i] = f[i] /\ g[i - 1] = f[i - 1]
          BY <1>0, <4>2
        <5> QED BY <3>1, <4>2, <5>1
      <4>3. CASE i # m /\ i = 0
        BY <1>0, <3>1, <4>3
      <4> QED BY <4>1, <4>2, <4>3
    <3>3. g = [i \in 0 .. m |-> g[i]]
      OBVIOUS
    <3> HIDE DEF g
    <3>4. Def(g, m)
      BY <3>2, <3>3
    <3> QED BY <3>4
  <2> HIDE DEF S
  <2>3. 0 .. M \subseteq S
    BY <1>0, <2>1, <2>2, UpTo
  <2>4. M \in S
    BY <1>0, <2>3
  <2> HIDE DEF Def
  <2> QED BY <2>4 DEF S
<1>2. Def(round, M)
  <2>1. \E f : f = [i \in 0 .. M |-> IF i = 0 THEN v
                                   ELSE ChunkStep(ch, f[i - 1])]
    BY <1>1
  <2> QED BY <2>1
<1>3. pcpu_chunk_refresh_hint(ch) = round[M].chunk
  BY <1>30
<1> HIDE DEF round
<1>4. /\ \A i \in 0 .. M : i = 0 => round[i] = v
      /\ \A i \in 0 .. M : ~ (i = 0) => round[i] = G(round[i - 1], i)
  <2> HIDE DEF G
  <2> QED BY <1>0, <1>2
<1> HIDE DEF Def
<1> DEFINE S == {k \in 0 .. M : RoundInv(ch, round[k], k)}
<1>5. 0 \in S
  <2>1. round[0] = v
    BY <1>0, <1>4
  <2> QED BY <1>0, <1>32, <2>1
<1>6. ASSUME NEW k \in 0 + 1 .. M, k - 1 \in S PROVE k \in S
  <2>1. round[k] = ChunkStep(ch, round[k - 1])
    BY <1>0, <1>4
  <2>2. RoundInv(ch, round[k - 1], k - 1) /\ k - 1 \in Nat
    BY <1>0, <1>6
  <2>3. RoundInv(ch, ChunkStep(ch, round[k - 1]), (k - 1) + 1)
    BY <2>2, ChunkRound
  <2>4. (k - 1) + 1 = k /\ k \in 0 .. M
    BY <1>0
  <2> QED BY <2>1, <2>3, <2>4
<1> HIDE DEF S
<1>7. 0 .. M \subseteq S
  BY <1>0, <1>5, <1>6, UpTo
<1>8. RoundInv(ch, round[M], M)
  BY <1>0, <1>7 DEF S
<1>9. PICK x, r, off, z : /\ x = round[M] /\ r = x.chunk /\ off = x.bit_off
                          /\ z = pcpu_next_md_free_region(ch, off)
  OBVIOUS
<1>10. /\ r \in ChunkRec /\ Same(r, ch) /\ OffOk(ch, off) /\ off \in Nat
       /\ r.contig_bits <= N /\ r.contig_bits_start <= N
       /\ Cardinality(Counted(ch, off)) <= r.nr_empty_pop_pages
       /\ r.contig_bits = 0 => off = ch.first_bit
       /\ Clear(ch.alloc_map, 0, N)
             => off = 0 \/ (r.contig_bits = N /\ r.contig_bits_start = 0)
       /\ off >= M \/ z.bit_off >= N
  BY <1>8, <1>9 DEF RoundInv, OffOk, N
<1>11. RegionOk(ch, off, z)
  BY <1>0, <1>9, <1>10, NextRegion
<1>12. z.bit_off >= N /\ z.bit_off \in Nat
  BY <1>0, <1>10, <1>11 DEF RegionOk
<1>13. r.contig_bits \in Nat /\ r.contig_bits_start \in Nat
  BY <1>10 DEF ChunkRec
<1>14. r.contig_bits = 0 => AllSet(ch.alloc_map, 0, N)
  <2>1. r.contig_bits = 0 => AllSet(ch.alloc_map, 0, off)
    BY <1>0, <1>10
  <2> QED BY <1>11, <1>12, <2>1 DEF RegionOk, N
<1>15. ASSUME Clear(ch.alloc_map, 0, N) PROVE r.contig_bits = N /\ r.contig_bits_start = 0
  <2>1. off # 0
    <3>1. SUFFICES ASSUME off = 0 PROVE FALSE
      OBVIOUS
    <3>2. AllSet(ch.alloc_map, 0, off)
      BY <3>1 DEF AllSet
    <3>3. AllSet(ch.alloc_map, 0, N)
      BY <1>11, <1>12, <3>2 DEF RegionOk, N
    <3> QED BY <1>0, <1>15, <3>3 DEF AllSet, Clear
  <2> QED BY <1>10, <1>15, <2>1
<1>16. ContigOk(r)
  <2>1. r.nr_pages * Blk = N /\ r.alloc_map = ch.alloc_map
    BY <1>10 DEF Same, N
  <2>2. r.contig_bits \in 0 .. N /\ r.contig_bits_start \in 0 .. N
    BY <1>0, <1>10, <1>13
  <2> QED BY <1>14, <1>15, <2>1, <2>2 DEF ContigOk
<1>17. EmptyOk(r)
  <2>1. EmptyPop(r) = EmptyPop(ch)
    BY <1>10 DEF EmptyPop, Same, FreePage
  <2>2. EmptyPop(ch) \subseteq Counted(ch, off)
    <3> SUFFICES ASSUME NEW p \in ch.populated, FreePage(ch, p), ~ (p * Blk < off) PROVE FALSE
      BY DEF EmptyPop, Counted
    <3>1. p \in 0 .. ch.nr_pages - 1 /\ p \in Nat
      BY <1>0
    <3>2. p * Blk \in Nat /\ p * Blk + Blk <= N
      BY <1>0, <3>1, BlockOrder DEF N
    <3>3. z.bit_off <= p * Blk
      BY <1>10, <1>11, <3>1, <3>2 DEF RegionOk
    <3> QED BY <1>0, <1>12, <3>2, <3>3
  <2>3. IsFiniteSet(Counted(ch, off))
    BY <1>31, FS_Subset DEF Counted
  <2>4. PICK C, D : C = Counted(ch, off) /\ D = EmptyPop(ch)
    OBVIOUS
  <2>5. D \in SUBSET C /\ IsFiniteSet(C)
    BY <2>2, <2>3, <2>4
  <2>6. Cardinality(D) <= Cardinality(C) /\ IsFiniteSet(D)
    BY <2>5, FS_Subset
  <2>7. Cardinality(D) \in Nat /\ Cardinality(C) \in Nat
    BY <2>5, <2>6, FS_CardinalityType
  <2>8. r.nr_empty_pop_pages \in Nat /\ Cardinality(C) <= r.nr_empty_pop_pages
    BY <1>10, <2>4 DEF ChunkRec
  <2>9. Cardinality(D) <= r.nr_empty_pop_pages
    BY <2>6, <2>7, <2>8
  <2> QED BY <2>1, <2>4, <2>9 DEF EmptyOk
<1> QED BY <1>3, <1>9, <1>10, <1>16, <1>17

-----------------------------------------------------------------------------
(* Allocation and free, seen from the blocks *)

(* The blocks and places of the first and the last of the bits [off, off + n) *)
Span(off, n, si, s, ei, e) ==
    /\ si = pcpu_off_to_block_index(off) /\ s = pcpu_off_to_block_off(off)
    /\ ei = pcpu_off_to_block_index(off + n - 1) /\ e = pcpu_off_to_block_off(off + n - 1) + 1

LEMMA Spans ==
    ASSUME NEW off \in Nat, NEW n \in Nat \ {0}, NEW si, NEW s, NEW ei, NEW e,
           Span(off, n, si, s, ei, e)
    PROVE  /\ si \in Nat /\ ei \in Nat /\ si <= ei /\ s \in 0 .. Blk - 1 /\ e \in 1 .. Blk
           /\ si * Blk \in Nat /\ ei * Blk \in Nat
           /\ off = si * Blk + s /\ off + n = ei * Blk + e
           /\ si = ei => e = s + n
           /\ si < ei => s + n >= Blk
<1>0. Blk \in Nat /\ Blk >= 1
  BY Sizes
<1>1. off + n - 1 \in Nat
  OBVIOUS
<1>2. si = off \div Blk /\ s = off % Blk
      /\ ei = (off + n - 1) \div Blk /\ e = ((off + n - 1) % Blk) + 1
  BY DEF Span, pcpu_off_to_block_index, pcpu_off_to_block_off
<1>3. si \in Nat /\ s \in 0 .. Blk - 1 /\ off = si * Blk + s
  BY <1>2, InBlock
<1>4. PICK l : l = off + n - 1
  OBVIOUS
<1>5. ei \in Nat /\ l % Blk \in 0 .. Blk - 1 /\ l = ei * Blk + (l % Blk)
  BY <1>1, <1>2, <1>4, InBlock
<1>6. e \in 1 .. Blk /\ l = ei * Blk + (e - 1) /\ si * Blk \in Nat /\ ei * Blk \in Nat
  BY <1>0, <1>2, <1>3, <1>4, <1>5
<1>7. off + n = ei * Blk + e
  BY <1>4, <1>6, <1>0
<1>8. si <= ei
  <2>1. SUFFICES ASSUME ei < si PROVE FALSE
    BY <1>3, <1>5
  <2>2. ei * Blk + Blk <= si * Blk
    BY <1>3, <1>5, <2>1, BlockOrder
  <2> QED BY <1>0, <1>3, <1>6, <1>7, <2>2
<1>9. si = ei => e = s + n
  BY <1>0, <1>3, <1>6, <1>7
<1>10. si < ei => s + n >= Blk
  <2>1. si < ei => si * Blk + Blk <= ei * Blk
    BY <1>3, <1>5, BlockOrder
  <2> QED BY <1>0, <1>3, <1>6, <1>7, <2>1
<1> QED BY <1>3, <1>5, <1>6, <1>7, <1>8, <1>9, <1>10

(* Which bits of block i are among them *)
LEMMA Overlap ==
    ASSUME NEW off \in Nat, NEW n \in Nat \ {0}, NEW si, NEW s, NEW ei, NEW e,
           Span(off, n, si, s, ei, e), NEW i \in Nat
    PROVE  \A x \in 0 .. Blk - 1 : i * Blk + x \in off .. off + n - 1 <=>
              /\ si <= i /\ i <= ei
              /\ i = si => s <= x
              /\ i = ei => x < e
<1>0. Blk \in Nat /\ Blk >= 1 /\ i * Blk \in Nat
  BY Sizes
<1>1. /\ si \in Nat /\ ei \in Nat /\ si <= ei /\ s \in 0 .. Blk - 1 /\ e \in 1 .. Blk
      /\ si * Blk \in Nat /\ ei * Blk \in Nat
      /\ off = si * Blk + s /\ off + n = ei * Blk + e
  BY Spans
<1>2. /\ i < si => i * Blk + Blk <= si * Blk
      /\ si < i => si * Blk + Blk <= i * Blk
      /\ i < ei => i * Blk + Blk <= ei * Blk
      /\ ei < i => ei * Blk + Blk <= i * Blk
  <2>1. i \in Int /\ si \in Int /\ ei \in Int
    BY <1>1
  <2>2. i < si => i * Blk + Blk <= si * Blk
    BY <2>1, BlockOrder
  <2>3. si < i => si * Blk + Blk <= i * Blk
    BY <2>1, BlockOrder
  <2>4. i < ei => i * Blk + Blk <= ei * Blk
    BY <2>1, BlockOrder
  <2>5. ei < i => ei * Blk + Blk <= i * Blk
    BY <2>1, BlockOrder
  <2> QED BY <2>2, <2>3, <2>4, <2>5
<1> SUFFICES ASSUME NEW x \in 0 .. Blk - 1
             PROVE  i * Blk + x \in off .. off + n - 1 <=>
                      /\ si <= i /\ i <= ei
                      /\ i = si => s <= x
                      /\ i = ei => x < e
  OBVIOUS
<1>3. PICK I, SI, EI : I = i * Blk /\ SI = si * Blk /\ EI = ei * Blk
  OBVIOUS
<1>4. I + x >= off <=> (si <= i /\ (i = si => s <= x))
  <2>1. CASE i < si
    BY <1>0, <1>1, <1>2, <1>3, <2>1
  <2>2. CASE i = si
    BY <1>0, <1>1, <1>2, <1>3, <2>2
  <2>3. CASE si < i
    BY <1>0, <1>1, <1>2, <1>3, <2>3
  <2> QED BY <1>1, <2>1, <2>2, <2>3
<1>5. I + x < off + n <=> (i <= ei /\ (i = ei => x < e))
  <2>1. CASE i < ei
    BY <1>0, <1>1, <1>2, <1>3, <2>1
  <2>2. CASE i = ei
    BY <1>0, <1>1, <1>2, <1>3, <2>2
  <2>3. CASE ei < i
    BY <1>0, <1>1, <1>2, <1>3, <2>3
  <2> QED BY <1>1, <2>1, <2>2, <2>3
<1>6. I + x \in off .. off + n - 1 <=> (I + x >= off /\ I + x < off + n)
  BY <1>0, <1>1, <1>3
<1> QED BY <1>3, <1>4, <1>5, <1>6

(* The bits of block i in a bitmap of a chunk *)
OldMap(A, i) == {x \in 0 .. Blk - 1 : i * Blk + x \in A}

(* Chunk u is ch but for its hints. *)
SameBits(u, ch) ==
    /\ u.nr_pages = ch.nr_pages /\ u.alloc_map = ch.alloc_map /\ u.bound_map = ch.bound_map
    /\ u.first_bit = ch.first_bit /\ u.free_bytes = ch.free_bytes
    /\ u.populated = ch.populated /\ u.nr_populated = ch.nr_populated
    /\ u.immutable = ch.immutable

(* A chunk whose bits [off, off + n) have changed, while its hints are those of bitmap A *)
Changed(ch, A, off, n) ==
    /\ ch \in ChunkRec /\ ch.nr_pages \in Nat \ {0}
    /\ ch.md_blocks \in [0 .. ch.nr_pages - 1 -> BlockRec]
    /\ off \in Nat /\ n \in Nat \ {0} /\ off + n <= ch.nr_pages * Blk
    /\ A \in SUBSET (0 .. ch.nr_pages * Blk - 1)
    /\ ch.alloc_map \in SUBSET (0 .. ch.nr_pages * Blk - 1)
    /\ \A i \in 0 .. ch.nr_pages - 1 : BlockInv(ch.md_blocks[i], OldMap(A, i))
    /\ ch.populated \in SUBSET (0 .. ch.nr_pages - 1)
    /\ ch.first_bit <= ch.nr_pages * Blk /\ AllSet(ch.alloc_map, 0, ch.first_bit)
    /\ ch.contig_bits_start <= ch.nr_pages * Blk

(* New hints for the blocks make a chunk that can be refreshed. *)
HintsFor(ch, mb) ==
    /\ DOMAIN mb = 0 .. ch.nr_pages - 1 /\ mb = [i \in DOMAIN mb |-> mb[i]]
    /\ \A i \in 0 .. ch.nr_pages - 1 : BlockInv(mb[i], pcpu_index_alloc_map(ch, i))

LEMMA NewBlocks ==
    ASSUME NEW ch, NEW A, NEW off, NEW n, Changed(ch, A, off, n), NEW mb, HintsFor(ch, mb),
           NEW new, new = [ch EXCEPT !.md_blocks = mb]
    PROVE  /\ new \in ChunkRec /\ SameBits(new, ch) /\ new.md_blocks = mb
           /\ mb \in [0 .. ch.nr_pages - 1 -> BlockRec]
           /\ new.contig_bits = ch.contig_bits /\ new.contig_bits_start = ch.contig_bits_start
           /\ new.nr_empty_pop_pages = ch.nr_empty_pop_pages
           /\ ChunkHints(new) /\ Refreshable(new)
<1>1. ch \in ChunkRec /\ ch.nr_pages \in Nat \ {0}
  BY DEF Changed
<1>2. \A i \in 0 .. ch.nr_pages - 1 : mb[i] \in BlockRec
  BY DEF BlockInv, HintsFor
<1>3. mb \in [0 .. ch.nr_pages - 1 -> BlockRec]
  BY <1>2 DEF HintsFor
<1>4. mb \in UNION {[0 .. p - 1 -> BlockRec] : p \in Nat}
  BY <1>1, <1>3
<1>5. new = [nr_pages |-> ch.nr_pages, alloc_map |-> ch.alloc_map, bound_map |-> ch.bound_map,
             md_blocks |-> mb, contig_bits |-> ch.contig_bits,
             contig_bits_start |-> ch.contig_bits_start,
             first_bit |-> ch.first_bit, free_bytes |-> ch.free_bytes, populated |-> ch.populated,
             nr_populated |-> ch.nr_populated, nr_empty_pop_pages |-> ch.nr_empty_pop_pages,
             immutable |-> ch.immutable]
  BY <1>1 DEF ChunkRec
<1>6. new \in ChunkRec
  BY <1>1, <1>4, <1>5 DEF ChunkRec
<1>7. new.md_blocks = mb /\ SameBits(new, ch)
      /\ new.contig_bits = ch.contig_bits /\ new.contig_bits_start = ch.contig_bits_start
      /\ new.nr_empty_pop_pages = ch.nr_empty_pop_pages
  BY <1>5 DEF SameBits
<1>8. \A i \in 0 .. ch.nr_pages - 1 : pcpu_index_alloc_map(new, i) = pcpu_index_alloc_map(ch, i)
  BY <1>7 DEF SameBits, pcpu_index_alloc_map
<1>9. ChunkHints(new)
  <2>1. new.nr_pages = ch.nr_pages /\ new.alloc_map = ch.alloc_map
    BY <1>7 DEF SameBits
  <2>2. ch.alloc_map \in SUBSET (0 .. ch.nr_pages * Blk - 1)
    BY DEF Changed
  <2> QED BY <1>1, <1>7, <1>8, <2>1, <2>2 DEF ChunkHints, HintsFor
<1>10. Refreshable(new)
  BY <1>6, <1>7, <1>9 DEF Refreshable, SameBits, Changed
<1> QED BY <1>3, <1>6, <1>7, <1>9, <1>10

(* What pcpu_block_update_hint_alloc and _free promise of the hints *)
Rehinted(r, ch) ==
    /\ r \in ChunkRec /\ SameBits(r, ch) /\ ChunkHints(r)
    /\ r.md_blocks \in [0 .. ch.nr_pages - 1 -> BlockRec]

LEMMA Refreshed ==
    ASSUME NEW ch, NEW new, Refreshable(new), SameBits(new, ch),
           new.md_blocks \in [0 .. ch.nr_pages - 1 -> BlockRec]
    PROVE  LET r == pcpu_chunk_refresh_hint(new)
           IN  Rehinted(r, ch) /\ ContigOk(r) /\ EmptyOk(r)
<1>1. PICK r : r = pcpu_chunk_refresh_hint(new)
  OBVIOUS
<1>2. r \in ChunkRec /\ Same(r, new) /\ ContigOk(r) /\ EmptyOk(r)
  BY <1>1, ChunkRefresh
<1>3. SameBits(r, ch) /\ r.md_blocks = new.md_blocks
  BY <1>2 DEF Same, SameBits
<1>4. ChunkHints(new)
  BY DEF Refreshable
<1>5. \A i : pcpu_index_alloc_map(r, i) = pcpu_index_alloc_map(new, i)
  BY <1>2 DEF Same, pcpu_index_alloc_map
<1>6. ChunkHints(r)
  BY <1>2, <1>4, <1>5 DEF ChunkHints, Same
<1>7. Rehinted(r, ch)
  BY <1>2, <1>3, <1>6 DEF Rehinted
<1> QED BY <1>1, <1>2, <1>7

LEMMA HintAlloc ==
    ASSUME NEW ch, NEW A, NEW off, NEW n, Changed(ch, A, off, n),
           ch.alloc_map = A \cup (off .. off + n - 1), Clear(A, off, off + n)
    PROVE  LET r == pcpu_block_update_hint_alloc(ch, off, n)
           IN  /\ Rehinted(r, ch)
               /\ \/ ContigOk(r) /\ EmptyOk(r)
                  \/ /\ r.contig_bits = ch.contig_bits
                     /\ r.contig_bits_start = ch.contig_bits_start
                     /\ r.nr_empty_pop_pages = ch.nr_empty_pop_pages
                     /\ ~ (/\ ch.contig_bits_start <= off
                           /\ off < ch.contig_bits_start + ch.contig_bits)
<1>0. Blk \in Nat /\ Blk >= 1
  BY Sizes
<1>1. /\ ch \in ChunkRec /\ ch.nr_pages \in Nat \ {0}
      /\ ch.md_blocks \in [0 .. ch.nr_pages - 1 -> BlockRec]
      /\ off \in Nat /\ n \in Nat \ {0} /\ off + n <= ch.nr_pages * Blk
      /\ \A i \in 0 .. ch.nr_pages - 1 : BlockInv(ch.md_blocks[i], OldMap(A, i))
  BY DEF Changed
<1>2. PICK si, s, ei, e : Span(off, n, si, s, ei, e)
  BY DEF Span
<1>3. /\ si \in Nat /\ ei \in Nat /\ si <= ei /\ s \in 0 .. Blk - 1 /\ e \in 1 .. Blk
      /\ si * Blk \in Nat /\ ei * Blk \in Nat
      /\ off = si * Blk + s /\ off + n = ei * Blk + e
      /\ si = ei => e = s + n
      /\ si < ei => s + n >= Blk
  BY <1>1, <1>2, Spans
<1>4. ei < ch.nr_pages
  <2>1. SUFFICES ASSUME ch.nr_pages <= ei PROVE FALSE
    BY <1>1, <1>3
  <2>2. PICK np : np = ch.nr_pages
    OBVIOUS
  <2>3. np \in Int /\ ei \in Int /\ np <= ei
    BY <1>1, <1>3, <2>1, <2>2
  <2>4. np * Blk <= ei * Blk /\ np * Blk \in Int
    BY <2>3, BlockOrder
  <2>5. PICK N, EB : N = np * Blk /\ EB = ei * Blk
    OBVIOUS
  <2>6. off + n <= N /\ off + n = EB + e /\ N <= EB /\ EB \in Nat /\ N \in Int /\ e \in 1 .. Blk
    BY <1>1, <1>3, <2>2, <2>4, <2>5
  <2> QED BY <1>0, <1>1, <2>6
<1>5. ASSUME NEW i \in 0 .. ch.nr_pages - 1
      PROVE  /\ OldMap(A, i) \in SUBSET (0 .. Blk - 1) /\ i \in Nat
             /\ \A x \in 0 .. Blk - 1 :
                   x \in pcpu_index_alloc_map(ch, i) <=>
                     \/ x \in OldMap(A, i)
                     \/ si <= i /\ i <= ei /\ (i = si => s <= x) /\ (i = ei => x < e)
             /\ \A x \in 0 .. Blk - 1 :
                   si <= i /\ i <= ei /\ (i = si => s <= x) /\ (i = ei => x < e)
                     => x \notin OldMap(A, i)
             /\ pcpu_index_alloc_map(ch, i) \in SUBSET (0 .. Blk - 1)
  <2>1. i \in Nat
    BY <1>1
  <2>2. \A x \in 0 .. Blk - 1 : i * Blk + x \in off .. off + n - 1 <=>
              /\ si <= i /\ i <= ei
              /\ i = si => s <= x
              /\ i = ei => x < e
    BY <1>1, <1>2, <2>1, Overlap
  <2>3. \A x \in 0 .. Blk - 1 : x \in OldMap(A, i) <=> i * Blk + x \in A
    BY DEF OldMap
  <2>4. \A x \in 0 .. Blk - 1 : x \in pcpu_index_alloc_map(ch, i) <=>
            (i * Blk + x \in A \/ i * Blk + x \in off .. off + n - 1)
    BY DEF pcpu_index_alloc_map
  <2>5. \A y \in off .. off + n - 1 : y \notin A
    BY <1>1 DEF Clear
  <2>6. pcpu_index_alloc_map(ch, i) \in SUBSET (0 .. Blk - 1) /\ OldMap(A, i) \in SUBSET (0 .. Blk - 1)
    BY DEF pcpu_index_alloc_map, OldMap
  <2> QED BY <2>1, <2>2, <2>3, <2>4, <2>5, <2>6
<1> DEFINE mb == [i \in 0 .. ch.nr_pages - 1 |->
                    CASE i = si -> StartBlock(ch, off, n, si = ei)
                      [] si < i /\ i < ei -> Full(ch.md_blocks[i])
                      [] si < i /\ i = ei -> EndBlock(ch, i, e)
                      [] OTHER -> ch.md_blocks[i]]
<1>6. ASSUME NEW i \in 0 .. ch.nr_pages - 1 PROVE BlockInv(mb[i], pcpu_index_alloc_map(ch, i))
  <2>0. PICK old, map : old = OldMap(A, i) /\ map = pcpu_index_alloc_map(ch, i)
    OBVIOUS
  <2>1. /\ old \in SUBSET (0 .. Blk - 1) /\ i \in Nat /\ map \in SUBSET (0 .. Blk - 1)
        /\ \A x \in 0 .. Blk - 1 :
              x \in map <=>
                \/ x \in old
                \/ si <= i /\ i <= ei /\ (i = si => s <= x) /\ (i = ei => x < e)
        /\ \A x \in 0 .. Blk - 1 :
              si <= i /\ i <= ei /\ (i = si => s <= x) /\ (i = ei => x < e) => x \notin old
        /\ BlockInv(ch.md_blocks[i], old)
    BY <1>1, <1>5, <2>0
  <2>2. CASE i = si
    <3>1. PICK E : E = IF si = ei THEN e ELSE Blk
      OBVIOUS
    <3>2. E \in 0 .. Blk /\ s \in 0 .. Blk /\ s < E
      <4>1. n \in Nat /\ n >= 1 /\ s \in 0 .. Blk - 1 /\ e \in 1 .. Blk /\ (si = ei => e = s + n)
        BY <1>1, <1>3
      <4> QED BY <1>0, <3>1, <4>1
    <3>3. \A x \in 0 .. Blk - 1 : (si <= i /\ i <= ei /\ (i = si => s <= x) /\ (i = ei => x < e))
                                     <=> x \in s .. E - 1
      BY <1>0, <1>3, <2>2, <3>1, <3>2
    <3>20. s .. E - 1 \subseteq 0 .. Blk - 1
      BY <1>0, <3>2
    <3>21. \A x \in 0 .. Blk - 1 : x \in map <=> (x \in old \/ x \in s .. E - 1)
      BY <2>1, <3>3
    <3>4. map = old \cup (s .. E - 1)
      BY <2>1, <3>20, <3>21
    <3>5. Clear(old, s, E)
      BY <1>0, <2>1, <3>2, <3>3 DEF Clear
    <3>6. si = off \div Blk /\ s = off % Blk
      BY <1>2 DEF Span, pcpu_off_to_block_index, pcpu_off_to_block_off
    <3>7. Taking(ch, off \div Blk, old, off % Blk, E)
      BY <2>0, <2>1, <2>2, <3>2, <3>4, <3>5, <3>6 DEF Taking
    <3>8. IF si = ei THEN E = (off % Blk) + n ELSE E = Blk /\ (off % Blk) + n >= Blk
      BY <1>3, <3>1, <3>6
    <3>9. PICK only \in BOOLEAN : only = (si = ei)
      OBVIOUS
    <3>10. IF only THEN E = (off % Blk) + n ELSE E = Blk /\ (off % Blk) + n >= Blk
      BY <3>8, <3>9
    <3>11. n \in Nat
      BY <1>1
    <3>12. BlockInv(StartBlock(ch, off, n, only), pcpu_index_alloc_map(ch, off \div Blk))
      BY <1>1, <3>7, <3>10, <3>11, StartBlockOk
    <3>13. mb[i] = StartBlock(ch, off, n, only)
      BY <2>2, <3>9
    <3> QED BY <2>2, <3>6, <3>12, <3>13
  <2>3. CASE si < i /\ i < ei
    <3>1. mb[i] = Full(ch.md_blocks[i])
      BY <1>3, <2>1, <2>3
    <3>20. si <= i /\ i <= ei /\ i # si /\ i # ei
      BY <1>3, <2>1, <2>3
    <3>21. \A x \in 0 .. Blk - 1 : x \in map
      BY <2>1, <3>20
    <3>2. map = 0 .. Blk - 1
      BY <2>1, <3>21
    <3>3. ch.md_blocks[i] \in BlockRec
      BY <1>1
    <3>4. BlockInv(Full(ch.md_blocks[i]), 0 .. Blk - 1)
      BY <3>3, FullOk
    <3> QED BY <2>0, <3>1, <3>2, <3>4
  <2>4. CASE si < i /\ i = ei
    <3>1. mb[i] = EndBlock(ch, i, e)
      BY <1>3, <2>1, <2>4
    <3>2. e \in 0 .. Blk /\ 0 \in 0 .. Blk /\ 0 < e
      BY <1>0, <1>3
    <3>3. \A x \in 0 .. Blk - 1 : (si <= i /\ i <= ei /\ (i = si => s <= x) /\ (i = ei => x < e))
                                     <=> x \in 0 .. e - 1
      BY <1>0, <1>3, <2>4, <3>2
    <3>20. 0 .. e - 1 \subseteq 0 .. Blk - 1
      BY <1>0, <3>2
    <3>21. \A x \in 0 .. Blk - 1 : x \in map <=> (x \in old \/ x \in 0 .. e - 1)
      BY <2>1, <3>3
    <3>4. map = old \cup (0 .. e - 1)
      BY <2>1, <3>20, <3>21
    <3>5. Clear(old, 0, e)
      BY <1>0, <2>1, <3>2, <3>3 DEF Clear
    <3>6. Taking(ch, i, old, 0, e)
      BY <2>0, <2>1, <3>2, <3>4, <3>5 DEF Taking
    <3>7. BlockInv(EndBlock(ch, i, e), pcpu_index_alloc_map(ch, i))
      BY <3>6, EndBlockOk
    <3> QED BY <3>1, <3>7
  <2>5. CASE ~ (si <= i /\ i <= ei)
    <3>1. mb[i] = ch.md_blocks[i]
      BY <1>3, <2>1, <2>5
    <3>2. map = old
      BY <2>1, <2>5
    <3> QED BY <2>0, <2>1, <3>1, <3>2
  <2> QED BY <1>3, <2>1, <2>2, <2>3, <2>4, <2>5
<1>7. DOMAIN mb = 0 .. ch.nr_pages - 1 /\ mb = [i \in DOMAIN mb |-> mb[i]]
  OBVIOUS
<1>8. DOMAIN ch.md_blocks = 0 .. ch.nr_pages - 1
  BY <1>1
<1>9. PICK new : new = [ch EXCEPT !.md_blocks = mb]
  OBVIOUS
<1>10. PICK r : r = pcpu_block_update_hint_alloc(ch, off, n)
  OBVIOUS
<1>11. r = IF /\ ch.contig_bits_start <= off
              /\ off < ch.contig_bits_start + ch.contig_bits
           THEN pcpu_chunk_refresh_hint(new) ELSE new
  <2>1. new = [ch EXCEPT !.md_blocks =
                  [i \in DOMAIN @ |->
                     CASE i = si -> StartBlock(ch, off, n, si = ei)
                       [] si < i /\ i < ei -> Full(@[i])
                       [] si < i /\ i = ei -> EndBlock(ch, i, e)
                       [] OTHER -> @[i]]]
    BY <1>8, <1>9
  <2> HIDE DEF mb
  <2> QED BY <1>2, <1>10, <2>1 DEF pcpu_block_update_hint_alloc, Span
<1> HIDE DEF mb
<1>12. /\ new \in ChunkRec /\ SameBits(new, ch) /\ new.md_blocks = mb
       /\ mb \in [0 .. ch.nr_pages - 1 -> BlockRec]
       /\ new.contig_bits = ch.contig_bits /\ new.contig_bits_start = ch.contig_bits_start
       /\ new.nr_empty_pop_pages = ch.nr_empty_pop_pages
       /\ ChunkHints(new) /\ Refreshable(new)
  <2>1. HintsFor(ch, mb)
    BY <1>6, <1>7 DEF HintsFor
  <2> QED BY <1>9, <2>1, NewBlocks
<1>13. CASE ch.contig_bits_start <= off /\ off < ch.contig_bits_start + ch.contig_bits
  <2>1. r = pcpu_chunk_refresh_hint(new)
    BY <1>11, <1>13
  <2>2. Rehinted(r, ch) /\ ContigOk(r) /\ EmptyOk(r)
    BY <1>12, <2>1, Refreshed
  <2> QED BY <1>10, <2>2
<1>14. CASE ~ (ch.contig_bits_start <= off /\ off < ch.contig_bits_start + ch.contig_bits)
  <2>1. r = new
    BY <1>11, <1>14
  <2>2. Rehinted(r, ch)
    BY <1>12, <2>1 DEF Rehinted
  <2>3. r.contig_bits = ch.contig_bits /\ r.contig_bits_start = ch.contig_bits_start
        /\ r.nr_empty_pop_pages = ch.nr_empty_pop_pages
    BY <1>12, <2>1
  <2> QED BY <1>10, <1>14, <2>2, <2>3
<1> QED BY <1>13, <1>14

(* Where the run that the freed bits s .. e - 1 of a block belong to begins and ends *)
FreeStart(b, map, s) ==
    IF s = b.contig_hint + b.contig_hint_start THEN b.contig_hint_start
    ELSE Max({x + 1 : x \in {y \in map : y < s}} \cup {0})
FreeEnd(b, map, e) ==
    IF e = b.contig_hint_start THEN b.contig_hint_start + b.contig_hint
    ELSE find_next_bit(map, Blk, e)

LEMMA GreatestNat ==
    ASSUME NEW n \in Nat, NEW S \in SUBSET (0 .. n), S # {}
    PROVE  \E m \in S : \A k \in S : k <= m
<1> DEFINE T == {n - k : k \in S}
<1>1. T \in SUBSET Nat /\ T # {}
  <2>1. \A k \in S : k \in 0 .. n /\ n - k \in Nat
    OBVIOUS
  <2>2. PICK k \in S : TRUE
    OBVIOUS
  <2>3. n - k \in T
    BY <2>2
  <2>4. \A t \in T : t \in Nat
    BY <2>1
  <2> QED BY <2>3, <2>4
<1>2. PICK t \in T : \A k \in T : t <= k
  <2> HIDE DEF T
  <2> QED BY <1>1, LeastNat
<1>3. PICK m \in S : t = n - m
  BY <1>2
<1>4. ASSUME NEW k \in S PROVE k <= m
  <2>1. n - k \in T
    OBVIOUS
  <2>2. t <= n - k /\ k \in 0 .. n /\ m \in 0 .. n
    BY <1>2, <1>3, <2>1
  <2> QED BY <1>3, <2>2
<1> QED BY <1>4

LEMMA FreeStartIs ==
    ASSUME NEW b, NEW old, BlockInv(b, old), old \in SUBSET (0 .. Blk - 1),
           NEW map \in SUBSET old, NEW s \in 0 .. Blk, \A x \in old : x < s => x \in map
    PROVE  LET start == FreeStart(b, map, s)
           IN  /\ start \in 0 .. s /\ Clear(map, start, s)
               /\ start = 0 \/ start - 1 \in map
<1>0. Blk \in Nat /\ Blk >= 1
  BY Sizes
<1>1. PICK start, h, hs : start = FreeStart(b, map, s) /\ h = b.contig_hint /\ hs = b.contig_hint_start
  OBVIOUS
<1>2. /\ h \in 0 .. Blk /\ hs \in 0 .. Blk /\ hs + h <= Blk /\ Clear(old, hs, hs + h)
      /\ \A x, y \in 0 .. Blk : Clear(old, x, y) => y - x <= h
  BY <1>1 DEF BlockInv, BlockRec, HintOk, LongestOk
<1>3. CASE s = h + hs
  <2>1. start = hs
    BY <1>1, <1>3 DEF FreeStart
  <2>2. start \in 0 .. s /\ Clear(map, start, s)
    BY <1>0, <1>2, <1>3, <2>1 DEF Clear
  <2>3. ASSUME hs # 0 PROVE hs - 1 \in old
    <3>1. SUFFICES ASSUME hs - 1 \notin old PROVE FALSE
      OBVIOUS
    <3>2. Clear(old, hs - 1, hs + h)
      BY <1>0, <1>2, <2>3, <3>1 DEF Clear
    <3>3. hs - 1 \in 0 .. Blk /\ hs + h \in 0 .. Blk
      BY <1>0, <1>2, <2>3
    <3>4. (hs + h) - (hs - 1) <= h
      BY <1>2, <3>2, <3>3
    <3> QED BY <1>2, <3>4
  <2>4. hs # 0 => hs - 1 < s
    BY <1>0, <1>2, <1>3
  <2>5. start = 0 \/ start - 1 \in map
    BY <2>1, <2>3, <2>4
  <2> QED BY <1>1, <2>2, <2>5
<1>4. CASE s # h + hs
  <2> DEFINE S == {x + 1 : x \in {y \in map : y < s}} \cup {0}
  <2>1. S \in SUBSET (0 .. s) /\ S # {} /\ S \in SUBSET Int /\ s \in Nat
    BY <1>0
  <2>2. start = Max(S)
    BY <1>1, <1>4 DEF FreeStart
  <2>3. \A x \in map : x < s => x + 1 \in S
    OBVIOUS
  <2>4. \A z \in S : z = 0 \/ (z - 1 \in map /\ z - 1 \in Int)
    BY <1>0
  <2> HIDE DEF S
  <2>5. PICK m \in S : \A k \in S : k <= m
    BY <2>1, GreatestNat
  <2>6. start = m
    BY <2>1, <2>2, <2>5, MaxIs
  <2>7. start \in 0 .. s
    BY <2>1, <2>6
  <2>8. Clear(map, start, s)
    <3> SUFFICES ASSUME NEW x \in start .. s - 1, x \in map PROVE FALSE
      BY DEF Clear
    <3>1. x < s /\ x \in Int /\ start <= x
      BY <1>0, <2>7
    <3>2. x + 1 <= start
      BY <2>3, <2>5, <2>6, <3>1
    <3> QED BY <2>7, <3>1, <3>2
  <2>9. start = 0 \/ start - 1 \in map
    BY <2>4, <2>6
  <2> QED BY <1>1, <2>7, <2>8, <2>9
<1> QED BY <1>3, <1>4

LEMMA FreeEndIs ==
    ASSUME NEW b, NEW old, BlockInv(b, old), old \in SUBSET (0 .. Blk - 1),
           NEW map \in SUBSET old, NEW e \in 0 .. Blk, \A x \in old : x >= e => x \in map
    PROVE  LET end == FreeEnd(b, map, e)
           IN  /\ end \in e .. Blk /\ Clear(map, e, end)
               /\ end = Blk \/ end \in map
<1>0. Blk \in Nat /\ Blk >= 1 /\ map \in SUBSET Nat
  BY Sizes
<1>1. PICK end, h, hs : end = FreeEnd(b, map, e) /\ h = b.contig_hint /\ hs = b.contig_hint_start
  OBVIOUS
<1>2. /\ h \in 0 .. Blk /\ hs \in 0 .. Blk /\ hs + h <= Blk /\ Clear(old, hs, hs + h)
      /\ \A x, y \in 0 .. Blk : Clear(old, x, y) => y - x <= h
  BY <1>1 DEF BlockInv, BlockRec, HintOk, LongestOk
<1>3. CASE e = hs
  <2>1. end = hs + h
    BY <1>1, <1>3 DEF FreeEnd
  <2>2. end \in e .. Blk /\ Clear(map, e, end)
    BY <1>0, <1>2, <1>3, <2>1 DEF Clear
  <2>3. ASSUME hs + h # Blk PROVE hs + h \in old
    <3>1. SUFFICES ASSUME hs + h \notin old PROVE FALSE
      OBVIOUS
    <3>2. Clear(old, hs, hs + h + 1)
      BY <1>0, <1>2, <2>3, <3>1 DEF Clear
    <3>3. hs + h + 1 \in 0 .. Blk
      BY <1>0, <1>2, <2>3
    <3>4. (hs + h + 1) - hs <= h
      BY <1>2, <3>2, <3>3
    <3> QED BY <1>2, <3>4
  <2>4. end = Blk \/ end \in map
    BY <1>0, <1>2, <1>3, <2>1, <2>3
  <2> QED BY <1>1, <2>2, <2>4
<1>4. CASE e # hs
  <2>1. end = find_next_bit(map, Blk, e) /\ e \in Nat
    BY <1>0, <1>1, <1>4 DEF FreeEnd
  <2>2. end \in Nat /\ end <= Blk /\ (end < Blk => e <= end /\ end \in map) /\ Clear(map, e, end)
    BY <1>0, <2>1, FindBit
  <2>3. end \in e .. Blk /\ (end = Blk \/ end \in map)
    BY <1>0, <2>2
  <2> QED BY <1>1, <2>2, <2>3
<1> QED BY <1>3, <1>4

(* After a free all hints are right: those of the blocks, and the chunk's longest run is not
   lost. *)
LEMMA HintFree ==
    ASSUME NEW ch, NEW A, NEW off, NEW n, Changed(ch, A, off, n),
           ch.alloc_map = A \ (off .. off + n - 1), AllSet(A, off, off + n),
           ch.contig_bits <= ch.nr_pages * Blk
    PROVE  LET r == pcpu_block_update_hint_free(ch, off, n)
           IN  /\ Rehinted(r, ch) /\ ContigOk(r)
               /\ \/ EmptyOk(r)
                  \/ /\ r.nr_empty_pop_pages = ch.nr_empty_pop_pages
                     /\ EmptyPop(r) \subseteq
                           {p \in ch.populated : Clear(A, p * Blk, p * Blk + Blk)}
<1>0. Blk \in Nat /\ Blk >= 1
  BY Sizes
<1>1. /\ ch \in ChunkRec /\ ch.nr_pages \in Nat \ {0}
      /\ ch.md_blocks \in [0 .. ch.nr_pages - 1 -> BlockRec]
      /\ off \in Nat /\ n \in Nat \ {0} /\ off + n <= ch.nr_pages * Blk
      /\ \A i \in 0 .. ch.nr_pages - 1 : BlockInv(ch.md_blocks[i], OldMap(A, i))
      /\ A \in SUBSET (0 .. ch.nr_pages * Blk - 1)
      /\ ch.populated \in SUBSET (0 .. ch.nr_pages - 1)
      /\ ch.contig_bits_start <= ch.nr_pages * Blk
  BY DEF Changed
<1>2. PICK si, s, ei, e : Span(off, n, si, s, ei, e)
  BY DEF Span
<1>3. /\ si \in Nat /\ ei \in Nat /\ si <= ei /\ s \in 0 .. Blk - 1 /\ e \in 1 .. Blk
      /\ si * Blk \in Nat /\ ei * Blk \in Nat
      /\ off = si * Blk + s /\ off + n = ei * Blk + e
      /\ si = ei => e = s + n
      /\ si < ei => s + n >= Blk
  BY <1>1, <1>2, Spans
<1>4. ei < ch.nr_pages
  <2>1. SUFFICES ASSUME ch.nr_pages <= ei PROVE FALSE
    BY <1>1, <1>3
  <2>2. PICK np : np = ch.nr_pages
    OBVIOUS
  <2>3. np \in Int /\ ei \in Int /\ np <= ei
    BY <1>1, <1>3, <2>1, <2>2
  <2>4. np * Blk <= ei * Blk /\ np * Blk \in Int
    BY <2>3, BlockOrder
  <2>5. PICK N, EB : N = np * Blk /\ EB = ei * Blk
    OBVIOUS
  <2>6. off + n <= N /\ off + n = EB + e /\ N <= EB /\ EB \in Nat /\ N \in Int /\ e \in 1 .. Blk
    BY <1>1, <1>3, <2>2, <2>4, <2>5
  <2> QED BY <1>0, <1>1, <2>6
<1>5. ASSUME NEW i \in 0 .. ch.nr_pages - 1
      PROVE  /\ OldMap(A, i) \in SUBSET (0 .. Blk - 1) /\ i \in Nat
             /\ \A x \in 0 .. Blk - 1 :
                   x \in pcpu_index_alloc_map(ch, i) <=>
                     /\ x \in OldMap(A, i)
                     /\ ~ (si <= i /\ i <= ei /\ (i = si => s <= x) /\ (i = ei => x < e))
             /\ \A x \in 0 .. Blk - 1 :
                   si <= i /\ i <= ei /\ (i = si => s <= x) /\ (i = ei => x < e)
                     => x \in OldMap(A, i)
             /\ pcpu_index_alloc_map(ch, i) \in SUBSET (0 .. Blk - 1)
  <2>1. i \in Nat
    BY <1>1
  <2>2. \A x \in 0 .. Blk - 1 : i * Blk + x \in off .. off + n - 1 <=>
              /\ si <= i /\ i <= ei
              /\ i = si => s <= x
              /\ i = ei => x < e
    BY <1>1, <1>2, <2>1, Overlap
  <2>3. \A x \in 0 .. Blk - 1 : x \in OldMap(A, i) <=> i * Blk + x \in A
    BY DEF OldMap
  <2>4. \A x \in 0 .. Blk - 1 : x \in pcpu_index_alloc_map(ch, i) <=>
            (i * Blk + x \in A /\ i * Blk + x \notin off .. off + n - 1)
    BY DEF pcpu_index_alloc_map
  <2>5. \A y \in off .. off + n - 1 : y \in A
    BY <1>1 DEF AllSet
  <2>6. pcpu_index_alloc_map(ch, i) \in SUBSET (0 .. Blk - 1) /\ OldMap(A, i) \in SUBSET (0 .. Blk - 1)
    BY DEF pcpu_index_alloc_map, OldMap
  <2> QED BY <2>1, <2>2, <2>3, <2>4, <2>5, <2>6
<1>6. si \in 0 .. ch.nr_pages - 1 /\ ei \in 0 .. ch.nr_pages - 1
  BY <1>1, <1>3, <1>4
<1>7. PICK sb, eb, sm, em, start, end :
         /\ sb = ch.md_blocks[si] /\ eb = ch.md_blocks[ei]
         /\ sm = pcpu_index_alloc_map(ch, si) /\ em = pcpu_index_alloc_map(ch, ei)
         /\ start = FreeStart(sb, sm, s) /\ end = FreeEnd(eb, em, e)
  OBVIOUS
<1>8. start \in 0 .. s /\ Clear(sm, start, s) /\ (start = 0 \/ start - 1 \in sm)
  <2>1. PICK old : old = OldMap(A, si)
    OBVIOUS
  <2>2. /\ old \in SUBSET (0 .. Blk - 1) /\ sm \in SUBSET (0 .. Blk - 1)
        /\ \A x \in 0 .. Blk - 1 : x \in sm <=>
              /\ x \in old
              /\ ~ (si <= si /\ si <= ei /\ (si = si => s <= x) /\ (si = ei => x < e))
        /\ BlockInv(sb, old)
    BY <1>1, <1>5, <1>6, <1>7, <2>1
  <2>3. sm \in SUBSET old /\ s \in 0 .. Blk /\ \A x \in old : x < s => x \in sm
    BY <1>0, <1>3, <2>2
  <2> QED BY <1>7, <2>2, <2>3, FreeStartIs
<1>9. end \in e .. Blk /\ Clear(em, e, end) /\ (end = Blk \/ end \in em)
  <2>1. PICK old : old = OldMap(A, ei)
    OBVIOUS
  <2>2. /\ old \in SUBSET (0 .. Blk - 1) /\ em \in SUBSET (0 .. Blk - 1)
        /\ \A x \in 0 .. Blk - 1 : x \in em <=>
              /\ x \in old
              /\ ~ (si <= ei /\ ei <= ei /\ (ei = si => s <= x) /\ (ei = ei => x < e))
        /\ BlockInv(eb, old)
    BY <1>1, <1>5, <1>6, <1>7, <2>1
  <2>3. em \in SUBSET old /\ e \in 0 .. Blk /\ \A x \in old : x >= e => x \in em
    BY <1>0, <1>3, <2>2
  <2> QED BY <1>7, <2>2, <2>3, FreeEndIs
<1> DEFINE mb == [i \in 0 .. ch.nr_pages - 1 |->
                    CASE i = si -> pcpu_block_update(sb, start, IF si = ei THEN end ELSE Blk)
                      [] si < i /\ i = ei -> pcpu_block_update(eb, 0, end)
                      [] si < i /\ i < ei -> FreeBlock
                      [] OTHER -> ch.md_blocks[i]]
<1>10. ASSUME NEW i \in 0 .. ch.nr_pages - 1
       PROVE  /\ BlockInv(mb[i], pcpu_index_alloc_map(ch, i))
              /\ i = si => mb[i].contig_hint >= 1
  <2>0. PICK old, map : old = OldMap(A, i) /\ map = pcpu_index_alloc_map(ch, i)
    OBVIOUS
  <2>1. /\ old \in SUBSET (0 .. Blk - 1) /\ i \in Nat /\ map \in SUBSET (0 .. Blk - 1)
        /\ \A x \in 0 .. Blk - 1 :
              x \in map <=>
                /\ x \in old
                /\ ~ (si <= i /\ i <= ei /\ (i = si => s <= x) /\ (i = ei => x < e))
        /\ \A x \in 0 .. Blk - 1 :
              si <= i /\ i <= ei /\ (i = si => s <= x) /\ (i = ei => x < e) => x \in old
        /\ BlockInv(ch.md_blocks[i], old)
    BY <1>1, <1>5, <2>0
  <2>2. CASE i = si
    <3>1. PICK E, F : E = (IF si = ei THEN e ELSE Blk) /\ F = IF si = ei THEN end ELSE Blk
      OBVIOUS
    <3>2. E \in 0 .. Blk /\ s \in 0 .. Blk /\ s < E
      <4>1. n \in Nat /\ n >= 1 /\ s \in 0 .. Blk - 1 /\ e \in 1 .. Blk /\ (si = ei => e = s + n)
        BY <1>1, <1>3
      <4> QED BY <1>0, <3>1, <4>1
    <3>3. \A x \in 0 .. Blk - 1 : (si <= i /\ i <= ei /\ (i = si => s <= x) /\ (i = ei => x < e))
                                     <=> x \in s .. E - 1
      BY <1>0, <1>3, <2>2, <3>1, <3>2
    <3>4. \A x \in 0 .. Blk - 1 : x \in map <=> (x \in old /\ x \notin s .. E - 1)
      BY <2>1, <3>3
    <3>5. map = old \ (s .. E - 1)
      BY <2>1, <3>4
    <3>6. AllSet(old, s, E)
      BY <1>0, <2>1, <3>2, <3>3 DEF AllSet
    <3>7. F \in 0 .. Blk /\ E <= F /\ Clear(map, E, F) /\ (F = Blk \/ F \in map)
      <4>1. CASE si = ei
        <5>1. F = end /\ E = e /\ map = em
          BY <1>7, <2>0, <2>2, <3>1, <4>1
        <5> QED BY <1>0, <1>3, <1>9, <5>1
      <4>2. CASE si # ei
        <5>1. F = Blk /\ E = Blk
          BY <3>1, <4>2
        <5> QED BY <1>0, <5>1 DEF Clear
      <4> QED BY <4>1, <4>2
    <3>8. map = sm
      BY <1>7, <2>0, <2>2
    <3>9. Clear(map, s, E)
      BY <3>5 DEF Clear
    <3>10. start \in 0 .. Blk /\ start <= s /\ Clear(map, start, F)
      <4>1. start \in 0 .. Blk /\ start <= s
        BY <1>0, <1>3, <1>8
      <4>2. Clear(map, start, s)
        BY <1>8, <3>8
      <4> QED BY <1>0, <3>2, <3>7, <3>9, <4>1, <4>2 DEF Clear
    <3>11. Freed(sb, old, map, s, E, start, F)
      BY <1>7, <1>8, <2>1, <2>2, <3>2, <3>5, <3>6, <3>7, <3>8, <3>10 DEF Freed
    <3>12. /\ BlockInv(pcpu_block_update(sb, start, F), map)
           /\ pcpu_block_update(sb, start, F).contig_hint >= 1
      BY <3>11, BlockFree
    <3>13. mb[i] = pcpu_block_update(sb, start, F)
      BY <2>2, <3>1
    <3> QED BY <2>0, <3>12, <3>13
  <2>3. CASE si < i /\ i < ei
    <3>1. mb[i] = FreeBlock /\ i # si
      BY <1>3, <2>1, <2>3
    <3>20. si <= i /\ i <= ei /\ i # si /\ i # ei
      BY <1>3, <2>1, <2>3
    <3>21. \A x \in 0 .. Blk - 1 : x \notin map
      BY <2>1, <3>20
    <3>2. map = {}
      BY <2>1, <3>21
    <3> QED BY <2>0, <3>1, <3>2, FreeOk
  <2>4. CASE si < i /\ i = ei
    <3>1. mb[i] = pcpu_block_update(eb, 0, end) /\ i # si
      BY <1>3, <2>1, <2>4
    <3>2. e \in 0 .. Blk /\ 0 \in 0 .. Blk /\ 0 < e /\ end \in 0 .. Blk /\ e <= end
      BY <1>0, <1>3, <1>9
    <3>3. \A x \in 0 .. Blk - 1 : (si <= i /\ i <= ei /\ (i = si => s <= x) /\ (i = ei => x < e))
                                     <=> x \in 0 .. e - 1
      BY <1>0, <1>3, <2>4, <3>2
    <3>4. \A x \in 0 .. Blk - 1 : x \in map <=> (x \in old /\ x \notin 0 .. e - 1)
      BY <2>1, <3>3
    <3>5. map = old \ (0 .. e - 1)
      BY <2>1, <3>4
    <3>6. AllSet(old, 0, e)
      BY <1>0, <2>1, <3>2, <3>3 DEF AllSet
    <3>7. map = em
      BY <1>7, <2>0, <2>4
    <3>8. Clear(map, 0, end)
      <4>1. Clear(map, 0, e)
        BY <3>5 DEF Clear
      <4>2. Clear(map, e, end)
        BY <1>9, <3>7
      <4> QED BY <1>0, <3>2, <4>1, <4>2 DEF Clear
    <3>9. Freed(eb, old, map, 0, e, 0, end)
      BY <1>7, <1>9, <2>1, <2>4, <3>2, <3>5, <3>6, <3>7, <3>8 DEF Freed
    <3>10. BlockInv(pcpu_block_update(eb, 0, end), map)
      BY <3>9, BlockFree
    <3> QED BY <2>0, <3>1, <3>10
  <2>5. CASE ~ (si <= i /\ i <= ei)
    <3>1. mb[i] = ch.md_blocks[i] /\ i # si
      BY <1>3, <2>1, <2>5
    <3>2. map = old
      BY <2>1, <2>5
    <3> QED BY <2>0, <2>1, <3>1, <3>2
  <2> QED BY <1>3, <2>1, <2>2, <2>3, <2>4, <2>5
<1>11. DOMAIN mb = 0 .. ch.nr_pages - 1 /\ mb = [i \in DOMAIN mb |-> mb[i]]
  OBVIOUS
<1>12. DOMAIN ch.md_blocks = 0 .. ch.nr_pages - 1
  BY <1>1
<1>13. PICK new : new = [ch EXCEPT !.md_blocks = mb]
  OBVIOUS
<1>14. PICK r : r = pcpu_block_update_hint_free(ch, off, n)
  OBVIOUS
<1>15. r = IF NeedsRefresh(start, end, si # ei) THEN pcpu_chunk_refresh_hint(new)
           ELSE pcpu_chunk_update(new, si * Blk + start, new.md_blocks[si].contig_hint)
  <2>1. new = [ch EXCEPT !.md_blocks =
                  [i \in DOMAIN @ |->
                     CASE i = si -> pcpu_block_update(sb, start, IF si = ei THEN end ELSE Blk)
                       [] si < i /\ i = ei -> pcpu_block_update(eb, 0, end)
                       [] si < i /\ i < ei -> FreeBlock
                       [] OTHER -> @[i]]]
    BY <1>12, <1>13
  <2> HIDE DEF mb
  <2> QED BY <1>2, <1>7, <1>14, <2>1 DEF pcpu_block_update_hint_free, Span, FreeStart, FreeEnd
<1>16. mb[si].contig_hint >= 1 /\ mb[si].contig_hint \in 0 .. Blk
  BY <1>6, <1>10 DEF BlockInv, BlockRec
<1> HIDE DEF mb
<1>17. /\ new \in ChunkRec /\ SameBits(new, ch) /\ new.md_blocks = mb
       /\ mb \in [0 .. ch.nr_pages - 1 -> BlockRec]
       /\ new.contig_bits = ch.contig_bits /\ new.contig_bits_start = ch.contig_bits_start
       /\ new.nr_empty_pop_pages = ch.nr_empty_pop_pages
       /\ ChunkHints(new) /\ Refreshable(new)
  <2>1. HintsFor(ch, mb)
    BY <1>10, <1>11 DEF HintsFor
  <2> QED BY <1>13, <2>1, NewBlocks
<1>18. CASE NeedsRefresh(start, end, si # ei)
  <2>1. r = pcpu_chunk_refresh_hint(new)
    BY <1>15, <1>18
  <2>2. Rehinted(r, ch) /\ ContigOk(r) /\ EmptyOk(r)
    BY <1>17, <2>1, Refreshed
  <2> QED BY <1>14, <2>2
<1>19. CASE ~ NeedsRefresh(start, end, si # ei)
  <2>1. PICK k, N : k = mb[si].contig_hint /\ N = ch.nr_pages * Blk
    OBVIOUS
  <2>2. k \in Nat /\ k >= 1 /\ k <= Blk /\ si * Blk + start \in Nat
    BY <1>0, <1>3, <1>8, <1>16, <2>1
  <2>3. r = pcpu_chunk_update(new, si * Blk + start, k)
    BY <1>15, <1>17, <1>19, <2>1
  <2>4. /\ r \in ChunkRec /\ Same(r, new) /\ r.nr_empty_pop_pages = new.nr_empty_pop_pages
        /\ r.contig_bits >= new.contig_bits /\ r.contig_bits >= k
        /\ r.contig_bits = k \/ r.contig_bits = new.contig_bits
        /\ r.contig_bits_start = si * Blk + start \/ r.contig_bits_start = new.contig_bits_start
    BY <1>17, <2>2, <2>3, ChunkUpdate
  <2>5. SameBits(r, ch) /\ r.md_blocks = mb /\ ChunkHints(r)
    <3>1. SameBits(r, ch) /\ r.md_blocks = mb
      BY <1>17, <2>4 DEF Same, SameBits
    <3>2. ChunkHints(r)
      BY <1>17, <2>4 DEF ChunkHints, Same, pcpu_index_alloc_map
    <3> QED BY <3>1, <3>2
  <2>6. Rehinted(r, ch)
    BY <1>17, <2>4, <2>5 DEF Rehinted
  <2>7. si = ei /\ ~ (start = 0 /\ end = Blk)
    BY <1>19 DEF NeedsRefresh
  <2>8. \E x \in 0 .. Blk - 1 : x \in sm
    <3>1. sm = em
      BY <1>7, <2>7
    <3>2. CASE start # 0
      BY <1>0, <1>3, <1>8, <3>2
    <3>3. CASE end # Blk
      BY <1>0, <1>3, <1>9, <3>1, <3>3
    <3> QED BY <2>7, <3>2, <3>3
  <2>9. PICK x \in 0 .. Blk - 1 : si * Blk + x \in ch.alloc_map
    BY <1>7, <2>8 DEF pcpu_index_alloc_map
  <2>10. r.alloc_map = ch.alloc_map /\ r.nr_pages = ch.nr_pages /\ r.populated = ch.populated
    BY <2>5 DEF SameBits
  <2>11. N \in Nat /\ si * Blk + Blk <= N
    <3>1. ch.nr_pages \in Int /\ si \in Int /\ si < ch.nr_pages /\ ch.nr_pages >= 0
      BY <1>1, <1>6
    <3> QED BY <2>1, <3>1, BlockOrder
  <2>12. si * Blk + x \in 0 .. N - 1
    BY <1>0, <1>3, <2>9, <2>11
  <2>13. ~ Clear(r.alloc_map, 0, N)
    BY <2>9, <2>10, <2>12 DEF Clear
  <2>14. r.contig_bits \in 0 .. N /\ r.contig_bits # 0
    <3>1. new.contig_bits \in Nat /\ r.contig_bits \in Nat
      BY <1>17, <2>4 DEF ChunkRec
    <3>2. new.contig_bits <= N /\ Blk <= N
      BY <1>0, <1>3, <1>17, <2>1, <2>11
    <3> QED BY <1>0, <2>2, <2>4, <2>11, <3>1, <3>2
  <2>15. r.contig_bits_start \in 0 .. N
    <3>1. new.contig_bits_start \in Nat /\ new.contig_bits_start <= N
      BY <1>1, <1>17, <2>1 DEF ChunkRec
    <3>2. si * Blk + start <= N
      BY <1>0, <1>3, <1>8, <2>11
    <3> QED BY <2>2, <2>4, <2>11, <3>1, <3>2
  <2>16. ContigOk(r)
    BY <2>1, <2>10, <2>13, <2>14, <2>15 DEF ContigOk
  <2>17. r.nr_empty_pop_pages = ch.nr_empty_pop_pages
    BY <1>17, <2>4
  <2>18. ASSUME NEW p \in EmptyPop(r)
         PROVE  p \in ch.populated /\ Clear(A, p * Blk, p * Blk + Blk)
    <3>1. p \in ch.populated /\ Clear(ch.alloc_map, p * Blk, p * Blk + Blk)
      BY <2>10 DEF EmptyPop, FreePage
    <3>2. p \in Nat /\ p * Blk \in Nat
      <4>1. p \in Nat
        BY <1>1, <3>1
      <4>2. p \in Int
        BY <4>1
      <4> QED BY <4>1, <4>2, BlockOrder
    <3>3. p # si
      <4>1. SUFFICES ASSUME p = si PROVE FALSE
        OBVIOUS
      <4> QED BY <1>0, <1>3, <2>9, <3>1, <4>1 DEF Clear
    <3>4. \A y \in 0 .. Blk - 1 : p * Blk + y \notin off .. off + n - 1
      <4>1. \A y \in 0 .. Blk - 1 : p * Blk + y \in off .. off + n - 1 <=>
              /\ si <= p /\ p <= ei
              /\ p = si => s <= y
              /\ p = ei => y < e
        BY <1>1, <1>2, <3>2, Overlap
      <4>2. ~ (si <= p /\ p <= ei)
        BY <1>3, <2>7, <3>2, <3>3
      <4> QED BY <4>1, <4>2
    <3>5. PICK B \in Nat : B = p * Blk
      BY <3>2
    <3>6. ASSUME NEW y \in B .. B + Blk - 1 PROVE y \notin A
      <4>1. y - B \in 0 .. Blk - 1 /\ B + (y - B) = y
        BY <1>0, <3>5
      <4>2. y \notin off .. off + n - 1
        BY <3>4, <3>5, <4>1
      <4>3. Clear(ch.alloc_map, B, B + Blk)
        BY <3>1, <3>5
      <4>4. y \notin ch.alloc_map
        BY <1>0, <4>3 DEF Clear
      <4> QED BY <4>2, <4>4
    <3>7. Clear(A, B, B + Blk)
      BY <1>0, <3>6 DEF Clear
    <3> QED BY <3>1, <3>5, <3>7
  <2> QED BY <1>14, <2>6, <2>16, <2>17, <2>18
<1> QED BY <1>18, <1>19

-----------------------------------------------------------------------------
(* Finding room *)

(* There is an aligned place for n bits in the bits looked at, which begin at bit_off. *)
FitAt(ch, n, align, bit_off, bits) ==
    \E f \in bit_off .. bit_off + Blk :
        f % align = 0 /\ Clear(ch.alloc_map, f, f + n) /\ f + n <= bit_off + bits

FitReq(n, align) == n \in Nat \ {0} /\ align \in Nat \ {0} /\ Blk % align = 0

(* What pcpu_next_fit_region knows when it has looked at the blocks before i *)
FitInv(ch, n, align, off, i, x) ==
    /\ x \in Region
    /\ x.done => /\ FitAt(ch, n, align, x.bit_off, x.bits)
                 /\ x.bit_off + x.bits <= i * Blk
    /\ ~ x.done => \/ x.bits = 0
                   \/ /\ x.bit_off % align = 0 /\ x.bit_off + x.bits = i * Blk
                      /\ Clear(ch.alloc_map, x.bit_off, x.bit_off + x.bits)
    /\ Clear(ch.alloc_map, 0, ch.nr_pages * Blk) /\ off = 0
          => \/ x.done
             \/ /\ x.bits = i * Blk /\ (x.bits # 0 => x.bit_off = 0) /\ x.bits < n
                /\ x.block_off = 0

LEMMA AlignZero ==
    ASSUME NEW a \in Nat \ {0}
    PROVE  AlignUp(0, a) = 0
<1>1. a - 1 \in 0 .. a - 1 /\ 0 * a + (a - 1) = a - 1 /\ 0 + a - 1 = a - 1 /\ 0 \in Nat /\ 0 * a = 0
  OBVIOUS
<1>2. (0 * a + (a - 1)) \div a = 0
  BY <1>1, DivModIs
<1> QED BY <1>1, <1>2 DEF AlignUp

(* In a chunk with no bit set the hints of each block say so. *)
LEMMA AllFreeHints ==
    ASSUME NEW ch, ChunkHints(ch), Clear(ch.alloc_map, 0, ch.nr_pages * Blk),
           NEW i \in 0 .. ch.nr_pages - 1
    PROVE  LET b == ch.md_blocks[i]
           IN  /\ b.contig_hint = Blk /\ b.contig_hint_start = 0
               /\ b.left_free = Blk /\ b.right_free = Blk
<1>0. Blk \in Nat /\ Blk >= 1 /\ ch.nr_pages \in Nat
  BY Sizes DEF ChunkHints
<1>1. PICK b, A, B, N : b = ch.md_blocks[i] /\ A = ch.alloc_map /\ B = i * Blk /\ N = ch.nr_pages * Blk
  OBVIOUS
<1>2. BlockFacts(b, A, B)
  BY <1>1, FactsOf
<1>3. B \in Nat /\ N \in Nat /\ B + Blk <= N
  <2>1. i \in Int /\ ch.nr_pages \in Int /\ i < ch.nr_pages /\ i >= 0
    BY <1>0
  <2> QED BY <1>0, <1>1, <2>1, BlockOrder
<1>4. \A x \in B .. B + Blk - 1 : x \notin A
  BY <1>0, <1>1, <1>3 DEF Clear
<1>5. Clear(A, B + 0, B + Blk) /\ 0 \in 0 .. Blk /\ Blk \in 0 .. Blk
  BY <1>0, <1>3, <1>4 DEF Clear
<1>6. Blk - 0 <= b.contig_hint
  BY <1>2, <1>5 DEF BlockFacts
<1>7. b.contig_hint = Blk /\ b.contig_hint_start = 0
  BY <1>0, <1>2, <1>6 DEF BlockFacts
<1>8. b.left_free = Blk
  <2>1. b.left_free \in 0 .. Blk /\ (b.left_free = Blk \/ B + b.left_free \in A)
    BY <1>2 DEF BlockFacts
  <2> QED BY <1>0, <1>3, <1>4, <2>1
<1>9. b.right_free = Blk
  <2>1. b.right_free \in 0 .. Blk /\ (b.right_free = Blk \/ B + Blk - b.right_free - 1 \in A)
    BY <1>2 DEF BlockFacts
  <2> QED BY <1>0, <1>3, <1>4, <2>1
<1> QED BY <1>1, <1>7, <1>8, <1>9

LEMMA FitRound ==
    ASSUME NEW ch, ChunkHints(ch), NEW n, NEW align, FitReq(n, align), NEW off,
           NEW i \in 0 .. ch.nr_pages - 1, NEW x, FitInv(ch, n, align, off, i, x)
    PROVE  FitInv(ch, n, align, off, i + 1, FitStep(ch.md_blocks[i], i, n, align, x))
<1>0. Blk \in Nat /\ Blk >= 1 /\ ch.nr_pages \in Nat /\ i \in Nat /\ i * Blk \in Nat
      /\ (i + 1) * Blk = i * Blk + Blk
      /\ n \in Nat /\ n >= 1 /\ align \in Nat \ {0} /\ Blk % align = 0
  BY Sizes DEF ChunkHints, FitReq
<1>1. PICK b, A, B, N : b = ch.md_blocks[i] /\ A = ch.alloc_map /\ B = i * Blk /\ N = ch.nr_pages * Blk
  OBVIOUS
<1>2. BlockFacts(b, A, B)
  BY <1>1, FactsOf
<1>3. PICK y : y = FitStep(b, i, n, align, x)
  OBVIOUS
<1>4. x \in Region /\ x.bit_off \in Nat /\ x.bits \in Nat /\ x.block_off \in Nat
  BY DEF FitInv, Region
<1>5. B \in Nat /\ (i + 1) * Blk = B + Blk
  BY <1>0, <1>1
<1>6. PICK h, hs, lf, rf, ff : /\ h = b.contig_hint /\ hs = b.contig_hint_start
                               /\ lf = b.left_free /\ rf = b.right_free /\ ff = b.first_free
  OBVIOUS
<1>7. /\ h \in 0 .. Blk /\ hs \in 0 .. Blk /\ lf \in 0 .. Blk /\ rf \in 0 .. Blk /\ ff \in 0 .. Blk
      /\ hs + h <= Blk
  BY <1>2, <1>6 DEF BlockFacts
<1>8. PICK skip, right : skip = AlignUp(hs, align) - hs /\ right = AlignUp(Blk - rf, align)
  OBVIOUS
<1>9. /\ skip \in Nat /\ hs + skip <= Blk /\ (B + hs + skip) % align = 0
      /\ right \in Blk - rf .. Blk /\ right \in Nat /\ (B + right) % align = 0
  <2>1. Blk - rf \in 0 .. Blk
    BY <1>0, <1>7
  <2>2. AlignUp(hs, align) \in Nat /\ hs <= AlignUp(hs, align) /\ AlignUp(hs, align) <= Blk
        /\ (i * Blk + AlignUp(hs, align)) % align = 0
    BY <1>0, <1>7, AlignInBlock
  <2>3. right \in Nat /\ Blk - rf <= right /\ right <= Blk /\ (i * Blk + right) % align = 0
    BY <1>0, <1>8, <2>1, AlignInBlock
  <2>4. PICK al : al = AlignUp(hs, align)
    OBVIOUS
  <2>5. B + hs + skip = B + al /\ skip \in Nat /\ hs + skip <= Blk
    BY <1>0, <1>5, <1>7, <1>8, <2>2, <2>4
  <2>6. (B + hs + skip) % align = 0
    BY <1>1, <2>2, <2>4, <2>5
  <2> QED BY <1>0, <1>1, <1>7, <2>3, <2>5, <2>6
<1>10. SUFFICES FitInv(ch, n, align, off, i + 1, y)
  BY <1>1, <1>3
<1>11. y = IF x.done THEN x
           ELSE IF x.bits # 0 /\ x.bits + lf >= n THEN [x EXCEPT !.bits = x.bits + lf, !.done = TRUE]
           ELSE IF x.bits # 0 /\ lf = Blk THEN [x EXCEPT !.bits = x.bits + lf]
           ELSE IF h # 0 /\ hs >= x.block_off /\ h >= skip + n
           THEN [bit_off |-> B + ff, bits |-> skip + n + hs - ff,
                 block_off |-> x.block_off, done |-> TRUE]
           ELSE [bit_off |-> B + right, bits |-> Blk - right, block_off |-> 0,
                 done |-> Blk - right >= n]
  BY <1>1, <1>3, <1>6, <1>8 DEF FitStep
<1>12. CASE x.done
  <2>1. y = x
    BY <1>11, <1>12
  <2>2. x.bit_off + x.bits <= B
    BY <1>1, <1>12 DEF FitInv
  <2>3. x.bit_off + x.bits <= (i + 1) * Blk
    BY <1>0, <1>4, <1>5, <2>2
  <2> QED BY <1>12, <2>1, <2>3 DEF FitInv
<1>13. ASSUME ~ x.done, x.bits # 0
       PROVE  /\ x.bit_off % align = 0 /\ x.bit_off + x.bits = B
              /\ Clear(A, x.bit_off, B) /\ Clear(A, x.bit_off, B + lf)
  <2>1. x.bit_off % align = 0 /\ x.bit_off + x.bits = B /\ Clear(A, x.bit_off, x.bit_off + x.bits)
    BY <1>1, <1>13 DEF FitInv
  <2>2. Clear(A, B, B + lf)
    BY <1>2, <1>6 DEF BlockFacts
  <2>3. Clear(A, x.bit_off, B)
    BY <2>1
  <2> QED BY <1>4, <1>5, <1>7, <2>1, <2>2, <2>3 DEF Clear
<1>14. CASE ~ x.done /\ x.bits # 0 /\ x.bits + lf >= n
  <2>1. y = [bit_off |-> x.bit_off, bits |-> x.bits + lf, block_off |-> x.block_off, done |-> TRUE]
    BY <1>4, <1>11, <1>14 DEF Region
  <2>2. y \in Region /\ y.bit_off = x.bit_off /\ y.bits = x.bits + lf /\ y.done = TRUE
    BY <1>4, <1>7, <2>1 DEF Region
  <2>3. /\ x.bit_off % align = 0 /\ x.bit_off + x.bits = B /\ Clear(A, x.bit_off, B + lf)
    BY <1>13, <1>14
  <2>4. Clear(A, x.bit_off, x.bit_off + n) /\ x.bit_off + n <= y.bit_off + y.bits
        /\ x.bit_off \in y.bit_off .. y.bit_off + Blk
    BY <1>0, <1>4, <1>5, <1>7, <1>14, <2>2, <2>3 DEF Clear
  <2>5. FitAt(ch, n, align, y.bit_off, y.bits)
    BY <1>1, <2>3, <2>4 DEF FitAt
  <2>6. y.bit_off + y.bits <= (i + 1) * Blk
    BY <1>0, <1>4, <1>5, <1>7, <2>2, <2>3
  <2> QED BY <2>2, <2>5, <2>6 DEF FitInv
<1>15. CASE ~ x.done /\ x.bits # 0 /\ ~ (x.bits + lf >= n) /\ lf = Blk
  <2>0. x.done = FALSE
    BY <1>4, <1>15 DEF Region
  <2>1. y = [bit_off |-> x.bit_off, bits |-> x.bits + lf, block_off |-> x.block_off, done |-> FALSE]
    BY <1>4, <1>11, <1>15, <2>0 DEF Region
  <2>2. /\ y \in Region /\ y.bit_off = x.bit_off /\ y.bits = x.bits + lf /\ y.done = FALSE
        /\ y.block_off = x.block_off
    BY <1>4, <1>7, <2>1 DEF Region
  <2>3. /\ x.bit_off % align = 0 /\ x.bit_off + x.bits = B /\ Clear(A, x.bit_off, B + lf)
    BY <1>13, <1>15
  <2>4. y.bit_off + y.bits = B + lf /\ y.bit_off + y.bits = (i + 1) * Blk
    BY <1>0, <1>4, <1>5, <1>7, <1>15, <2>2, <2>3
  <2>5. Clear(A, y.bit_off, y.bit_off + y.bits)
    BY <2>2, <2>3, <2>4
  <2>6. ASSUME Clear(ch.alloc_map, 0, ch.nr_pages * Blk), off = 0
        PROVE  y.bits = (i + 1) * Blk /\ y.bit_off = 0 /\ y.bits < n /\ y.block_off = 0
    <3>1. x.bits = B /\ x.bit_off = 0 /\ x.block_off = 0
      BY <1>1, <1>15, <2>6 DEF FitInv
    <3> QED BY <1>0, <1>4, <1>5, <1>15, <2>2, <3>1
  <2> QED BY <1>1, <2>2, <2>3, <2>4, <2>5, <2>6 DEF FitInv
<1>16. CASE /\ ~ x.done /\ ~ (x.bits # 0 /\ x.bits + lf >= n) /\ ~ (x.bits # 0 /\ lf = Blk)
            /\ h # 0 /\ hs >= x.block_off /\ h >= skip + n
  <2>1. y = [bit_off |-> B + ff, bits |-> skip + n + hs - ff,
             block_off |-> x.block_off, done |-> TRUE]
    BY <1>11, <1>16
  <2>2. ff <= hs
    <3>1. SUFFICES ASSUME hs < ff PROVE FALSE
      BY <1>7
    <3>2. AllSet(A, B, B + ff) /\ Clear(A, B + hs, B + hs + h)
      BY <1>2, <1>6 DEF BlockFacts
    <3>3. B + hs \in A
      BY <1>5, <1>7, <3>1, <3>2 DEF AllSet
    <3>4. B + hs \notin A
      BY <1>5, <1>7, <1>16, <3>2 DEF Clear
    <3> QED BY <3>3, <3>4
  <2>3. skip + n + hs - ff \in Nat
    BY <1>0, <1>7, <1>9, <2>2
  <2>4. y \in Region /\ y.bit_off = B + ff /\ y.bits = skip + n + hs - ff /\ y.done = TRUE
    BY <1>4, <1>5, <1>7, <2>1, <2>3 DEF Region
  <2>5. PICK f : f = B + hs + skip
    OBVIOUS
  <2>6. f \in y.bit_off .. y.bit_off + Blk /\ f + n = y.bit_off + y.bits /\ f % align = 0
    BY <1>0, <1>5, <1>7, <1>9, <2>2, <2>4, <2>5
  <2>7. Clear(A, f, f + n)
    <3>1. Clear(A, B + hs, B + hs + h)
      BY <1>2, <1>6 DEF BlockFacts
    <3> QED BY <1>0, <1>5, <1>7, <1>9, <1>16, <2>5, <3>1 DEF Clear
  <2>8. f + n <= y.bit_off + y.bits
    BY <1>0, <1>5, <1>7, <1>9, <2>4, <2>5, <2>6
  <2>9. FitAt(ch, n, align, y.bit_off, y.bits)
    BY <1>1, <2>6, <2>7, <2>8 DEF FitAt
  <2>10. y.bit_off + y.bits <= (i + 1) * Blk
    BY <1>0, <1>5, <1>7, <1>9, <1>16, <2>5, <2>6
  <2> QED BY <2>4, <2>9, <2>10 DEF FitInv
<1>17. CASE /\ ~ x.done /\ ~ (x.bits # 0 /\ x.bits + lf >= n) /\ ~ (x.bits # 0 /\ lf = Blk)
            /\ ~ (h # 0 /\ hs >= x.block_off /\ h >= skip + n)
  <2>1. PICK d \in BOOLEAN : d = (Blk - right >= n)
    <3>1. CASE Blk - right >= n
      BY <3>1
    <3>2. CASE ~ (Blk - right >= n)
      <4>1. FALSE = (Blk - right >= n)
        BY <1>0, <1>9, <3>2
      <4> QED BY <4>1
    <3> QED BY <3>1, <3>2
  <2>2. y = [bit_off |-> B + right, bits |-> Blk - right, block_off |-> 0, done |-> d]
    BY <1>11, <1>17, <2>1
  <2>3. Blk - right \in Nat /\ B + right \in Nat
    BY <1>0, <1>5, <1>7, <1>9
  <2>4. /\ y \in Region /\ y.bit_off = B + right /\ y.bits = Blk - right /\ y.done = d
        /\ y.block_off = 0
    BY <2>1, <2>2, <2>3 DEF Region
  <2>5. Clear(A, B + right, B + Blk)
    <3>1. Clear(A, B + Blk - rf, B + Blk)
      BY <1>2, <1>6 DEF BlockFacts
    <3> QED BY <1>0, <1>5, <1>7, <1>9, <3>1 DEF Clear
  <2>6. y.bit_off + y.bits = (i + 1) * Blk /\ y.bit_off + y.bits = B + Blk
    BY <1>0, <1>5, <1>9, <2>4
  <2>7. y.bit_off + y.bits <= (i + 1) * Blk
    BY <1>0, <1>5, <2>6
  <2>8. y.bit_off % align = 0 /\ Clear(A, y.bit_off, y.bit_off + y.bits)
    BY <1>9, <2>4, <2>5, <2>6
  <2>9. ASSUME y.done PROVE FitAt(ch, n, align, y.bit_off, y.bits)
    <3>1. Blk - right >= n
      BY <2>1, <2>4, <2>9
    <3>2. y.bit_off \in Nat /\ y.bit_off + n <= y.bit_off + y.bits
      BY <1>0, <2>3, <2>4, <3>1
    <3>3. y.bit_off \in y.bit_off .. y.bit_off + Blk /\ Clear(A, y.bit_off, y.bit_off + n)
      BY <1>0, <2>3, <2>4, <2>8, <3>2 DEF Clear
    <3> QED BY <1>1, <2>8, <3>2, <3>3 DEF FitAt
  <2>10. ASSUME Clear(ch.alloc_map, 0, ch.nr_pages * Blk), off = 0, ~ y.done
         PROVE  y.bits = (i + 1) * Blk /\ y.bit_off = 0 /\ y.bits < n
    <3>1. h = Blk /\ hs = 0 /\ lf = Blk /\ rf = Blk
      BY <1>1, <1>6, <2>10, AllFreeHints
    <3>2. x.bits = B /\ x.block_off = 0
      BY <1>1, <1>17, <2>10 DEF FitInv
    <3>3. x.bits = 0
      BY <1>17, <3>1
    <3>4. AlignUp(0, align) = 0 /\ Blk - rf = 0
      BY <1>0, <3>1, AlignZero
    <3>5. skip = 0 /\ right = 0
      BY <1>8, <3>1, <3>4
    <3>6. ~ (Blk - right >= n)
      BY <2>1, <2>4, <2>10
    <3> QED BY <1>0, <1>5, <2>4, <3>2, <3>3, <3>5, <3>6
  <2> QED BY <1>1, <2>4, <2>6, <2>7, <2>8, <2>9, <2>10 DEF FitInv
<1> QED BY <1>12, <1>14, <1>15, <1>16, <1>17

LEMMA DivMono ==
    ASSUME NEW x \in Nat, NEW y \in Nat, x <= y
    PROVE  x \div Blk <= y \div Blk /\ x \div Blk \in Nat /\ y \div Blk \in Nat
<1>0. Blk \in Nat /\ Blk >= 1
  BY Sizes
<1>1. PICK d, e, r, s : d = x \div Blk /\ e = y \div Blk /\ r = x % Blk /\ s = y % Blk
  OBVIOUS
<1>2. /\ d \in Nat /\ r \in 0 .. Blk - 1 /\ x = d * Blk + r
      /\ e \in Nat /\ s \in 0 .. Blk - 1 /\ y = e * Blk + s
  BY <1>1, InBlock
<1>3. SUFFICES ASSUME e < d PROVE FALSE
  BY <1>1, <1>2
<1>4. e * Blk + Blk <= d * Blk /\ e * Blk \in Int /\ d * Blk \in Int
  BY <1>0, <1>2, <1>3, BlockOrder
<1>5. PICK DB, EB : DB = d * Blk /\ EB = e * Blk
  OBVIOUS
<1> QED BY <1>0, <1>2, <1>4, <1>5

(* A region where pcpu_next_fit_region says n bits fit; it always says so of a free chunk. *)
LEMMA NextFit ==
    ASSUME NEW ch, ChunkHints(ch), NEW n0, NEW align, FitReq(n0, align), NEW off \in Nat
    PROVE  LET r == pcpu_next_fit_region(ch, n0, align, off)
           IN  /\ r \in Region
               /\ r.done => /\ FitAt(ch, n0, align, r.bit_off, r.bits)
                            /\ r.bit_off + r.bits <= ch.nr_pages * Blk
               /\ Clear(ch.alloc_map, 0, ch.nr_pages * Blk) /\ off = 0
                     /\ n0 <= ch.nr_pages * Blk => r.done
<1> DEFINE n == ch.nr_pages
           i0 == off \div Blk
           v == SearchFrom(off)
<1>0. /\ Blk \in Nat /\ Blk >= 1 /\ n \in Nat /\ n >= 1
      /\ i0 \in Nat /\ off % Blk \in 0 .. Blk - 1 /\ off = i0 * Blk + (off % Blk)
      /\ i0 * Blk \in Nat /\ n * Blk \in Nat /\ 0 + 1 = 1 /\ n0 \in Nat /\ n0 >= 1
  <2>1. Blk \in Nat /\ Blk >= 1 /\ n \in Nat /\ n >= 1 /\ n0 \in Nat /\ n0 >= 1
    BY Sizes DEF ChunkHints, FitReq
  <2>2. i0 \in Nat /\ off % Blk \in 0 .. Blk - 1 /\ off = i0 * Blk + (off % Blk)
    BY <2>1, InBlock
  <2> HIDE DEF i0, n
  <2> QED BY <2>1, <2>2
<1>30. v \in Region /\ v.bit_off = off /\ v.bits = 0 /\ v.block_off = off % Blk /\ v.done = FALSE
  BY <1>0 DEF SearchFrom, Region, pcpu_off_to_block_off
<1>31. pcpu_next_fit_region(ch, n0, align, off) =
        (CHOOSE f : f = [i \in 0 .. n |-> IF i <= i0 THEN v
                          ELSE FitStep(ch.md_blocks[i - 1], i - 1, n0, align, f[i - 1])])[n]
  BY DEF pcpu_next_fit_region, pcpu_off_to_block_index
<1>32. \A i \in 0 .. n - 1 : (i + 1) - 1 = i
  BY <1>0
<1> HIDE DEF n, i0, v
<1> DEFINE G(u, i) == FitStep(ch.md_blocks[i - 1], i - 1, n0, align, u)
           Def(f, m) == f = [i \in 0 .. m |-> IF i <= i0 THEN v ELSE G(f[i - 1], i)]
           scan == CHOOSE f : f = [i \in 0 .. n |-> IF i <= i0 THEN v
                                               ELSE FitStep(ch.md_blocks[i - 1], i - 1, n0, align, f[i - 1])]
<1>1. \E f : Def(f, n)
  <2> DEFINE S == {m \in 0 .. n : \E f : Def(f, m)}
  <2> HIDE DEF G
  <2>1. 0 \in S
    <3> DEFINE f == [i \in 0 .. 0 |-> v]
    <3>1. Def(f, 0)
      BY <1>0
    <3> HIDE DEF Def
    <3> QED BY <1>0, <3>1
  <2>2. ASSUME NEW m \in 1 .. n, m - 1 \in S PROVE m \in S
    <3>1. PICK f : Def(f, m - 1)
      BY <2>2
    <3> DEFINE g == [i \in 0 .. m |-> IF i = m THEN (IF m <= i0 THEN v ELSE G(f[m - 1], m)) ELSE f[i]]
    <3>2. ASSUME NEW i \in 0 .. m PROVE g[i] = IF i <= i0 THEN v ELSE G(g[i - 1], i)
      <4>1. CASE i = m
        <5>1. g[i - 1] = f[m - 1]
          BY <1>0, <4>1
        <5> QED BY <4>1, <5>1
      <4>2. CASE i # m /\ i # 0
        <5>1. i \in 0 .. m - 1 /\ g[i] = f[i] /\ g[i - 1] = f[i - 1]
          BY <1>0, <4>2
        <5> QED BY <3>1, <4>2, <5>1
      <4>3. CASE i # m /\ i = 0
        BY <1>0, <3>1, <4>3
      <4> QED BY <4>1, <4>2, <4>3
    <3>3. g = [i \in 0 .. m |-> g[i]]
      OBVIOUS
    <3> HIDE DEF g
    <3>4. Def(g, m)
      BY <3>2, <3>3
    <3> QED BY <3>4
  <2> HIDE DEF S
  <2>3. 0 .. n \subseteq S
    BY <1>0, <2>1, <2>2, UpTo
  <2>4. n \in S
    BY <1>0, <2>3
  <2> HIDE DEF Def
  <2> QED BY <2>4 DEF S
<1>2. Def(scan, n)
  <2>1. \E f : f = [i \in 0 .. n |-> IF i <= i0 THEN v
                                   ELSE FitStep(ch.md_blocks[i - 1], i - 1, n0, align, f[i - 1])]
    BY <1>1
  <2> QED BY <2>1
<1>3. pcpu_next_fit_region(ch, n0, align, off) = scan[n]
  BY <1>31
<1> HIDE DEF scan
<1>4. /\ \A i \in 0 .. n : i <= i0 => scan[i] = v
      /\ \A i \in 0 .. n : ~ (i <= i0) => scan[i] = G(scan[i - 1], i)
  <2> HIDE DEF G
  <2> QED BY <1>0, <1>2
<1> HIDE DEF Def
<1>5. ASSUME NEW i \in 0 .. n, i <= i0, off = 0 => i = 0 PROVE FitInv(ch, n0, align, off, i, v)
  <2>1. off = 0 => off % Blk = 0 /\ i * Blk = 0
    BY <1>0, <1>5
  <2>2. off = 0 => v.bits = i * Blk /\ v.bits < n0 /\ v.block_off = 0
    BY <1>0, <1>30, <2>1
  <2>3. v.bits = 0 /\ ~ v.done /\ v \in Region
    BY <1>30
  <2> QED BY <2>2, <2>3 DEF FitInv
<1>6. ASSUME NEW i \in 0 .. n - 1, FitInv(ch, n0, align, off, i, scan[i])
      PROVE  i >= i0 => FitInv(ch, n0, align, off, i + 1, scan[i + 1])
  <2>0. SUFFICES ASSUME i >= i0 PROVE FitInv(ch, n0, align, off, i + 1, scan[i + 1])
    OBVIOUS
  <2>1. i + 1 \in 0 .. n /\ ~ (i + 1 <= i0)
    BY <1>0, <2>0
  <2>2. scan[i + 1] = FitStep(ch.md_blocks[(i + 1) - 1], (i + 1) - 1, n0, align, scan[(i + 1) - 1])
    BY <1>4, <2>1
  <2>3. (i + 1) - 1 = i
    BY <1>32
  <2>4. FitInv(ch, n0, align, off, i + 1, FitStep(ch.md_blocks[i], i, n0, align, scan[i]))
    BY <1>0, <1>6, FitRound DEF n
  <2> QED BY <2>2, <2>3, <2>4
<1>7. FitInv(ch, n0, align, off, n, scan[n])
  <2>1. CASE n <= i0
    <3>1. scan[n] = v
      BY <1>0, <1>4, <2>1
    <3>2. off # 0
      <4>1. n * Blk <= i0 * Blk /\ 1 * Blk <= n * Blk
        BY <1>0, <2>1, BlockOrder
      <4>2. PICK IB, NB, m : IB = i0 * Blk /\ NB = n * Blk /\ m = off % Blk
        OBVIOUS
      <4>3. IB \in Nat /\ NB \in Nat /\ Blk <= NB /\ NB <= IB /\ m \in Nat /\ off = IB + m
        BY <1>0, <4>1, <4>2
      <4> QED BY <1>0, <4>3
    <3> QED BY <1>0, <1>5, <2>1, <3>1, <3>2
  <2>2. CASE i0 < n
    <3> DEFINE S == {i \in i0 .. n : FitInv(ch, n0, align, off, i, scan[i])}
    <3>1. i0 \in S
      <4>1. scan[i0] = v /\ i0 \in 0 .. n /\ i0 <= i0
        BY <1>0, <1>4, <2>2
      <4>2. off = 0 => i0 = 0
        <5>1. i0 >= 1 => 1 * Blk <= i0 * Blk
          BY <1>0, BlockOrder
        <5>2. PICK IB, m : IB = i0 * Blk /\ m = off % Blk
          OBVIOUS
        <5>3. IB \in Nat /\ (i0 >= 1 => Blk <= IB) /\ m \in Nat /\ off = IB + m
          BY <1>0, <5>1, <5>2
        <5> QED BY <1>0, <5>3
      <4> QED BY <1>0, <1>5, <2>2, <4>1, <4>2
    <3>2. ASSUME NEW i \in i0 + 1 .. n, i - 1 \in S PROVE i \in S
      <4>1. i - 1 \in 0 .. n - 1 /\ i - 1 >= i0 /\ (i - 1) + 1 = i /\ i \in i0 .. n
        BY <1>0
      <4>2. FitInv(ch, n0, align, off, i - 1, scan[i - 1])
        BY <3>2
      <4>3. FitInv(ch, n0, align, off, (i - 1) + 1, scan[(i - 1) + 1])
        BY <1>6, <4>1, <4>2
      <4> QED BY <4>1, <4>3
    <3> HIDE DEF S
    <3>3. i0 .. n \subseteq S
      BY <1>0, <3>1, <3>2, UpTo
    <3>4. n \in i0 .. n
      BY <1>0, <2>2
    <3> QED BY <3>3, <3>4 DEF S
  <2> QED BY <1>0, <2>1, <2>2
<1>8. PICK r : r = scan[n]
  OBVIOUS
<1>9. FitInv(ch, n0, align, off, n, r)
  BY <1>7, <1>8
<1>10. ASSUME Clear(ch.alloc_map, 0, n * Blk), off = 0, n0 <= n * Blk PROVE r.done
  <2>1. SUFFICES ASSUME ~ r.done PROVE FALSE
    OBVIOUS
  <2>2. r.bits = n * Blk /\ r.bits < n0
    BY <1>9, <1>10, <2>1 DEF FitInv, n
  <2> QED BY <1>0, <1>10, <2>2
<1>11. r \in Region /\ (r.done => FitAt(ch, n0, align, r.bit_off, r.bits) /\ r.bit_off + r.bits <= n * Blk)
  BY <1>9 DEF FitInv
<1> QED BY <1>3, <1>8, <1>10, <1>11 DEF n

(* start is an offset from which n bits are found *)
FitOk(ch, n, align, pop_only, start) ==
    \E bits \in Nat :
        /\ start \in Nat /\ FitAt(ch, n, align, start, bits)
        /\ start + bits <= ch.nr_pages * Blk
        /\ pop_only => pcpu_is_populated(ch, start, bits)

FindInv(ch, n, align, pop_only, x) ==
    /\ x \in [bit_off : Nat, fit : Int]
    /\ x.fit = -1 \/ FitOk(ch, n, align, pop_only, x.fit)

LEMMA FindRound ==
    ASSUME NEW ch, ChunkHints(ch), ch.populated \in SUBSET Nat, NEW n, NEW align, FitReq(n, align),
           NEW pop_only \in BOOLEAN, NEW x, FindInv(ch, n, align, pop_only, x)
    PROVE  LET y == FindStep(ch, n, align, pop_only, x)
           IN  /\ FindInv(ch, n, align, pop_only, y)
               /\ x.fit # -1 => y.fit # -1
               /\ ~ pop_only /\ x.bit_off = 0 /\ n <= ch.nr_pages * Blk
                    /\ Clear(ch.alloc_map, 0, ch.nr_pages * Blk)
                     => y.fit # -1
<1>0. Blk \in Nat /\ Blk >= 1 /\ n \in Nat /\ n >= 1
  BY Sizes DEF FitReq
<1>1. x.bit_off \in Nat /\ x.fit \in Int /\ x = [bit_off |-> x.bit_off, fit |-> x.fit]
  BY DEF FindInv
<1>2. PICK r : r = pcpu_next_fit_region(ch, n, align, x.bit_off)
  OBVIOUS
<1>3. /\ r \in Region
      /\ r.done => /\ FitAt(ch, n, align, r.bit_off, r.bits)
                   /\ r.bit_off + r.bits <= ch.nr_pages * Blk
      /\ Clear(ch.alloc_map, 0, ch.nr_pages * Blk) /\ x.bit_off = 0
            /\ n <= ch.nr_pages * Blk => r.done
  BY <1>1, <1>2, NextFit
<1>4. r.bit_off \in Nat /\ r.bits \in Nat
  BY <1>3 DEF Region
<1>5. PICK y : y = FindStep(ch, n, align, pop_only, x)
  OBVIOUS
<1>6. y = IF x.fit # -1 \/ ~ r.done THEN x
          ELSE IF ~ pop_only \/ pcpu_is_populated(ch, r.bit_off, r.bits)
          THEN [x EXCEPT !.fit = r.bit_off]
          ELSE [x EXCEPT !.bit_off = NextOff(ch, r.bit_off, r.bits)]
  BY <1>2, <1>5 DEF FindStep
<1> DEFINE Good(z) == /\ FindInv(ch, n, align, pop_only, z)
                      /\ x.fit # -1 => z.fit # -1
                      /\ ~ pop_only /\ x.bit_off = 0 /\ n <= ch.nr_pages * Blk
                           /\ Clear(ch.alloc_map, 0, ch.nr_pages * Blk)
                            => z.fit # -1
<1>10. SUFFICES Good(y)
  BY <1>5
<1>7. CASE x.fit # -1 \/ ~ r.done
  <2>1. y = x
    BY <1>6, <1>7
  <2>2. x.fit # -1 \/ ~ (/\ x.bit_off = 0 /\ n <= ch.nr_pages * Blk
                         /\ Clear(ch.alloc_map, 0, ch.nr_pages * Blk))
    BY <1>3, <1>7
  <2> QED BY <2>1, <2>2
<1>8. CASE ~ (x.fit # -1 \/ ~ r.done) /\ (~ pop_only \/ pcpu_is_populated(ch, r.bit_off, r.bits))
  <2>1. y = [bit_off |-> x.bit_off, fit |-> r.bit_off]
    BY <1>1, <1>6, <1>8
  <2>2. y \in [bit_off : Nat, fit : Int] /\ y.fit = r.bit_off /\ y.fit # -1
    BY <1>1, <1>4, <2>1
  <2>3. FitOk(ch, n, align, pop_only, r.bit_off)
    BY <1>3, <1>4, <1>8 DEF FitOk
  <2>4. FindInv(ch, n, align, pop_only, y)
    BY <2>2, <2>3 DEF FindInv
  <2> QED BY <2>2, <2>4
<1>9. CASE ~ (x.fit # -1 \/ ~ r.done) /\ ~ (~ pop_only \/ pcpu_is_populated(ch, r.bit_off, r.bits))
  <2>1. r.bits >= 1
    <3>1. PICK f \in r.bit_off .. r.bit_off + Blk : f + n <= r.bit_off + r.bits
      BY <1>3, <1>9 DEF FitAt
    <3> QED BY <1>0, <1>4, <3>1
  <2>2. FirstPage(r.bit_off) \in Nat /\ LastPage(r.bit_off, r.bits) + 1 \in Nat
    <3>1. r.bit_off + r.bits - 1 \in Nat
      BY <1>4, <2>1
    <3>2. r.bit_off \div Blk \in Nat /\ (r.bit_off + r.bits - 1) \div Blk \in Nat
      BY <1>4, <3>1, InBlock
    <3> QED BY <3>2 DEF FirstPage, LastPage
  <2>3. pcpu_next_unpop(ch.populated, FirstPage(r.bit_off), LastPage(r.bit_off, r.bits) + 1)[2] \in Nat
    BY <2>2, NextUnpop
  <2>4. NextOff(ch, r.bit_off, r.bits) \in Nat
    BY <1>0, <2>3 DEF NextOff
  <2>5. y = [bit_off |-> NextOff(ch, r.bit_off, r.bits), fit |-> x.fit]
    BY <1>1, <1>6, <1>9
  <2>6. y \in [bit_off : Nat, fit : Int] /\ y.fit = x.fit
    BY <1>1, <2>4, <2>5
  <2>7. x.fit = -1 /\ pop_only
    BY <1>9
  <2>8. FindInv(ch, n, align, pop_only, y)
    BY <2>6, <2>7 DEF FindInv
  <2> QED BY <2>7, <2>8
<1> QED BY <1>7, <1>8, <1>9

(* What pcpu_find_block_fit returns *)
LEMMA FindFit ==
    ASSUME NEW ch, ChunkHints(ch), ch.populated \in SUBSET Nat, ch.first_bit \in Nat,
           NEW n0, NEW align, FitReq(n0, align), NEW pop_only \in BOOLEAN
    PROVE  LET start == pcpu_find_block_fit(ch, n0, align, pop_only)
           IN  /\ start = -1 \/ FitOk(ch, n0, align, pop_only, start)
               /\ ~ pop_only /\ ch.first_bit = 0 /\ n0 <= ch.nr_pages * Blk
                    /\ Clear(ch.alloc_map, 0, ch.nr_pages * Blk)
                    /\ ch.contig_bits = ch.nr_pages * Blk /\ ch.contig_bits_start = 0
                     => start # -1
<1> DEFINE n == ch.nr_pages + 1
           v == [bit_off |-> ch.first_bit, fit |-> -1]
           small == AlignUp(ch.contig_bits_start, align) - ch.contig_bits_start + n0 > ch.contig_bits
           free == /\ ~ pop_only /\ ch.first_bit = 0 /\ n0 <= ch.nr_pages * Blk
                   /\ Clear(ch.alloc_map, 0, ch.nr_pages * Blk)
                   /\ ch.contig_bits = ch.nr_pages * Blk /\ ch.contig_bits_start = 0
<1>0. Blk \in Nat /\ Blk >= 1 /\ n \in Nat /\ n >= 1 /\ 0 + 1 = 1 /\ n0 \in Nat /\ n0 >= 1
      /\ align \in Nat \ {0}
  BY Sizes DEF ChunkHints, FitReq
<1>30. v \in [bit_off : Nat, fit : Int] /\ v.bit_off = ch.first_bit /\ v.fit = -1
  OBVIOUS
<1>31. pcpu_find_block_fit(ch, n0, align, pop_only) =
        IF small THEN -1
        ELSE (CHOOSE f : f = [i \in 0 .. n |-> IF i = 0 THEN v
                                ELSE FindStep(ch, n0, align, pop_only, f[i - 1])])[n].fit
  BY DEF pcpu_find_block_fit
<1>33. free => ~ small
  <2>1. SUFFICES ASSUME free PROVE ~ small
    OBVIOUS
  <2>2. AlignUp(0, align) = 0
    BY <1>0, AlignZero
  <2>3. ch.nr_pages * Blk \in Nat /\ n0 <= ch.nr_pages * Blk
    BY Sizes, <2>1 DEF ChunkHints
  <2>4. AlignUp(ch.contig_bits_start, align) - ch.contig_bits_start + n0 = n0
    BY <1>0, <2>1, <2>2
  <2> QED BY <1>0, <2>1, <2>3, <2>4
<1>34. free => ~ pop_only /\ v.bit_off = 0 /\ n0 <= ch.nr_pages * Blk /\ Clear(ch.alloc_map, 0, ch.nr_pages * Blk)
  BY <1>30
<1> HIDE DEF n, v, small, free
<1> DEFINE G(u, i) == FindStep(ch, n0, align, pop_only, u)
           Def(f, m) == f = [i \in 0 .. m |-> IF i = 0 THEN v ELSE G(f[i - 1], i)]
           round == CHOOSE f : f = [i \in 0 .. n |-> IF i = 0 THEN v
                                               ELSE FindStep(ch, n0, align, pop_only, f[i - 1])]
<1>1. \E f : Def(f, n)
  <2> DEFINE S == {m \in 0 .. n : \E f : Def(f, m)}
  <2> HIDE DEF G
  <2>1. 0 \in S
    <3> DEFINE f == [i \in 0 .. 0 |-> v]
    <3>1. Def(f, 0)
      BY <1>0
    <3> HIDE DEF Def
    <3> QED BY <1>0, <3>1
  <2>2. ASSUME NEW m \in 1 .. n, m - 1 \in S PROVE m \in S
    <3>1. PICK f : Def(f, m - 1)
      BY <2>2
    <3> DEFINE g == [i \in 0 .. m |-> IF i = m THEN (IF m = 0 THEN v ELSE G(f[m - 1], m)) ELSE f[i]]
    <3>2. ASSUME NEW i \in 0 .. m PROVE g[i] = IF i = 0 THEN v ELSE G(g[i - 1], i)
      <4>1. CASE i = m
        <5>1. g[i - 1] = f[m - 1]
          BY <1>0, <4>1
        <5> QED BY <4>1, <5>1
      <4>2. CASE i # m /\ i # 0
        <5>1. i \in 0 .. m - 1 /\ g[i] = f[i] /\ g[i - 1] = f[i - 1]
          BY <1>0, <4>2
        <5> QED BY <3>1, <4>2, <5>1
      <4>3. CASE i # m /\ i = 0
        BY <1>0, <3>1, <4>3
      <4> QED BY <4>1, <4>2, <4>3
    <3>3. g = [i \in 0 .. m |-> g[i]]
      OBVIOUS
    <3> HIDE DEF g
    <3>4. Def(g, m)
      BY <3>2, <3>3
    <3> QED BY <3>4
  <2> HIDE DEF S
  <2>3. 0 .. n \subseteq S
    BY <1>0, <2>1, <2>2, UpTo
  <2>4. n \in S
    BY <1>0, <2>3
  <2> HIDE DEF Def
  <2> QED BY <2>4 DEF S
<1>2. Def(round, n)
  <2>1. \E f : f = [i \in 0 .. n |-> IF i = 0 THEN v
                                   ELSE FindStep(ch, n0, align, pop_only, f[i - 1])]
    BY <1>1
  <2> QED BY <2>1
<1>3. pcpu_find_block_fit(ch, n0, align, pop_only) = IF small THEN -1 ELSE round[n].fit
  BY <1>31
<1> HIDE DEF round
<1>4. /\ \A i \in 0 .. n : i = 0 => round[i] = v
      /\ \A i \in 0 .. n : ~ (i = 0) => round[i] = G(round[i - 1], i)
  <2> HIDE DEF G
  <2> QED BY <1>0, <1>2
<1> HIDE DEF Def
<1> DEFINE S == {i \in 1 .. n : FindInv(ch, n0, align, pop_only, round[i]) /\ (free => round[i].fit # -1)}
<1>5. 1 \in S
  <2>1. round[1] = FindStep(ch, n0, align, pop_only, v)
    BY <1>0, <1>4
  <2>2. FindInv(ch, n0, align, pop_only, v)
    BY <1>30 DEF FindInv
  <2>3. PICK y : y = FindStep(ch, n0, align, pop_only, v)
    OBVIOUS
  <2>4. /\ FindInv(ch, n0, align, pop_only, y)
        /\ ~ pop_only /\ v.bit_off = 0 /\ n0 <= ch.nr_pages * Blk
             /\ Clear(ch.alloc_map, 0, ch.nr_pages * Blk)
              => y.fit # -1
    BY <2>2, <2>3, FindRound
  <2> QED BY <1>0, <1>34, <2>1, <2>3, <2>4
<1>6. ASSUME NEW i \in 1 + 1 .. n, i - 1 \in S PROVE i \in S
  <2>1. i \in 1 .. n /\ i \in 0 .. n /\ i # 0
    BY <1>0
  <2>2. round[i] = FindStep(ch, n0, align, pop_only, round[i - 1])
    BY <1>4, <2>1
  <2>3. PICK x, y : x = round[i - 1] /\ y = FindStep(ch, n0, align, pop_only, x)
    OBVIOUS
  <2>4. FindInv(ch, n0, align, pop_only, x) /\ (free => x.fit # -1)
    BY <1>6, <2>3
  <2>5. FindInv(ch, n0, align, pop_only, y) /\ (x.fit # -1 => y.fit # -1)
    BY <2>3, <2>4, FindRound
  <2> QED BY <2>1, <2>2, <2>3, <2>4, <2>5
<1> HIDE DEF S
<1>7. 1 .. n \subseteq S
  <2>1. 1 \in Nat
    OBVIOUS
  <2> QED BY <1>0, <1>5, <1>6, <2>1, UpTo
<1>8. n \in S
  BY <1>0, <1>7
<1>9. PICK w : w = round[n]
  OBVIOUS
<1>10. FindInv(ch, n0, align, pop_only, w) /\ (free => w.fit # -1)
  BY <1>8, <1>9 DEF S
<1>11. w.fit = -1 \/ FitOk(ch, n0, align, pop_only, w.fit)
  BY <1>10 DEF FindInv
<1>12. PICK start : start = pcpu_find_block_fit(ch, n0, align, pop_only)
  OBVIOUS
<1>13. start = -1 \/ FitOk(ch, n0, align, pop_only, start)
  BY <1>3, <1>9, <1>11, <1>12
<1>14. free => start # -1
  BY <1>3, <1>9, <1>10, <1>12, <1>33
<1> DEFINE Good(z) == (z = -1 \/ FitOk(ch, n0, align, pop_only, z)) /\ (free => z # -1)
<1>15. Good(start)
  BY <1>13, <1>14
<1>16. Good(pcpu_find_block_fit(ch, n0, align, pop_only))
  <2> HIDE DEF Good
  <2> QED BY <1>12, <1>15
<1> QED BY <1>16 DEF free

(* bits [p, p + n) are a place for an area *)
PlaceFits(ch, n, is_atomic, p) ==
    /\ p \in Nat /\ p + n <= ch.nr_pages * Blk /\ Clear(ch.alloc_map, p, p + n)
    /\ is_atomic => PagesUnder(p, n) \subseteq ch.populated

LEMMA PlaceOk ==
    ASSUME NEW ch, ChunkHints(ch), ch.populated \in SUBSET Nat, ch.first_bit \in Nat,
           NEW req \in Requests, NEW is_atomic \in BOOLEAN
    PROVE  LET p == Place(ch, req, is_atomic)
           IN  /\ p = -1 \/ PlaceFits(ch, ReqBits(req), is_atomic, p)
               /\ ~ is_atomic /\ ch.first_bit = 0 /\ ReqBits(req) <= ch.nr_pages * Blk
                    /\ Clear(ch.alloc_map, 0, ch.nr_pages * Blk)
                    /\ ch.contig_bits = ch.nr_pages * Blk /\ ch.contig_bits_start = 0
                     => p >= 0
<1>0. Blk \in Nat /\ Blk >= 1
  BY Sizes
<1>1. PICK n, align, N : n = ReqBits(req) /\ align = ReqAlign(req) /\ N = ch.nr_pages * Blk
  OBVIOUS
<1>2. FitReq(n, align) /\ n \in Nat /\ n >= 1 /\ N \in Nat
  <2>1. n \in 1 .. pcpu_unit_pages * Blk /\ align \in Nat \ {0} /\ Blk % align = 0
    BY <1>1, Request
  <2>2. N \in Nat
    BY <1>0, <1>1 DEF ChunkHints
  <2>3. n \in Nat \ {0}
    <3>1. pcpu_unit_pages * Blk \in Int
      BY Sizes
    <3> QED BY <2>1, <3>1
  <2> QED BY <2>1, <2>2, <2>3 DEF FitReq
<1>3. PICK start : start = pcpu_find_block_fit(ch, n, align, is_atomic)
  OBVIOUS
<1>4. /\ start = -1 \/ FitOk(ch, n, align, is_atomic, start)
      /\ ~ is_atomic /\ ch.first_bit = 0 /\ n <= ch.nr_pages * Blk
           /\ Clear(ch.alloc_map, 0, ch.nr_pages * Blk)
           /\ ch.contig_bits = ch.nr_pages * Blk /\ ch.contig_bits_start = 0
            => start # -1
  BY <1>2, <1>3, FindFit
<1>5. PICK p : p = Place(ch, req, is_atomic)
  OBVIOUS
<1>6. p = IF start = -1 THEN -1 ELSE FindArea(ch, n, align, start)
  BY <1>1, <1>3, <1>5 DEF Place
<1> DEFINE Good(m, z) == /\ z = -1 \/ PlaceFits(ch, m, is_atomic, z)
                         /\ ~ is_atomic /\ ch.first_bit = 0 /\ m <= ch.nr_pages * Blk
                              /\ Clear(ch.alloc_map, 0, ch.nr_pages * Blk)
                              /\ ch.contig_bits = ch.nr_pages * Blk /\ ch.contig_bits_start = 0
                               => z >= 0
<1>9. SUFFICES Good(n, p)
  <2>1. Good(ReqBits(req), Place(ch, req, is_atomic))
    <3> HIDE DEF Good
    <3> QED BY <1>1, <1>5, <1>9
  <2> QED BY <2>1
<1>7. CASE start = -1
  <2>1. p = -1
    BY <1>6, <1>7
  <2> QED BY <1>4, <1>7, <2>1
<1>8. CASE start # -1
  <2>1. PICK bits \in Nat :
            /\ start \in Nat /\ FitAt(ch, n, align, start, bits) /\ start + bits <= N
            /\ is_atomic => pcpu_is_populated(ch, start, bits)
    BY <1>1, <1>4, <1>8 DEF FitOk
  <2>2. PICK f \in start .. start + Blk :
            f % align = 0 /\ Clear(ch.alloc_map, f, f + n) /\ f + n <= start + bits
    BY <2>1 DEF FitAt
  <2> DEFINE fits == {b \in start .. start + Blk :
                        b % align = 0 /\ (b .. b + n - 1) \cap ch.alloc_map = {}}
  <2>3. p = IF fits = {} THEN -1 ELSE Min(fits)
    BY <1>6, <1>8 DEF FindArea
  <2>4. f \in fits
    <3>1. (f .. f + n - 1) \cap ch.alloc_map = {}
      <4>1. f + n - 1 = (f + n) - 1 /\ f \in Int
        BY <1>2, <2>1, <2>2
      <4> QED BY <2>2, <4>1 DEF Clear
    <3> QED BY <2>2, <3>1
  <2>5. fits \in SUBSET Nat
    BY <1>0, <2>1
  <2>6. \A b \in fits : (b .. b + n - 1) \cap ch.alloc_map = {} /\ b >= start
    BY <1>0, <2>1
  <2> HIDE DEF fits
  <2>7. Min(fits) \in fits /\ \A y \in fits : Min(fits) <= y
    BY <2>4, <2>5, MinNat
  <2>8. p \in fits /\ p <= f
    BY <2>3, <2>4, <2>7
  <2>9. p \in Nat /\ start <= p
    BY <2>5, <2>6, <2>8
  <2>10. Clear(ch.alloc_map, p, p + n)
    <3>1. (p .. p + n - 1) \cap ch.alloc_map = {} /\ p + n - 1 = (p + n) - 1
      BY <1>2, <2>6, <2>8, <2>9
    <3> QED BY <3>1 DEF Clear
  <2>11. p + n <= start + bits /\ p + n <= N
    BY <1>0, <1>2, <2>1, <2>2, <2>8, <2>9
  <2>12. is_atomic => PagesUnder(p, n) \subseteq ch.populated
    <3>1. SUFFICES ASSUME is_atomic PROVE PagesUnder(p, n) \subseteq ch.populated
      OBVIOUS
    <3>2. PagesUnder(start, bits) \subseteq ch.populated
      BY <2>1, <3>1 DEF pcpu_is_populated
    <3>3. p + n - 1 \in Nat /\ start + bits - 1 \in Nat /\ p + n - 1 <= start + bits - 1
      BY <1>2, <2>1, <2>9, <2>11
    <3>4. start \div Blk <= p \div Blk /\ start \div Blk \in Nat /\ p \div Blk \in Nat
      BY <2>1, <2>9, DivMono
    <3>5. (p + n - 1) \div Blk <= (start + bits - 1) \div Blk
          /\ (p + n - 1) \div Blk \in Nat /\ (start + bits - 1) \div Blk \in Nat
      BY <3>3, DivMono
    <3>6. p \div Blk .. (p + n - 1) \div Blk \subseteq start \div Blk .. (start + bits - 1) \div Blk
      BY <3>4, <3>5
    <3> QED BY <3>2, <3>6 DEF PagesUnder, FirstPage, LastPage
  <2>13. PlaceFits(ch, n, is_atomic, p)
    BY <1>1, <2>9, <2>10, <2>11, <2>12 DEF PlaceFits
  <2>14. p >= 0
    BY <2>9
  <2> QED BY <2>13, <2>14
<1> QED BY <1>7, <1>8

-----------------------------------------------------------------------------
(* Slots *)

LEMMA HalfLess ==
    ASSUME NEW x \in Nat, NEW y \in Nat, x <= y
    PROVE  /\ x \div 2 \in Nat /\ x \div 2 <= x /\ x \div 2 <= y \div 2
           /\ x # 0 => x \div 2 <= x - 1
OBVIOUS

UnitSize == pcpu_unit_size

LEMMA Unit ==
    /\ UnitSize \in Nat /\ UnitSize >= 1
    /\ UnitSize = (pcpu_unit_pages * Blk) * PCPU_MIN_ALLOC_SIZE
<1>1. /\ pcpu_unit_pages \in Nat /\ Blk \in Nat /\ PCPU_MIN_ALLOC_SIZE \in Nat
      /\ pcpu_unit_pages >= 1 /\ Blk >= 1 /\ PCPU_MIN_ALLOC_SIZE >= 1
  BY Sizes
<1>2. UnitSize = pcpu_unit_pages * (Blk * PCPU_MIN_ALLOC_SIZE)
  BY DEF UnitSize, pcpu_unit_size, PAGE_SIZE
<1>3. UnitSize = (pcpu_unit_pages * Blk) * PCPU_MIN_ALLOC_SIZE
  BY <1>1, <1>2
<1>4. PICK P, M : P = pcpu_unit_pages * Blk /\ M = PCPU_MIN_ALLOC_SIZE
  OBVIOUS
<1>5. P \in Nat /\ P >= 1
  <2>1. 1 * Blk <= pcpu_unit_pages * Blk /\ pcpu_unit_pages * Blk \in Int
    BY <1>1, MulLeq
  <2> QED BY <1>1, <1>4, <2>1
<1>6. 1 * M <= P * M /\ P * M \in Int
  BY <1>1, <1>4, <1>5, MulLeq
<1>7. UnitSize = P * M
  BY <1>3, <1>4
<1> QED BY <1>1, <1>3, <1>4, <1>6, <1>7

(* fls is the function that its equation describes. *)
LEMMA FlsIs ==
    \A x \in 0 .. UnitSize : fls[x] = IF x = 0 THEN 0 ELSE 1 + fls[x \div 2]
<1> DEFINE Def(f, m) == f = [x \in 0 .. m |-> IF x = 0 THEN 0 ELSE 1 + f[x \div 2]]
           S == {m \in 0 .. UnitSize : \E f : Def(f, m)}
<1>0. UnitSize \in Nat /\ 0 + 1 = 1
  BY Unit
<1>1. 0 \in S
  <2> DEFINE f == [x \in 0 .. 0 |-> 0]
  <2>1. Def(f, 0)
    OBVIOUS
  <2> HIDE DEF Def
  <2> QED BY <1>0, <2>1
<1>2. ASSUME NEW m \in 0 + 1 .. UnitSize, m - 1 \in S PROVE m \in S
  <2>1. PICK f : Def(f, m - 1)
    BY <1>2
  <2>2. m \in Nat /\ m >= 1
    BY <1>0
  <2> DEFINE g == [x \in 0 .. m |-> IF x = m THEN 1 + f[m \div 2] ELSE f[x]]
  <2>3. ASSUME NEW x \in 0 .. m PROVE g[x] = IF x = 0 THEN 0 ELSE 1 + g[x \div 2]
    <3>1. x \in Nat
      OBVIOUS
    <3>2. x \div 2 \in Nat /\ x \div 2 <= x /\ (x # 0 => x \div 2 <= x - 1)
      BY <3>1, HalfLess
    <3>3. CASE x = m
      <4>1. x \div 2 \in 0 .. m /\ x \div 2 # m /\ x # 0
        BY <2>2, <3>2, <3>3
      <4>2. g[x \div 2] = f[m \div 2] /\ g[x] = 1 + f[m \div 2]
        BY <3>3, <4>1
      <4> QED BY <4>1, <4>2
    <3>4. CASE x # m
      <4>1. x \in 0 .. m - 1 /\ x \div 2 \in 0 .. m /\ x \div 2 # m
        BY <2>2, <3>1, <3>2, <3>4
      <4>2. g[x] = f[x] /\ g[x \div 2] = f[x \div 2]
        BY <3>4, <4>1
      <4>3. f[x] = IF x = 0 THEN 0 ELSE 1 + f[x \div 2]
        BY <2>1, <4>1
      <4> QED BY <4>2, <4>3
    <3> QED BY <3>3, <3>4
  <2>4. g = [x \in 0 .. m |-> g[x]]
    OBVIOUS
  <2> HIDE DEF g
  <2>5. Def(g, m)
    BY <2>3, <2>4
  <2> QED BY <2>5
<1> HIDE DEF S
<1>3. 0 .. UnitSize \subseteq S
  BY <1>0, <1>1, <1>2, UpTo
<1>4. UnitSize \in S
  BY <1>0, <1>3
<1>5. \E f : Def(f, UnitSize)
  <2> HIDE DEF Def
  <2> QED BY <1>4 DEF S
<1>6. fls = CHOOSE f : f = [x \in 0 .. UnitSize |-> IF x = 0 THEN 0 ELSE 1 + f[x \div 2]]
  BY DEF fls, UnitSize
<1>7. Def(fls, UnitSize)
  <2>1. \E f : f = [x \in 0 .. UnitSize |-> IF x = 0 THEN 0 ELSE 1 + f[x \div 2]]
    BY <1>5
  <2> QED BY <1>6, <2>1
<1> QED BY <1>7

LEMMA FlsMonotone ==
    /\ \A x \in 0 .. UnitSize : fls[x] \in Nat
    /\ \A x, y \in 0 .. UnitSize : x <= y => fls[x] <= fls[y]
<1> DEFINE S == {m \in 0 .. UnitSize : /\ \A x \in 0 .. m : fls[x] \in Nat
                                       /\ \A x, y \in 0 .. m : x <= y => fls[x] <= fls[y]}
<1>0. UnitSize \in Nat /\ 0 + 1 = 1
  BY Unit
<1>1. 0 \in S
  <2>1. fls[0] = 0
    BY <1>0, FlsIs
  <2> QED BY <1>0, <2>1
<1>2. ASSUME NEW m \in 0 + 1 .. UnitSize, m - 1 \in S PROVE m \in S
  <2>0. m \in Nat /\ m >= 1 /\ m \in 0 .. UnitSize
    BY <1>0
  <2>1. /\ \A x \in 0 .. m - 1 : fls[x] \in Nat
        /\ \A x, y \in 0 .. m - 1 : x <= y => fls[x] <= fls[y]
    BY <1>2
  <2>2. m \div 2 \in 0 .. m - 1
    BY <2>0, HalfLess
  <2>3. fls[m] = 1 + fls[m \div 2]
    BY <2>0, FlsIs
  <2>4. fls[m] \in Nat
    BY <2>1, <2>2, <2>3
  <2>5. ASSUME NEW x \in 0 .. m PROVE fls[x] <= fls[m]
    <3>1. CASE x = m
      BY <2>4, <3>1
    <3>2. CASE x = 0
      <4>1. fls[0] = 0
        BY <1>0, FlsIs
      <4> QED BY <2>4, <3>2, <4>1
    <3>3. CASE x # 0 /\ x # m
      <4>1. x \in Nat /\ x \in 0 .. UnitSize /\ x <= m
        BY <1>0, <2>0
      <4>2. x \div 2 \in Nat /\ x \div 2 <= m \div 2
        BY <2>0, <4>1, HalfLess
      <4>3. x \div 2 \in 0 .. m - 1
        BY <2>2, <4>2
      <4>4. fls[x \div 2] <= fls[m \div 2] /\ fls[x \div 2] \in Nat /\ fls[m \div 2] \in Nat
        BY <2>1, <2>2, <4>2, <4>3
      <4>5. fls[x] = 1 + fls[x \div 2]
        BY <3>3, <4>1, FlsIs
      <4> QED BY <2>3, <4>4, <4>5
    <3> QED BY <3>1, <3>2, <3>3
  <2>6. \A x \in 0 .. m : x = m \/ x \in 0 .. m - 1
    BY <2>0
  <2>7. \A x \in 0 .. m : fls[x] \in Nat
    BY <2>1, <2>4, <2>6
  <2>8. ASSUME NEW x \in 0 .. m, NEW y \in 0 .. m, x <= y PROVE fls[x] <= fls[y]
    <3>1. CASE y = m
      BY <2>5, <3>1
    <3>2. CASE y # m
      <4>1. y \in 0 .. m - 1 /\ x \in 0 .. m - 1
        BY <2>0, <2>8, <3>2
      <4> QED BY <2>1, <2>8, <4>1
    <3> QED BY <3>1, <3>2
  <2> QED BY <2>0, <2>7, <2>8
<1> HIDE DEF S
<1>3. 0 .. UnitSize \subseteq S
  BY <1>0, <1>1, <1>2, UpTo
<1>4. UnitSize \in S
  BY <1>0, <1>3
<1> QED BY <1>4 DEF S

(* A slot for each size; only a chunk that is all free comes to the last one. *)
LEMMA SizeSlot ==
    /\ pcpu_nr_slots \in Nat /\ pcpu_nr_slots >= 3
    /\ \A size \in 0 .. UnitSize :
          /\ pcpu_size_to_slot(size) \in 1 .. pcpu_nr_slots - 1
          /\ pcpu_size_to_slot(size) = pcpu_nr_slots - 1 => size = UnitSize
<1>0. UnitSize \in Nat /\ PCPU_SLOT_BASE_SHIFT \in Nat
  BY Unit, Sizes
<1> DEFINE raw(size) == fls[size] - PCPU_SLOT_BASE_SHIFT + 2
<1>1. ASSUME NEW size \in 0 .. UnitSize
      PROVE  __pcpu_size_to_slot(size) = (IF raw(size) > 1 THEN raw(size) ELSE 1) /\ raw(size) \in Int
  <2>1. fls[size] \in Nat
    BY FlsMonotone
  <2>2. PICK w : w = raw(size)
    OBVIOUS
  <2>3. w \in Int
    BY <1>0, <2>1, <2>2
  <2>4. __pcpu_size_to_slot(size) = Max({w, 1})
    BY <2>2 DEF __pcpu_size_to_slot
  <2>5. CASE w > 1
    <3>1. {w, 1} \in SUBSET Int /\ w \in {w, 1} /\ \A y \in {w, 1} : y <= w
      BY <2>3, <2>5
    <3>2. Max({w, 1}) = w
      BY <3>1, MaxIs
    <3> QED BY <2>2, <2>3, <2>4, <2>5, <3>2
  <2>6. CASE ~ (w > 1)
    <3>1. {w, 1} \in SUBSET Int /\ 1 \in {w, 1} /\ \A y \in {w, 1} : y <= 1
      BY <2>3, <2>6
    <3>2. Max({w, 1}) = 1
      BY <3>1, MaxIs
    <3> QED BY <2>2, <2>3, <2>4, <2>6, <3>2
  <2> QED BY <2>5, <2>6
<1>2. ASSUME NEW size \in 0 .. UnitSize
      PROVE  /\ __pcpu_size_to_slot(size) \in Nat /\ __pcpu_size_to_slot(size) >= 1
             /\ __pcpu_size_to_slot(size) <= __pcpu_size_to_slot(UnitSize)
  <2>0. UnitSize \in 0 .. UnitSize /\ size <= UnitSize
    BY <1>0
  <2>1. fls[size] <= fls[UnitSize] /\ fls[size] \in Nat /\ fls[UnitSize] \in Nat
    BY <2>0, FlsMonotone
  <2>2. PICK w, z : w = raw(size) /\ z = raw(UnitSize)
    OBVIOUS
  <2>3. w \in Int /\ z \in Int /\ w <= z
    BY <1>0, <2>1, <2>2
  <2>4. /\ __pcpu_size_to_slot(size) = IF w > 1 THEN w ELSE 1
        /\ __pcpu_size_to_slot(UnitSize) = IF z > 1 THEN z ELSE 1
    BY <1>1, <2>0, <2>2
  <2> QED BY <2>3, <2>4
<1> HIDE DEF raw
<1>3. pcpu_nr_slots = __pcpu_size_to_slot(UnitSize) + 2
  BY DEF pcpu_nr_slots, UnitSize
<1>4. __pcpu_size_to_slot(UnitSize) \in Nat /\ __pcpu_size_to_slot(UnitSize) >= 1
  BY <1>0, <1>2
<1>5. pcpu_nr_slots \in Nat /\ pcpu_nr_slots >= 3
  BY <1>3, <1>4
<1>6. ASSUME NEW size \in 0 .. UnitSize
      PROVE  /\ pcpu_size_to_slot(size) \in 1 .. pcpu_nr_slots - 1
             /\ pcpu_size_to_slot(size) = pcpu_nr_slots - 1 => size = UnitSize
  <2>1. pcpu_size_to_slot(size) =
           IF size = UnitSize THEN pcpu_nr_slots - 1 ELSE __pcpu_size_to_slot(size)
    BY DEF pcpu_size_to_slot, UnitSize
  <2>2. /\ __pcpu_size_to_slot(size) \in Nat /\ __pcpu_size_to_slot(size) >= 1
        /\ __pcpu_size_to_slot(size) <= __pcpu_size_to_slot(UnitSize)
    BY <1>2
  <2> QED BY <1>3, <1>4, <1>5, <2>1, <2>2
<1> QED BY <1>5, <1>6

LEMMA ChunkSlot ==
    ASSUME NEW ch, ch.free_bytes \in 0 .. UnitSize
    PROVE  /\ pcpu_chunk_slot(ch) \in 0 .. pcpu_nr_slots - 1
           /\ pcpu_chunk_slot(ch) = pcpu_nr_slots - 1 => ch.free_bytes = UnitSize
           /\ ch.free_bytes >= PCPU_MIN_ALLOC_SIZE /\ ch.contig_bits # 0 => pcpu_chunk_slot(ch) # 0
<1>1. pcpu_nr_slots \in Nat /\ pcpu_nr_slots >= 3
  BY SizeSlot
<1>2. /\ pcpu_size_to_slot(ch.free_bytes) \in 1 .. pcpu_nr_slots - 1
      /\ pcpu_size_to_slot(ch.free_bytes) = pcpu_nr_slots - 1 => ch.free_bytes = UnitSize
  BY SizeSlot
<1>3. PCPU_MIN_ALLOC_SIZE \in Nat /\ UnitSize \in Nat
  BY Sizes, Unit
<1>4. CASE ch.free_bytes < PCPU_MIN_ALLOC_SIZE \/ ch.contig_bits = 0
  <2>1. pcpu_chunk_slot(ch) = 0
    BY <1>4 DEF pcpu_chunk_slot
  <2> QED BY <1>1, <1>3, <1>4, <2>1
<1>5. CASE ~ (ch.free_bytes < PCPU_MIN_ALLOC_SIZE \/ ch.contig_bits = 0)
  <2>1. pcpu_chunk_slot(ch) = pcpu_size_to_slot(ch.free_bytes)
    BY <1>5 DEF pcpu_chunk_slot
  <2> QED BY <1>1, <1>2, <2>1
<1> QED BY <1>4, <1>5

-----------------------------------------------------------------------------
(* Lists of chunks *)

InOnce(list, c) ==
    \E i \in DOMAIN list : list[i] = c /\ \A j \in DOMAIN list : list[j] = c => j = i
NotIn(list, c) == \A j \in DOMAIN list : list[j] # c

(* l2 has the elements other than c that l1 has. *)
SameBut(l1, l2, c) ==
    \A d \in Nat : d # c => (InOnce(l1, d) => InOnce(l2, d)) /\ (NotIn(l1, d) => NotIn(l2, d))

LEMMA ListDel ==
    ASSUME NEW D \in SUBSET Nat, NEW list \in Seq(D), NEW c \in Nat, InOnce(list, c) \/ NotIn(list, c)
    PROVE  /\ Without(list, c) \in Seq(D) /\ NotIn(Without(list, c), c)
           /\ SameBut(list, Without(list, c), c)
<1>1. PICK n \in Nat : n = Len(list) /\ DOMAIN list = 1 .. n
  OBVIOUS
<1>2. PICK r : r = Without(list, c)
  OBVIOUS
<1>3. SUFFICES r \in Seq(D) /\ NotIn(r, c) /\ SameBut(list, r, c)
  BY <1>2
<1>4. CASE NotIn(list, c)
  <2>1. {i \in DOMAIN list : list[i] = c} = {}
    BY <1>4 DEF NotIn
  <2>2. r = list
    BY <1>2, <2>1 DEF Without
  <2> QED BY <1>4, <2>2 DEF SameBut
<1>5. CASE InOnce(list, c)
  <2>0. DOMAIN list = 1 .. n
    BY <1>1
  <2>1. PICK i \in 1 .. n : list[i] = c /\ \A j \in 1 .. n : list[j] = c => j = i
    BY <1>5, <2>0 DEF InOnce
  <2>2. {j \in DOMAIN list : list[j] = c} = {i}
    BY <1>1, <2>1
  <2>3. (CHOOSE j \in {i} : TRUE) = i
    OBVIOUS
  <2>4. r = [j \in 1 .. n - 1 |-> IF j < i THEN list[j] ELSE list[j + 1]]
    BY <1>1, <1>2, <2>2, <2>3 DEF Without
  <2>5. n - 1 \in Nat /\ \A j \in 1 .. n : list[j] \in D
    BY <1>1, <2>1
  <2>6. DOMAIN r = 1 .. n - 1
    BY <2>4
  <2>7. \A j \in 1 .. n - 1 : /\ r[j] = (IF j < i THEN list[j] ELSE list[j + 1])
                              /\ j \in 1 .. n /\ j + 1 \in 1 .. n
    BY <1>1, <2>4
  <2>8. \A j \in 1 .. n - 1 : r[j] \in D
    BY <2>5, <2>7
  <2>9. r \in [1 .. n - 1 -> D]
    BY <2>4, <2>8
  <2>10. r \in Seq(D)
    BY <2>5, <2>9
  <2>11. NotIn(r, c)
    <3> SUFFICES ASSUME NEW j \in 1 .. n - 1 PROVE r[j] # c
      BY <2>6 DEF NotIn
    <3>1. CASE j < i
      BY <1>1, <2>1, <2>7, <3>1
    <3>2. CASE ~ (j < i)
      <4>1. j + 1 # i /\ j + 1 \in 1 .. n
        BY <1>1, <2>1, <3>2
      <4> QED BY <2>1, <2>7, <3>2, <4>1
    <3> QED BY <3>1, <3>2
  <2>12. ASSUME NEW d \in Nat, d # c, InOnce(list, d) PROVE InOnce(r, d)
    <3>1. PICK k \in 1 .. n : list[k] = d /\ \A j \in 1 .. n : list[j] = d => j = k
      BY <2>0, <2>12 DEF InOnce
    <3>2. k # i
      BY <2>1, <2>12, <3>1
    <3>3. PICK m : m = IF k < i THEN k ELSE k - 1
      OBVIOUS
    <3>4. m \in 1 .. n - 1
      BY <1>1, <2>1, <3>1, <3>2, <3>3
    <3>5. ASSUME NEW j \in 1 .. n - 1 PROVE r[j] = d <=> j = m
      <4>1. CASE j < i
        <5>1. r[j] = d <=> j = k
          BY <2>7, <3>1, <4>1
        <5> QED BY <1>1, <2>1, <3>2, <3>3, <4>1, <5>1
      <4>2. CASE ~ (j < i)
        <5>1. r[j] = d <=> j + 1 = k
          BY <2>7, <3>1, <4>2
        <5> QED BY <1>1, <2>1, <3>2, <3>3, <4>2, <5>1
      <4> QED BY <4>1, <4>2
    <3>6. r[m] = d /\ m \in DOMAIN r /\ \A j \in DOMAIN r : r[j] = d => j = m
      BY <2>6, <3>4, <3>5
    <3> QED BY <3>6 DEF InOnce
  <2>13. ASSUME NEW d \in Nat, NotIn(list, d) PROVE NotIn(r, d)
    BY <1>1, <2>6, <2>7, <2>13 DEF NotIn
  <2> QED BY <2>10, <2>11, <2>12, <2>13 DEF SameBut
<1> QED BY <1>4, <1>5

LEMMA ListAdd ==
    ASSUME NEW D \in SUBSET Nat, NEW list \in Seq(D), NEW c \in Nat, NotIn(list, c), NEW r,
           r = <<c>> \o list \/ r = Append(list, c)
    PROVE  r \in Seq(D \cup {c}) /\ InOnce(r, c) /\ SameBut(list, r, c)
<1>1. PICK n \in Nat : n = Len(list) /\ DOMAIN list = 1 .. n /\ list \in [1 .. n -> D]
  OBVIOUS
<1>2. PICK a, s \in Int : /\ DOMAIN r = 1 .. n + 1 /\ r \in Seq(D \cup {c})
                          /\ a \in 1 .. n + 1 /\ r[a] = c
                          /\ (s = 1 /\ a = 1) \/ (s = 0 /\ a = n + 1)
                          /\ \A j \in 1 .. n : r[j + s] = list[j]
  <2>1. CASE r = <<c>> \o list
    <3>1. /\ DOMAIN r = 1 .. n + 1 /\ r \in Seq(D \cup {c}) /\ 1 \in 1 .. n + 1 /\ r[1] = c
          /\ \A j \in 1 .. n : r[j + 1] = list[j]
      <4>1. list \in Seq(D \cup {c}) /\ <<c>> \in Seq(D \cup {c})
        OBVIOUS
      <4>2. r \in Seq(D \cup {c}) /\ Len(r) = n + 1
        BY <1>1, <2>1, <4>1
      <4>3. r[1] = c /\ \A j \in 1 .. n : r[j + 1] = list[j]
        BY <1>1, <2>1
      <4> QED BY <1>1, <4>2, <4>3
    <3> QED BY <3>1
  <2>2. CASE r = Append(list, c)
    <3>1. /\ DOMAIN r = 1 .. n + 1 /\ r \in Seq(D \cup {c}) /\ n + 1 \in 1 .. n + 1 /\ r[n + 1] = c
          /\ \A j \in 1 .. n : r[j + 0] = list[j]
      <4>1. list \in Seq(D \cup {c}) /\ c \in D \cup {c}
        OBVIOUS
      <4>2. r \in Seq(D \cup {c}) /\ Len(r) = n + 1
        BY <1>1, <2>2, <4>1
      <4>3. r[n + 1] = c /\ \A j \in 1 .. n : r[j] = list[j]
        BY <1>1, <2>2
      <4> QED BY <1>1, <4>2, <4>3
    <3>2. n + 1 \in Int /\ 0 \in Int
      OBVIOUS
    <3> QED BY <3>1, <3>2
  <2> QED BY <2>1, <2>2
<1>3. \A j \in 1 .. n + 1 : j = a \/ (j - s \in 1 .. n /\ r[j] = list[j - s])
  <2> SUFFICES ASSUME NEW j \in 1 .. n + 1, j # a PROVE j - s \in 1 .. n /\ r[j] = list[j - s]
    OBVIOUS
  <2>1. j - s \in 1 .. n /\ (j - s) + s = j
    BY <1>1, <1>2
  <2> QED BY <1>2, <2>1
<1>4. InOnce(r, c)
  <2>1. \A j \in 1 .. n : list[j] # c
    BY <1>1 DEF NotIn
  <2>2. \A j \in 1 .. n + 1 : r[j] = c <=> j = a
    BY <1>2, <1>3, <2>1
  <2>3. a \in DOMAIN r /\ \A j \in DOMAIN r : r[j] = c <=> j = a
    BY <1>2, <2>2
  <2> QED BY <1>2, <2>3 DEF InOnce
<1>5. ASSUME NEW d \in Nat, d # c, NotIn(list, d) PROVE NotIn(r, d)
  BY <1>1, <1>2, <1>3, <1>5 DEF NotIn
<1>6. ASSUME NEW d \in Nat, d # c, InOnce(list, d) PROVE InOnce(r, d)
  <2>0. DOMAIN list = 1 .. n
    BY <1>1
  <2>1. PICK k \in 1 .. n : list[k] = d /\ \A j \in 1 .. n : list[j] = d => j = k
    BY <1>6, <2>0 DEF InOnce
  <2>2. k + s \in 1 .. n + 1 /\ k + s # a
    BY <1>1, <1>2, <2>1
  <2>3. ASSUME NEW j \in 1 .. n + 1 PROVE r[j] = d <=> j = k + s
    <3>1. CASE j = a
      BY <1>2, <1>6, <2>2, <3>1
    <3>2. CASE j # a
      <4>1. j - s \in 1 .. n /\ r[j] = list[j - s]
        BY <1>3, <3>2
      <4>2. r[j] = d <=> j - s = k
        BY <2>1, <4>1
      <4> QED BY <1>2, <2>1, <4>1, <4>2
    <3> QED BY <3>1, <3>2
  <2>4. k + s \in DOMAIN r /\ \A j \in DOMAIN r : r[j] = d <=> j = k + s
    BY <1>2, <2>2, <2>3
  <2>5. r[k + s] = d
    BY <2>4
  <2> QED BY <2>4, <2>5 DEF InOnce
<1> QED BY <1>2, <1>4, <1>5, <1>6 DEF SameBut
=============================================================================
