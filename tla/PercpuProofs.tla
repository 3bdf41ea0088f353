---------------------------- MODULE PercpuProofs ----------------------------
(***************************************************************************)
(* The properties of the per-CPU allocator, Percpu.tla, for every value of *)
(* its constants: what an allocation, a free and populating pages do to a  *)
(* chunk, what moving chunks between slots does to the lists, and from     *)
(* these the inductive invariant.                                          *)
(***************************************************************************)
EXTENDS PercpuLemmas

-----------------------------------------------------------------------------
(* What holds of every chunk *)

FreeBits(ch) == (0 .. ch.nr_pages * Blk - 1) \ ch.alloc_map

(* All but how good the chunk's own hints are *)
Base(ch) ==
    /\ ch \in ChunkRec /\ ch.nr_pages \in 1 .. pcpu_unit_pages
    /\ ch.md_blocks \in [0 .. ch.nr_pages - 1 -> BlockRec]
    /\ ChunkHints(ch)
    /\ ch.first_bit <= ch.nr_pages * Blk /\ AllSet(ch.alloc_map, 0, ch.first_bit)
    /\ ch.bound_map \in SUBSET (0 .. ch.nr_pages * Blk)
    /\ ch.populated \in SUBSET (0 .. ch.nr_pages - 1)
    /\ ch.nr_populated = Cardinality(ch.populated)
    /\ ch.immutable => ch.populated = 0 .. ch.nr_pages - 1
    /\ ch.contig_bits <= ch.nr_pages * Blk /\ ch.contig_bits_start <= ch.nr_pages * Blk

(* u is ch with other maps and counts, before its hints follow. *)
Edited(u, ch) ==
    /\ u \in ChunkRec /\ u.nr_pages = ch.nr_pages /\ u.md_blocks = ch.md_blocks
    /\ u.contig_bits = ch.contig_bits /\ u.contig_bits_start = ch.contig_bits_start
    /\ u.populated = ch.populated /\ u.nr_populated = ch.nr_populated
    /\ u.nr_empty_pop_pages = ch.nr_empty_pop_pages /\ u.immutable = ch.immutable
    /\ u.alloc_map \in SUBSET (0 .. ch.nr_pages * Blk - 1)
    /\ u.bound_map \in SUBSET (0 .. ch.nr_pages * Blk)
    /\ u.first_bit <= ch.nr_pages * Blk /\ AllSet(u.alloc_map, 0, u.first_bit)

LEMMA EditedChanged ==
    ASSUME NEW ch, Base(ch), NEW u, Edited(u, ch), NEW off \in Nat, NEW n \in Nat \ {0},
           off + n <= ch.nr_pages * Blk
    PROVE  Changed(u, ch.alloc_map, off, n)
<1>1. /\ ch.alloc_map \in SUBSET (0 .. u.nr_pages * Blk - 1) /\ u.nr_pages \in Nat \ {0}
      /\ \A i \in 0 .. u.nr_pages - 1 : BlockInv(u.md_blocks[i], OldMap(ch.alloc_map, i))
  BY DEF Base, Edited, ChunkHints, OldMap, pcpu_index_alloc_map
<1>2. /\ u \in ChunkRec /\ u.md_blocks \in [0 .. u.nr_pages - 1 -> BlockRec]
      /\ off + n <= u.nr_pages * Blk
      /\ u.alloc_map \in SUBSET (0 .. u.nr_pages * Blk - 1)
      /\ u.populated \in SUBSET (0 .. u.nr_pages - 1)
      /\ u.first_bit <= u.nr_pages * Blk /\ AllSet(u.alloc_map, 0, u.first_bit)
      /\ u.contig_bits_start <= u.nr_pages * Blk
  BY DEF Base, Edited
<1> QED BY <1>1, <1>2 DEF Changed

LEMMA BaseOf ==
    ASSUME NEW ch, Base(ch), NEW u, Edited(u, ch), NEW r, Rehinted(r, u),
           r.contig_bits <= r.nr_pages * Blk, r.contig_bits_start <= r.nr_pages * Blk
    PROVE  Base(r)
<1>1. /\ r.nr_pages = ch.nr_pages /\ r.alloc_map = u.alloc_map /\ r.bound_map = u.bound_map
      /\ r.first_bit = u.first_bit /\ r.populated = ch.populated
      /\ r.nr_populated = ch.nr_populated /\ r.immutable = ch.immutable
      /\ r \in ChunkRec /\ ChunkHints(r) /\ r.md_blocks \in [0 .. r.nr_pages - 1 -> BlockRec]
  BY DEF Edited, Rehinted, SameBits
<1>2. /\ r.nr_pages \in 1 .. pcpu_unit_pages
      /\ r.populated \in SUBSET (0 .. r.nr_pages - 1)
      /\ r.nr_populated = Cardinality(r.populated)
      /\ r.immutable => r.populated = 0 .. r.nr_pages - 1
  BY <1>1 DEF Base
<1>3. /\ r.first_bit <= r.nr_pages * Blk /\ AllSet(r.alloc_map, 0, r.first_bit)
      /\ r.bound_map \in SUBSET (0 .. r.nr_pages * Blk)
  BY <1>1 DEF Edited
<1> QED BY <1>1, <1>2, <1>3 DEF Base

LEMMA PopFinite ==
    ASSUME NEW ch, Base(ch)
    PROVE  /\ IsFiniteSet(ch.populated) /\ IsFiniteSet(EmptyPop(ch))
           /\ ch.nr_pages \in Nat /\ ch.nr_pages >= 1 /\ ch.nr_pages * Blk \in Nat
<1>1. ch.nr_pages \in Nat /\ ch.nr_pages >= 1 /\ ch.populated \subseteq 0 .. ch.nr_pages - 1
  BY Sizes DEF Base
<1>2. ch.nr_pages - 1 \in Int /\ 0 \in Int
  BY <1>1
<1>3. IsFiniteSet(0 .. ch.nr_pages - 1)
  BY <1>2, FS_Interval
<1>4. IsFiniteSet(ch.populated)
  BY <1>1, <1>3, FS_Subset
<1>5. EmptyPop(ch) \subseteq ch.populated
  BY DEF EmptyPop
<1>6. IsFiniteSet(EmptyPop(ch))
  BY <1>4, <1>5, FS_Subset
<1>7. ch.nr_pages * Blk \in Nat
  BY <1>1, Sizes
<1> QED BY <1>1, <1>4, <1>6, <1>7

(* Fewer free pages need no higher count. *)
LEMMA FewerEmpty ==
    ASSUME NEW ch, Base(ch), EmptyOk(ch), NEW r, Base(r),
           EmptyPop(r) \subseteq EmptyPop(ch), r.nr_empty_pop_pages = ch.nr_empty_pop_pages
    PROVE  EmptyOk(r)
<1>1. IsFiniteSet(EmptyPop(ch))
  BY PopFinite
<1>2. Cardinality(EmptyPop(r)) <= Cardinality(EmptyPop(ch)) /\ IsFiniteSet(EmptyPop(r))
  BY <1>1, FS_Subset
<1>3. Cardinality(EmptyPop(r)) \in Nat /\ Cardinality(EmptyPop(ch)) \in Nat
  BY <1>1, <1>2, FS_CardinalityType
<1>4. ch.nr_empty_pop_pages \in Nat /\ Cardinality(EmptyPop(ch)) <= ch.nr_empty_pop_pages
  BY DEF Base, ChunkRec, EmptyOk
<1>5. Cardinality(EmptyPop(r)) <= ch.nr_empty_pop_pages
  BY <1>2, <1>3, <1>4
<1> QED BY <1>5 DEF EmptyOk

InHint(ch, off) == ch.contig_bits_start <= off /\ off < ch.contig_bits_start + ch.contig_bits

(* Bits [off, off + n) are taken, and the hints follow. *)
LEMMA Take ==
    ASSUME NEW ch, Base(ch), NEW u, Edited(u, ch), NEW off \in Nat, NEW n \in Nat \ {0},
           off + n <= ch.nr_pages * Blk, Clear(ch.alloc_map, off, off + n),
           u.alloc_map = ch.alloc_map \cup (off .. off + n - 1)
    PROVE  LET r == pcpu_block_update_hint_alloc(u, off, n)
           IN  /\ Base(r) /\ SameBits(r, u)
               /\ (ContigOk(ch) /\ EmptyOk(ch)) \/ InHint(ch, off) => ContigOk(r) /\ EmptyOk(r)
               /\ ~ InHint(ch, off) =>
                     \/ ContigOk(r) /\ EmptyOk(r)
                     \/ /\ r.contig_bits = ch.contig_bits /\ r.contig_bits_start = ch.contig_bits_start
                        /\ r.nr_empty_pop_pages = ch.nr_empty_pop_pages
<1>0. Blk \in Nat /\ ch.nr_pages \in Nat /\ ch.nr_pages * Blk \in Nat
  BY Sizes, PopFinite
<1>1. Changed(u, ch.alloc_map, off, n)
  BY EditedChanged
<1>2. PICK r : r = pcpu_block_update_hint_alloc(u, off, n)
  OBVIOUS
<1>3. /\ Rehinted(r, u)
      /\ \/ ContigOk(r) /\ EmptyOk(r)
         \/ /\ r.contig_bits = u.contig_bits /\ r.contig_bits_start = u.contig_bits_start
            /\ r.nr_empty_pop_pages = u.nr_empty_pop_pages
            /\ ~ (u.contig_bits_start <= off /\ off < u.contig_bits_start + u.contig_bits)
  BY <1>1, <1>2, HintAlloc
<1>4. /\ u.contig_bits = ch.contig_bits /\ u.contig_bits_start = ch.contig_bits_start
      /\ u.nr_empty_pop_pages = ch.nr_empty_pop_pages /\ u.nr_pages = ch.nr_pages
      /\ u.populated = ch.populated
  BY DEF Edited
<1>5. SameBits(r, u) /\ r.nr_pages = ch.nr_pages /\ r.alloc_map = u.alloc_map
      /\ r.populated = ch.populated
  BY <1>3, <1>4 DEF Rehinted, SameBits
<1>6. r.contig_bits <= r.nr_pages * Blk /\ r.contig_bits_start <= r.nr_pages * Blk
  <2>1. CASE ContigOk(r)
    BY <1>0, <1>5, <2>1 DEF ContigOk
  <2>2. CASE r.contig_bits = u.contig_bits /\ r.contig_bits_start = u.contig_bits_start
    BY <1>4, <1>5, <2>2 DEF Base
  <2> QED BY <1>3, <2>1, <2>2
<1>7. Base(r)
  BY <1>3, <1>6, BaseOf
<1>8. EmptyPop(r) \subseteq EmptyPop(ch)
  <2>1. \A p : FreePage(r, p) => FreePage(ch, p)
    BY <1>5 DEF FreePage, Clear
  <2> QED BY <1>5, <2>1 DEF EmptyPop
<1>9. ASSUME ContigOk(ch), EmptyOk(ch), r.contig_bits = ch.contig_bits,
             r.contig_bits_start = ch.contig_bits_start,
             r.nr_empty_pop_pages = ch.nr_empty_pop_pages
      PROVE  ContigOk(r) /\ EmptyOk(r)
  <2>1. EmptyOk(r)
    BY <1>7, <1>8, <1>9, FewerEmpty
  <2>2. off \in 0 .. ch.nr_pages * Blk - 1 /\ off \in off .. off + n - 1
    BY <1>0
  <2>3. off \notin ch.alloc_map /\ off \in r.alloc_map
    BY <1>5, <2>2 DEF Clear
  <2>4. ~ AllSet(ch.alloc_map, 0, ch.nr_pages * Blk) /\ ~ Clear(r.alloc_map, 0, r.nr_pages * Blk)
    BY <1>5, <2>2, <2>3 DEF AllSet, Clear
  <2>5. ContigOk(r)
    BY <1>5, <1>9, <2>4 DEF ContigOk
  <2> QED BY <2>1, <2>5
<1> DEFINE Good(z) ==
               /\ Base(z) /\ SameBits(z, u)
               /\ (ContigOk(ch) /\ EmptyOk(ch)) \/ InHint(ch, off) => ContigOk(z) /\ EmptyOk(z)
               /\ ~ InHint(ch, off) =>
                     \/ ContigOk(z) /\ EmptyOk(z)
                     \/ /\ z.contig_bits = ch.contig_bits /\ z.contig_bits_start = ch.contig_bits_start
                        /\ z.nr_empty_pop_pages = ch.nr_empty_pop_pages
<1>10. \/ ContigOk(r) /\ EmptyOk(r)
       \/ /\ r.contig_bits = ch.contig_bits /\ r.contig_bits_start = ch.contig_bits_start
          /\ r.nr_empty_pop_pages = ch.nr_empty_pop_pages /\ ~ InHint(ch, off)
  BY <1>3, <1>4 DEF InHint
<1>11. Good(r)
  BY <1>5, <1>7, <1>9, <1>10
<1>12. Good(pcpu_block_update_hint_alloc(u, off, n))
  <2> HIDE DEF Good
  <2> QED BY <1>2, <1>11
<1> QED BY <1>12

(* Bits [off, off + n) are freed, and the hints follow. *)
LEMMA GiveBack ==
    ASSUME NEW ch, Base(ch), ContigOk(ch), EmptyOk(ch), NEW u, Edited(u, ch),
           NEW off \in Nat, NEW n \in Nat \ {0},
           off + n <= ch.nr_pages * Blk, AllSet(ch.alloc_map, off, off + n),
           u.alloc_map = ch.alloc_map \ (off .. off + n - 1)
    PROVE  LET r == pcpu_block_update_hint_free(u, off, n)
           IN  Base(r) /\ SameBits(r, u) /\ ContigOk(r) /\ EmptyOk(r)
<1>0. Blk \in Nat /\ ch.nr_pages \in Nat /\ ch.nr_pages * Blk \in Nat
  BY Sizes, PopFinite
<1>1. Changed(u, ch.alloc_map, off, n) /\ u.contig_bits <= u.nr_pages * Blk
  <2>1. u.contig_bits <= u.nr_pages * Blk
    BY DEF Edited, Base
  <2> QED BY <2>1, EditedChanged
<1>2. PICK r : r = pcpu_block_update_hint_free(u, off, n)
  OBVIOUS
<1>3. /\ Rehinted(r, u) /\ ContigOk(r)
      /\ \/ EmptyOk(r)
         \/ /\ r.nr_empty_pop_pages = u.nr_empty_pop_pages
            /\ EmptyPop(r) \subseteq
                  {p \in u.populated : Clear(ch.alloc_map, p * Blk, p * Blk + Blk)}
  BY <1>1, <1>2, HintFree
<1>4. u.nr_empty_pop_pages = ch.nr_empty_pop_pages /\ u.nr_pages = ch.nr_pages
      /\ u.populated = ch.populated
  BY DEF Edited
<1>5. SameBits(r, u) /\ r.nr_pages = ch.nr_pages
  BY <1>3, <1>4 DEF Rehinted, SameBits
<1>6. r.contig_bits <= r.nr_pages * Blk /\ r.contig_bits_start <= r.nr_pages * Blk
  BY <1>0, <1>3, <1>5 DEF ContigOk
<1>7. Base(r)
  BY <1>3, <1>6, BaseOf
<1>8. EmptyOk(r)
  <2>1. CASE r.nr_empty_pop_pages = ch.nr_empty_pop_pages /\ EmptyPop(r) \subseteq EmptyPop(ch)
    BY <1>7, <2>1, FewerEmpty
  <2>2. EmptyPop(ch) = {p \in u.populated : Clear(ch.alloc_map, p * Blk, p * Blk + Blk)}
    BY <1>4 DEF EmptyPop, FreePage
  <2> QED BY <1>3, <1>4, <2>1, <2>2
<1> DEFINE Good(z) == Base(z) /\ SameBits(z, u) /\ ContigOk(z) /\ EmptyOk(z)
<1>9. Good(r)
  BY <1>3, <1>5, <1>7, <1>8
<1>10. Good(pcpu_block_update_hint_free(u, off, n))
  <2> HIDE DEF Good
  <2> QED BY <1>2, <1>9
<1> QED BY <1>10

-----------------------------------------------------------------------------
(* Areas *)

AreaRec == [chunk : Nat, off : Nat, bits : Nat \ {0}]

(* The boundary bits tell where area a ends. *)
BoundOk(ch, a) ==
    /\ Clear(ch.bound_map, a.off + 1, a.off + a.bits)
    /\ a.off + a.bits = ch.nr_pages * Blk \/ a.off + a.bits \in ch.bound_map

AreaOk(ch, hid, a) ==
    /\ a.off + a.bits <= ch.nr_pages * Blk /\ AllSet(ch.alloc_map, a.off, a.off + a.bits)
    /\ Clear(hid, a.off, a.off + a.bits) /\ BoundOk(ch, a)

Apart(a, b) == a.off + a.bits <= b.off \/ b.off + b.bits <= a.off

(* The areas S and the bits hid are what alloc_map says. *)
MapOk(ch, hid, S) ==
    /\ S \in SUBSET AreaRec /\ hid \in SUBSET ch.alloc_map
    /\ \A a \in S : AreaOk(ch, hid, a)
    /\ \A a, b \in S : a # b => Apart(a, b)
    /\ \A x \in ch.alloc_map : x \in hid \/ \E a \in S : x \in a.off .. a.off + a.bits - 1

BytesOk(ch) == ch.free_bytes = Cardinality(FreeBits(ch)) * PCPU_MIN_ALLOC_SIZE

ChunkOk(ch) == Base(ch) /\ ContigOk(ch) /\ EmptyOk(ch) /\ BytesOk(ch)

LEMMA CardWithout ==
    ASSUME NEW S, IsFiniteSet(S), NEW off \in Nat, NEW n \in Nat, off .. off + n - 1 \subseteq S
    PROVE  /\ IsFiniteSet(S \ (off .. off + n - 1)) /\ Cardinality(S) \in Nat
           /\ Cardinality(S \ (off .. off + n - 1)) = Cardinality(S) - n
<1> DEFINE I == off .. off + n - 1
<1>1. off + n - 1 \in Int /\ off \in Int
  OBVIOUS
<1>2. IsFiniteSet(I) /\ Cardinality(I) = IF off > off + n - 1 THEN 0 ELSE (off + n - 1) - off + 1
  BY <1>1, FS_Interval
<1>3. Cardinality(I) = n
  BY <1>2
<1>4. S \cap I = I
  OBVIOUS
<1> HIDE DEF I
<1>5. IsFiniteSet(S \ I) /\ Cardinality(S \ I) = Cardinality(S) - Cardinality(S \cap I)
  BY FS_Difference
<1>6. Cardinality(S) \in Nat
  BY FS_CardinalityType
<1> QED BY <1>3, <1>4, <1>5, <1>6 DEF I

LEMMA FreeBitsFinite ==
    ASSUME NEW ch, Base(ch)
    PROVE  IsFiniteSet(FreeBits(ch)) /\ Cardinality(FreeBits(ch)) \in Nat
           /\ Cardinality(FreeBits(ch)) <= ch.nr_pages * Blk
<1>1. PICK N \in Nat : N = ch.nr_pages * Blk
  BY PopFinite
<1>2. N - 1 \in Int /\ 0 \in Int
  BY <1>1
<1>3. IsFiniteSet(0 .. N - 1) /\ Cardinality(0 .. N - 1) = IF 0 > N - 1 THEN 0 ELSE (N - 1) - 0 + 1
  BY <1>2, FS_Interval
<1>4. Cardinality(0 .. N - 1) = N
  BY <1>1, <1>3
<1>5. FreeBits(ch) \in SUBSET (0 .. N - 1)
  BY <1>1 DEF FreeBits
<1>6. IsFiniteSet(FreeBits(ch)) /\ Cardinality(FreeBits(ch)) <= N
  BY <1>3, <1>4, <1>5, FS_Subset
<1> QED BY <1>1, <1>6, FS_CardinalityType

(* An area is taken from a chunk. *)
LEMMA AllocOk ==
    ASSUME NEW ch, ChunkOk(ch), NEW hid, NEW S, MapOk(ch, hid, S), NEW a \in AreaRec,
           NEW at \in BOOLEAN, PlaceFits(ch, a.bits, at, a.off)
    PROVE  LET r == pcpu_alloc_area(ch, a.off, a.bits)
           IN  /\ ChunkOk(r) /\ MapOk(r, hid, S \cup {a})
               /\ r.nr_pages = ch.nr_pages /\ r.populated = ch.populated
<1>1. PICK off, n, N, A : off = a.off /\ n = a.bits /\ N = ch.nr_pages * Blk /\ A = ch.alloc_map
  OBVIOUS
<1>2. /\ Blk \in Nat /\ Blk >= 1 /\ N \in Nat /\ off \in Nat /\ n \in Nat \ {0} /\ n >= 1
      /\ off + n <= N /\ Clear(A, off, off + n) /\ Base(ch) /\ A \in SUBSET (0 .. N - 1)
  <2>1. Base(ch)
    BY DEF ChunkOk
  <2>2. N \in Nat /\ Blk \in Nat /\ Blk >= 1
    BY <1>1, <2>1, Sizes, PopFinite
  <2>3. off \in Nat /\ n \in Nat \ {0} /\ n >= 1
    BY <1>1 DEF AreaRec
  <2>4. off + n <= N /\ Clear(A, off, off + n)
    BY <1>1 DEF PlaceFits
  <2>5. A \in SUBSET (0 .. N - 1)
    BY <1>1, <2>1 DEF Base, ChunkHints
  <2> QED BY <2>1, <2>2, <2>3, <2>4, <2>5
<1>3. PICK map, bound, fb, fr : /\ map = A \cup (off .. off + n - 1)
                                /\ bound = BoundAfter(ch.bound_map, off, n)
                                /\ fb = (IF ch.first_bit = off THEN find_next_zero_bit(map, N, off + n)
                                         ELSE ch.first_bit)
                                /\ fr = ch.free_bytes - n * PCPU_MIN_ALLOC_SIZE
  OBVIOUS
<1>4. PICK u : u = [ch EXCEPT !.alloc_map = map, !.bound_map = bound, !.free_bytes = fr, !.first_bit = fb]
  OBVIOUS
<1>5. pcpu_alloc_area(ch, a.off, a.bits) = pcpu_block_update_hint_alloc(u, off, n)
  BY <1>1, <1>3, <1>4 DEF pcpu_alloc_area, Bits, pcpu_chunk_map_bits
<1>6. map \in SUBSET (0 .. N - 1) /\ map \in SUBSET Nat
  BY <1>2, <1>3
<1>7. bound = (ch.bound_map \ (off .. off + n - 1)) \cup {off, off + n}
  BY <1>3 DEF BoundAfter, Bits
<1>8. bound \in SUBSET (0 .. N) /\ bound \in SUBSET Nat
  <2>1. ch.bound_map \in SUBSET (0 .. N)
    BY <1>1, <1>2 DEF Base
  <2> QED BY <1>2, <1>7, <2>1
<1>9. fb \in Nat /\ fb <= N /\ AllSet(map, 0, fb)
  <2>1. ch.first_bit \in Nat /\ ch.first_bit <= N /\ AllSet(A, 0, ch.first_bit)
    BY <1>1, <1>2 DEF Base, ChunkRec
  <2>2. CASE ch.first_bit # off
    <3>1. fb = ch.first_bit
      BY <1>3, <2>2
    <3> QED BY <1>3, <2>1, <3>1 DEF AllSet
  <2>3. CASE ch.first_bit = off
    <3>1. fb = find_next_zero_bit(map, N, off + n) /\ off + n \in Nat
      BY <1>2, <1>3, <2>3
    <3>2. /\ fb \in Nat /\ fb <= N /\ (fb < N => off + n <= fb) /\ AllSet(map, off + n, fb)
      BY <1>2, <3>1, FindZero
    <3>3. AllSet(map, 0, fb)
      <4> SUFFICES ASSUME NEW x \in 0 .. fb - 1 PROVE x \in map
        BY DEF AllSet
      <4>1. CASE x < off
        BY <1>2, <1>3, <2>1, <2>3, <4>1 DEF AllSet
      <4>2. CASE off <= x /\ x < off + n
        BY <1>2, <1>3, <4>2
      <4>3. CASE off + n <= x
        BY <1>2, <3>2, <4>3 DEF AllSet
      <4> QED BY <1>2, <3>2, <4>1, <4>2, <4>3
    <3> QED BY <3>2, <3>3
  <2> QED BY <2>2, <2>3
<1>10. fr \in Int
  <2>1. ch.free_bytes \in Int
    BY <1>2 DEF Base, ChunkRec
  <2> QED BY <1>2, <1>3, <2>1, Sizes
<1>11. /\ u \in ChunkRec /\ u.alloc_map = map /\ u.bound_map = bound /\ u.first_bit = fb
       /\ u.free_bytes = fr /\ u.nr_pages = ch.nr_pages /\ u.md_blocks = ch.md_blocks
       /\ u.contig_bits = ch.contig_bits /\ u.contig_bits_start = ch.contig_bits_start
       /\ u.populated = ch.populated /\ u.nr_populated = ch.nr_populated
       /\ u.nr_empty_pop_pages = ch.nr_empty_pop_pages /\ u.immutable = ch.immutable
  <2>1. ch \in ChunkRec
    BY <1>2 DEF Base
  <2> QED BY <1>4, <1>6, <1>8, <1>9, <1>10, <2>1 DEF ChunkRec
<1>12. Edited(u, ch)
  BY <1>1, <1>6, <1>8, <1>9, <1>11 DEF Edited
<1>13. PICK r : r = pcpu_block_update_hint_alloc(u, off, n)
  OBVIOUS
<1>14. Base(r) /\ SameBits(r, u) /\ ContigOk(r) /\ EmptyOk(r)
  <2>1. u.alloc_map = ch.alloc_map \cup (off .. off + n - 1)
    BY <1>1, <1>3, <1>11
  <2>2. ContigOk(ch) /\ EmptyOk(ch) /\ off + n <= ch.nr_pages * Blk /\ Clear(ch.alloc_map, off, off + n)
    BY <1>1, <1>2 DEF ChunkOk
  <2> QED BY <1>2, <1>12, <1>13, <2>1, <2>2, Take
<1>15. /\ r.alloc_map = map /\ r.bound_map = bound /\ r.free_bytes = fr /\ r.nr_pages = ch.nr_pages
       /\ r.populated = ch.populated /\ r.nr_pages * Blk = N
  BY <1>1, <1>11, <1>14 DEF SameBits
<1>16. BytesOk(r)
  <2>1. PICK F, M : F = FreeBits(ch) /\ M = PCPU_MIN_ALLOC_SIZE
    OBVIOUS
  <2>2. FreeBits(r) = F \ (off .. off + n - 1)
    BY <1>1, <1>3, <1>15, <2>1 DEF FreeBits
  <2>3. off .. off + n - 1 \subseteq F
    BY <1>1, <1>2, <2>1 DEF FreeBits, Clear
  <2>4. IsFiniteSet(F) /\ Cardinality(F) \in Nat
    BY <1>2, <2>1, FreeBitsFinite
  <2>5. Cardinality(F \ (off .. off + n - 1)) = Cardinality(F) - n
    BY <1>2, <2>3, <2>4, CardWithout
  <2>6. PICK k \in Nat : k = Cardinality(F)
    BY <2>4
  <2>7. fr = k * M - n * M /\ M \in Nat
    BY <1>3, <2>1, <2>6, Sizes DEF ChunkOk, BytesOk
  <2>8. fr = (k - n) * M
    BY <1>2, <2>6, <2>7
  <2> QED BY <1>15, <2>1, <2>2, <2>5, <2>6, <2>8 DEF BytesOk
<1>17. a.off = off /\ a.bits = n
  BY <1>1
<1>18. AreaOk(r, hid, a)
  <2>1. AllSet(map, off, off + n)
    BY <1>2, <1>3 DEF AllSet
  <2>2. Clear(hid, off, off + n)
    BY <1>1, <1>2 DEF Clear, MapOk
  <2>3. Clear(bound, off + 1, off + n) /\ off + n \in bound
    BY <1>2, <1>7 DEF Clear
  <2> QED BY <1>2, <1>15, <1>17, <2>1, <2>2, <2>3 DEF AreaOk, BoundOk
<1>19. ASSUME NEW b \in S PROVE AreaOk(r, hid, b) /\ Apart(a, b) /\ Apart(b, a)
  <2>1. PICK s, m : s = b.off /\ m = b.bits
    OBVIOUS
  <2>2. /\ s \in Nat /\ m \in Nat /\ m >= 1 /\ s + m <= N /\ AllSet(A, s, s + m)
        /\ Clear(hid, s, s + m) /\ Clear(ch.bound_map, s + 1, s + m)
        /\ s + m = N \/ s + m \in ch.bound_map
    BY <1>1, <1>19, <2>1 DEF MapOk, AreaOk, BoundOk, AreaRec
  <2>3. s + m <= off \/ off + n <= s
    <3>1. SUFFICES ASSUME off < s + m, s < off + n PROVE FALSE
      BY <1>2, <2>2
    <3>2. PICK x : x = IF off <= s THEN s ELSE off
      OBVIOUS
    <3>3. x \in off .. off + n - 1 /\ x \in s .. s + m - 1
      BY <1>2, <2>2, <3>1, <3>2
    <3> QED BY <1>2, <2>2, <3>3 DEF AllSet, Clear
  <2>4. AllSet(map, s, s + m)
    BY <1>3, <2>2 DEF AllSet
  <2>5. Clear(bound, s + 1, s + m)
    <3> SUFFICES ASSUME NEW x \in s + 1 .. s + m - 1, x \in bound PROVE FALSE
      BY <2>2 DEF Clear
    <3>1. x = off \/ x = off + n \/ x \in ch.bound_map
      BY <1>7
    <3> QED BY <1>2, <2>2, <2>3, <3>1 DEF Clear
  <2>6. s + m = N \/ s + m \in bound
    BY <1>2, <1>7, <2>2, <2>3
  <2>7. Apart(a, b) /\ Apart(b, a)
    BY <1>2, <1>17, <2>1, <2>2, <2>3 DEF Apart
  <2>8. AreaOk(r, hid, b)
    BY <1>15, <2>1, <2>2, <2>4, <2>5, <2>6 DEF AreaOk, BoundOk
  <2> QED BY <2>7, <2>8
<1>20. MapOk(r, hid, S \cup {a})
  <2>1. S \cup {a} \in SUBSET AreaRec /\ hid \in SUBSET map
    BY <1>1, <1>3 DEF MapOk
  <2>2. \A b \in S \cup {a} : AreaOk(r, hid, b)
    BY <1>18, <1>19
  <2>3. \A b, c \in S \cup {a} : b # c => Apart(b, c)
    BY <1>19 DEF MapOk
  <2>4. \A x \in map : x \in hid \/ \E b \in S \cup {a} : x \in b.off .. b.off + b.bits - 1
    <3> SUFFICES ASSUME NEW x \in map, x \notin hid
                 PROVE  \E b \in S \cup {a} : x \in b.off .. b.off + b.bits - 1
      OBVIOUS
    <3>1. CASE x \in A
      <4>1. PICK b \in S : x \in b.off .. b.off + b.bits - 1
        BY <1>1, <3>1 DEF MapOk
      <4> QED BY <4>1
    <3>2. CASE x \in off .. off + n - 1
      BY <1>17, <3>2
    <3> QED BY <1>3, <3>1, <3>2
  <2> QED BY <1>15, <2>1, <2>2, <2>3, <2>4 DEF MapOk
<1>21. ChunkOk(r)
  BY <1>14, <1>16 DEF ChunkOk
<1> DEFINE Good(z) == /\ ChunkOk(z) /\ MapOk(z, hid, S \cup {a})
                      /\ z.nr_pages = ch.nr_pages /\ z.populated = ch.populated
<1>22. Good(r)
  BY <1>15, <1>20, <1>21
<1>23. Good(pcpu_alloc_area(ch, a.off, a.bits))
  <2> HIDE DEF Good
  <2> QED BY <1>5, <1>13, <1>22
<1> QED BY <1>23

(* What find_next_bit in the boundary bits says an area's length is *)
LEMMA AreaLength ==
    ASSUME NEW ch, Base(ch), NEW hid, NEW a \in AreaRec, AreaOk(ch, hid, a)
    PROVE  find_next_bit(ch.bound_map, pcpu_chunk_map_bits(ch), a.off + 1) = a.off + a.bits
<1>1. PICK off, n, N, B : off = a.off /\ n = a.bits /\ N = ch.nr_pages * Blk /\ B = ch.bound_map
  OBVIOUS
<1>2. off \in Nat /\ n \in Nat /\ n >= 1 /\ N \in Nat
  BY <1>1, PopFinite DEF AreaRec
<1>3. off + n <= N /\ Clear(B, off + 1, off + n) /\ (off + n = N \/ off + n \in B)
  BY <1>1 DEF AreaOk, BoundOk
<1>4. B \in SUBSET Nat
  BY <1>1 DEF Base, ChunkRec
<1>5. PICK r : r = find_next_bit(B, N, off + 1)
  OBVIOUS
<1>6. r \in Nat /\ r <= N /\ (r < N => off + 1 <= r /\ r \in B) /\ Clear(B, off + 1, r)
  BY <1>2, <1>4, <1>5, FindBit
<1>7. r = off + n
  BY <1>2, <1>3, <1>6 DEF Clear
<1> QED BY <1>1, <1>5, <1>7 DEF pcpu_chunk_map_bits

(* An area is given back to its chunk. *)
LEMMA FreeAreaOk ==
    ASSUME NEW ch, ChunkOk(ch), NEW hid, NEW S, MapOk(ch, hid, S), NEW a \in S
    PROVE  LET r == pcpu_free_area(ch, a.off)
           IN  /\ ChunkOk(r) /\ MapOk(r, hid, S \ {a})
               /\ r.nr_pages = ch.nr_pages /\ r.populated = ch.populated
<1>1. PICK off, n, N, A : off = a.off /\ n = a.bits /\ N = ch.nr_pages * Blk /\ A = ch.alloc_map
  OBVIOUS
<1>2. /\ Blk \in Nat /\ Blk >= 1 /\ N \in Nat /\ off \in Nat /\ n \in Nat \ {0} /\ n >= 1
      /\ off + n <= N /\ AllSet(A, off, off + n) /\ Base(ch) /\ A \in SUBSET (0 .. N - 1)
      /\ Clear(hid, off, off + n) /\ a \in AreaRec /\ AreaOk(ch, hid, a)
  <2>1. Base(ch) /\ a \in AreaRec /\ AreaOk(ch, hid, a)
    BY DEF ChunkOk, MapOk
  <2>2. N \in Nat /\ Blk \in Nat /\ Blk >= 1
    BY <1>1, <2>1, Sizes, PopFinite
  <2>3. off \in Nat /\ n \in Nat \ {0} /\ n >= 1
    BY <1>1, <2>1 DEF AreaRec
  <2>4. off + n <= N /\ AllSet(A, off, off + n) /\ Clear(hid, off, off + n)
    BY <1>1, <2>1 DEF AreaOk
  <2>5. A \in SUBSET (0 .. N - 1)
    BY <1>1, <2>1 DEF Base, ChunkHints
  <2> QED BY <2>1, <2>2, <2>3, <2>4, <2>5
<1>3. PICK map, fb, fr : /\ map = A \ (off .. off + n - 1)
                         /\ fb = Lower(ch.first_bit, off)
                         /\ fr = ch.free_bytes + n * PCPU_MIN_ALLOC_SIZE
  OBVIOUS
<1>4. PICK u : u = [ch EXCEPT !.alloc_map = map, !.free_bytes = fr, !.first_bit = fb]
  OBVIOUS
<1>5. pcpu_free_area(ch, a.off) = pcpu_block_update_hint_free(u, off, n)
  <2>1. PICK L : L = find_next_bit(ch.bound_map, pcpu_chunk_map_bits(ch), a.off + 1)
    OBVIOUS
  <2>2. L = off + n
    BY <1>1, <1>2, <2>1, AreaLength
  <2>3. L - off = n
    BY <1>2, <2>2
  <2> QED BY <1>1, <1>3, <1>4, <2>1, <2>3 DEF pcpu_free_area, Bits, FirstBitAfterFree
<1>6. map \in SUBSET (0 .. N - 1) /\ map \in SUBSET Nat
  BY <1>2, <1>3
<1>7. ch.bound_map \in SUBSET (0 .. N) /\ ch.bound_map \in SUBSET Nat
  BY <1>1, <1>2 DEF Base
<1>8. fb \in Nat /\ fb <= N /\ AllSet(map, 0, fb)
  <2>1. ch.first_bit \in Nat /\ ch.first_bit <= N /\ AllSet(A, 0, ch.first_bit)
    BY <1>1, <1>2 DEF Base, ChunkRec
  <2>2. fb \in Nat /\ fb <= ch.first_bit /\ fb <= off
    BY <1>2, <1>3, <2>1 DEF Lower
  <2>3. AllSet(map, 0, fb)
    BY <1>2, <1>3, <2>1, <2>2 DEF AllSet
  <2> QED BY <1>2, <2>1, <2>2, <2>3
<1>9. fr \in Int
  <2>1. ch.free_bytes \in Int
    BY <1>2 DEF Base, ChunkRec
  <2> QED BY <1>2, <1>3, <2>1, Sizes
<1>10. /\ u \in ChunkRec /\ u.alloc_map = map /\ u.bound_map = ch.bound_map /\ u.first_bit = fb
       /\ u.free_bytes = fr /\ u.nr_pages = ch.nr_pages /\ u.md_blocks = ch.md_blocks
       /\ u.contig_bits = ch.contig_bits /\ u.contig_bits_start = ch.contig_bits_start
       /\ u.populated = ch.populated /\ u.nr_populated = ch.nr_populated
       /\ u.nr_empty_pop_pages = ch.nr_empty_pop_pages /\ u.immutable = ch.immutable
  <2>1. ch \in ChunkRec
    BY <1>2 DEF Base
  <2> QED BY <1>4, <1>6, <1>8, <1>9, <2>1 DEF ChunkRec
<1>11. Edited(u, ch)
  BY <1>1, <1>6, <1>7, <1>8, <1>10 DEF Edited
<1>12. PICK r : r = pcpu_block_update_hint_free(u, off, n)
  OBVIOUS
<1>13. Base(r) /\ SameBits(r, u) /\ ContigOk(r) /\ EmptyOk(r)
  <2>1. u.alloc_map = ch.alloc_map \ (off .. off + n - 1)
    BY <1>1, <1>3, <1>10
  <2>2. ContigOk(ch) /\ EmptyOk(ch) /\ off + n <= ch.nr_pages * Blk /\ AllSet(ch.alloc_map, off, off + n)
    BY <1>1, <1>2 DEF ChunkOk
  <2> QED BY <1>2, <1>11, <1>12, <2>1, <2>2, GiveBack
<1>14. /\ r.alloc_map = map /\ r.bound_map = ch.bound_map /\ r.free_bytes = fr
       /\ r.nr_pages = ch.nr_pages /\ r.populated = ch.populated /\ r.nr_pages * Blk = N
  BY <1>1, <1>10, <1>13 DEF SameBits
<1>15. BytesOk(r)
  <2>1. PICK F, M : F = FreeBits(r) /\ M = PCPU_MIN_ALLOC_SIZE
    OBVIOUS
  <2>2. off .. off + n - 1 \subseteq A /\ off .. off + n - 1 \subseteq 0 .. N - 1
    BY <1>2 DEF AllSet
  <2>3. FreeBits(ch) = F \ (off .. off + n - 1) /\ off .. off + n - 1 \subseteq F
    <3>1. F = (0 .. N - 1) \ map /\ FreeBits(ch) = (0 .. N - 1) \ A
      BY <1>1, <1>14, <2>1 DEF FreeBits
    <3> QED BY <1>3, <2>2, <3>1
  <2>4. IsFiniteSet(F) /\ Cardinality(F) \in Nat
    BY <1>13, <2>1, FreeBitsFinite
  <2>5. Cardinality(FreeBits(ch)) = Cardinality(F) - n
    BY <1>2, <2>3, <2>4, CardWithout
  <2>6. PICK k \in Nat : k = Cardinality(F)
    BY <2>4
  <2>7. fr = (k - n) * M + n * M /\ M \in Nat
    BY <1>3, <2>1, <2>5, <2>6, Sizes DEF ChunkOk, BytesOk
  <2>8. fr = k * M
    BY <1>2, <2>6, <2>7
  <2> QED BY <1>14, <2>1, <2>6, <2>8 DEF BytesOk
<1>16. ASSUME NEW b \in S \ {a}
       PROVE  /\ AreaOk(r, hid, b)
  <2>1. PICK s, m : s = b.off /\ m = b.bits
    OBVIOUS
  <2>2. /\ s \in Nat /\ m \in Nat /\ m >= 1 /\ s + m <= N /\ AllSet(A, s, s + m)
        /\ Clear(hid, s, s + m) /\ Clear(ch.bound_map, s + 1, s + m)
        /\ s + m = N \/ s + m \in ch.bound_map
    BY <1>1, <1>16, <2>1 DEF MapOk, AreaOk, BoundOk, AreaRec
  <2>3. s + m <= off \/ off + n <= s
    BY <1>1, <1>16, <2>1 DEF MapOk, Apart
  <2>4. AllSet(map, s, s + m)
    BY <1>2, <1>3, <2>2, <2>3 DEF AllSet
  <2> QED BY <1>14, <2>1, <2>2, <2>4 DEF AreaOk, BoundOk
<1>17. MapOk(r, hid, S \ {a})
  <2>1. S \ {a} \in SUBSET AreaRec /\ hid \in SUBSET map
    <3>1. hid \in SUBSET A
      BY <1>1 DEF MapOk
    <3>2. \A x \in hid : x \notin off .. off + n - 1
      BY <1>2 DEF Clear
    <3> QED BY <1>3, <3>1, <3>2 DEF MapOk
  <2>2. \A b \in S \ {a} : AreaOk(r, hid, b)
    BY <1>16
  <2>3. \A b, c \in S \ {a} : b # c => Apart(b, c)
    BY DEF MapOk
  <2>4. \A x \in map : x \in hid \/ \E b \in S \ {a} : x \in b.off .. b.off + b.bits - 1
    <3> SUFFICES ASSUME NEW x \in map, x \notin hid
                 PROVE  \E b \in S \ {a} : x \in b.off .. b.off + b.bits - 1
      OBVIOUS
    <3>1. PICK b \in S : x \in b.off .. b.off + b.bits - 1
      BY <1>1, <1>3 DEF MapOk
    <3>2. b # a
      BY <1>1, <1>3, <3>1
    <3> QED BY <3>1, <3>2
  <2> QED BY <1>14, <2>1, <2>2, <2>3, <2>4 DEF MapOk
<1>18. ChunkOk(r)
  BY <1>13, <1>15 DEF ChunkOk
<1> DEFINE Good(z) == /\ ChunkOk(z) /\ MapOk(z, hid, S \ {a})
                      /\ z.nr_pages = ch.nr_pages /\ z.populated = ch.populated
<1>19. Good(r)
  BY <1>14, <1>17, <1>18
<1>20. Good(pcpu_free_area(ch, a.off))
  <2> HIDE DEF Good
  <2> QED BY <1>5, <1>12, <1>19
<1> QED BY <1>20


-----------------------------------------------------------------------------
(* Pages behind an area *)

LEMMA PagesOfArea ==
    ASSUME NEW off \in Nat, NEW n \in Nat, n >= 1
    PROVE  /\ FirstPage(off) \in Nat /\ LastPage(off, n) \in Nat /\ FirstPage(off) <= LastPage(off, n)
           /\ \A q \in Nat : off + n <= q * Blk => LastPage(off, n) < q
           /\ \A p \in PagesUnder(off, n) :
                 \E x \in p * Blk .. p * Blk + Blk - 1 : x \in off .. off + n - 1
<1>0. Blk \in Nat /\ Blk >= 1 /\ off + n - 1 \in Nat
  BY Sizes
<1>1. PICK F, L, s, e : /\ F = off \div Blk /\ L = (off + n - 1) \div Blk
                        /\ s = off % Blk /\ e = (off + n - 1) % Blk
  OBVIOUS
<1>2. F \in Nat /\ s \in 0 .. Blk - 1 /\ off = F * Blk + s
  BY <1>1, InBlock
<1>3. L \in Nat /\ e \in 0 .. Blk - 1 /\ off + n - 1 = L * Blk + e
  BY <1>0, <1>1, InBlock
<1>4. FirstPage(off) = F /\ LastPage(off, n) = L /\ PagesUnder(off, n) = F .. L
  BY <1>1 DEF FirstPage, LastPage, PagesUnder
<1>5. F <= L
  <2>1. CASE L < F
    <3>1. L * Blk + Blk <= F * Blk /\ L * Blk \in Int /\ F * Blk \in Int
      BY <1>2, <1>3, <2>1, BlockOrder
    <3> QED BY <1>0, <1>2, <1>3, <3>1
  <2> QED BY <1>2, <1>3, <2>1
<1>6. ASSUME NEW q \in Nat, off + n <= q * Blk PROVE L < q
  <2>1. CASE q <= L
    <3>0. q \in Int /\ L \in Int
      BY <1>3
    <3>1. q * Blk <= L * Blk /\ L * Blk \in Int /\ q * Blk \in Int
      BY <2>1, <3>0, BlockOrder
    <3> QED BY <1>0, <1>3, <1>6, <3>1
  <2> QED BY <1>3, <2>1
<1>7. ASSUME NEW p \in F .. L
      PROVE  \E x \in p * Blk .. p * Blk + Blk - 1 : x \in off .. off + n - 1
  <2>0. p \in Int
    BY <1>2, <1>3
  <2>1. CASE p = F
    <3>1. off \in p * Blk .. p * Blk + Blk - 1 /\ off \in off .. off + n - 1
      BY <1>0, <1>2, <2>1
    <3> QED BY <3>1
  <2>2. CASE F < p
    <3>1. F * Blk + Blk <= p * Blk /\ p * Blk \in Int /\ F * Blk \in Int
      BY <1>2, <2>0, <2>2, BlockOrder
    <3>2. p * Blk <= L * Blk /\ L * Blk \in Int
      BY <1>3, <2>0, BlockOrder
    <3>3. p * Blk \in p * Blk .. p * Blk + Blk - 1 /\ p * Blk \in off .. off + n - 1
      BY <1>0, <1>2, <1>3, <3>1, <3>2
    <3> QED BY <3>3
  <2> QED BY <1>2, <1>3, <2>0, <2>1, <2>2
<1> QED BY <1>2, <1>3, <1>4, <1>5, <1>6, <1>7

LEMMA PageRange ==
    ASSUME NEW off \in Nat, NEW n \in Nat, n >= 1
    PROVE  FirstPage(off) \in Nat /\ LastPage(off, n) \in Nat /\ FirstPage(off) <= LastPage(off, n)
BY PagesOfArea

(* Pages rs .. re - 1, which area a needs, are populated. *)
LEMMA PopulateOk ==
    ASSUME NEW ch, ChunkOk(ch), NEW hid, NEW S, MapOk(ch, hid, S), NEW a \in S,
           NEW rs \in Nat, NEW re \in Nat, FirstPage(a.off) <= rs, rs < re,
           re <= LastPage(a.off, a.bits) + 1, Clear(ch.populated, rs, re)
    PROVE  LET r == pcpu_chunk_populated(ch, rs, re)
           IN  /\ ChunkOk(r) /\ MapOk(r, hid, S)
               /\ r.nr_pages = ch.nr_pages /\ r.populated = ch.populated \cup (rs .. re - 1)
               /\ pcpu_chunk_slot(r) = pcpu_chunk_slot(ch)
<1>1. PICK off, n, P, Q, N : /\ off = a.off /\ n = a.bits /\ P = ch.populated
                             /\ Q = ch.populated \cup (rs .. re - 1) /\ N = ch.nr_pages
  OBVIOUS
<1>2. /\ Base(ch) /\ off \in Nat /\ n \in Nat /\ n >= 1 /\ N \in Nat /\ Blk \in Nat
      /\ off + n <= N * Blk /\ AllSet(ch.alloc_map, off, off + n) /\ IsFiniteSet(P)
  <2>1. Base(ch) /\ a \in AreaRec /\ AreaOk(ch, hid, a)
    BY DEF ChunkOk, MapOk
  <2>2. off \in Nat /\ n \in Nat /\ n >= 1
    BY <1>1, <2>1 DEF AreaRec
  <2>3. off + n <= N * Blk /\ AllSet(ch.alloc_map, off, off + n)
    BY <1>1, <2>1 DEF AreaOk
  <2>4. N \in Nat /\ IsFiniteSet(P)
    BY <1>1, <2>1, PopFinite
  <2> QED BY <2>1, <2>2, <2>3, <2>4, Sizes
<1>3. /\ FirstPage(off) \in Nat /\ LastPage(off, n) \in Nat /\ LastPage(off, n) < N
      /\ \A p \in PagesUnder(off, n) :
            \E x \in p * Blk .. p * Blk + Blk - 1 : x \in off .. off + n - 1
  BY <1>2, PagesOfArea
<1>4. FirstPage(off) <= rs /\ re <= LastPage(off, n) + 1
  BY <1>1
<1>5. Q \in SUBSET (0 .. N - 1) /\ Q \in SUBSET Nat
  <2>1. P \in SUBSET (0 .. N - 1)
    BY <1>1, <1>2 DEF Base
  <2>2. rs .. re - 1 \subseteq 0 .. N - 1
    BY <1>2, <1>3, <1>4
  <2>3. Q = P \cup (rs .. re - 1)
    BY <1>1
  <2> HIDE <1>1
  <2>4. Q \in SUBSET (0 .. N - 1)
    BY <2>1, <2>2, <2>3
  <2> QED BY <1>2, <2>4
<1>6. Cardinality(Q) = ch.nr_populated + re - rs /\ ch.nr_populated \in Int
  <2>1. re - 1 \in Int /\ rs \in Int
    OBVIOUS
  <2>2. IsFiniteSet(rs .. re - 1) /\ Cardinality(rs .. re - 1) = IF rs > re - 1 THEN 0 ELSE (re - 1) - rs + 1
    BY <2>1, FS_Interval
  <2>3. Cardinality(rs .. re - 1) = re - rs
    BY <2>2
  <2>4. P \cap (rs .. re - 1) = {}
    BY <1>1 DEF Clear
  <2>5. Cardinality(P \cap (rs .. re - 1)) = 0
    BY <2>4, FS_EmptySet
  <2>6. Cardinality(P \cup (rs .. re - 1)) = Cardinality(P) + Cardinality(rs .. re - 1)
             - Cardinality(P \cap (rs .. re - 1))
    BY <1>2, <2>2, FS_Union
  <2>7. Cardinality(P) \in Nat /\ Cardinality(P) = ch.nr_populated
    BY <1>1, <1>2, FS_CardinalityType DEF Base
  <2> QED BY <1>1, <2>3, <2>5, <2>6, <2>7
<1>7. PICK r : r = pcpu_chunk_populated(ch, rs, re)
  OBVIOUS
<1>8. r = [ch EXCEPT !.populated = Q, !.nr_populated = Cardinality(Q)]
  BY <1>1, <1>6, <1>7 DEF pcpu_chunk_populated
<1>9. Cardinality(Q) \in Int
  BY <1>6
<1>10. /\ r \in ChunkRec /\ r.populated = Q /\ r.nr_populated = Cardinality(Q)
       /\ r.nr_pages = ch.nr_pages /\ r.alloc_map = ch.alloc_map /\ r.bound_map = ch.bound_map
       /\ r.md_blocks = ch.md_blocks /\ r.first_bit = ch.first_bit /\ r.free_bytes = ch.free_bytes
       /\ r.contig_bits = ch.contig_bits /\ r.contig_bits_start = ch.contig_bits_start
       /\ r.nr_empty_pop_pages = ch.nr_empty_pop_pages /\ r.immutable = ch.immutable
  <2>1. ch \in ChunkRec
    BY <1>2 DEF Base
  <2> QED BY <1>5, <1>8, <1>9, <2>1 DEF ChunkRec
<1>11. ChunkHints(r)
  <2>1. ChunkHints(ch)
    BY <1>2 DEF Base
  <2> QED BY <1>10, <2>1 DEF ChunkHints, pcpu_index_alloc_map
<1>12. Base(r)
  <2>1. r.immutable => r.populated = 0 .. r.nr_pages - 1
    <3>1. ch.immutable => P = 0 .. N - 1
      BY <1>1, <1>2 DEF Base
    <3>2. P \subseteq Q
      BY <1>1
    <3> QED BY <1>1, <1>5, <1>10, <3>1, <3>2
  <2>2. r.populated \in SUBSET (0 .. r.nr_pages - 1) /\ r.nr_populated = Cardinality(r.populated)
    BY <1>1, <1>5, <1>10
  <2> QED BY <1>2, <1>10, <1>11, <2>1, <2>2 DEF Base
<1>13. EmptyPop(r) \subseteq EmptyPop(ch)
  <2> SUFFICES ASSUME NEW p \in Q, FreePage(r, p) PROVE p \in P /\ FreePage(ch, p)
    BY <1>1, <1>10 DEF EmptyPop
  <2>1. FreePage(ch, p)
    BY <1>10 DEF FreePage
  <2>2. CASE p \in rs .. re - 1
    <3>1. p \in PagesUnder(off, n)
      BY <1>3, <1>4, <2>2 DEF PagesUnder
    <3>2. PICK x \in p * Blk .. p * Blk + Blk - 1 : x \in off .. off + n - 1
      BY <1>3, <3>1
    <3>5. PICK z, y : z = p * Blk /\ y = p * Blk + Blk
      OBVIOUS
    <3>6. Clear(ch.alloc_map, z, y) /\ x \in z .. y - 1
      <4>1. Clear(ch.alloc_map, z, y)
        BY <2>1, <3>5 DEF FreePage
      <4>2. x \in z .. y - 1
        <5>1. p \in Int /\ Blk \in Int /\ p * Blk \in Int
          BY <1>2, <2>2
        <5> QED BY <3>2, <3>5, <5>1
      <4> QED BY <4>1, <4>2
    <3>3. x \notin ch.alloc_map
      BY <3>6 DEF Clear
    <3>4. x \in ch.alloc_map
      BY <1>2, <3>2 DEF AllSet
    <3> QED BY <3>3, <3>4
  <2> QED BY <1>1, <2>1, <2>2
<1>14. EmptyOk(r)
  BY <1>2, <1>10, <1>12, <1>13, FewerEmpty DEF ChunkOk
<1>15. ContigOk(r)
  <2>1. ContigOk(ch)
    BY DEF ChunkOk
  <2> QED BY <1>10, <2>1 DEF ContigOk
<1>16. BytesOk(r)
  <2>1. FreeBits(r) = FreeBits(ch)
    BY <1>10 DEF FreeBits
  <2> QED BY <1>10, <2>1 DEF ChunkOk, BytesOk
<1>17. MapOk(r, hid, S)
  <2>1. \A b \in S : AreaOk(r, hid, b)
    BY <1>10 DEF MapOk, AreaOk, BoundOk
  <2> QED BY <1>10, <2>1 DEF MapOk
<1>18. pcpu_chunk_slot(r) = pcpu_chunk_slot(ch)
  BY <1>10 DEF pcpu_chunk_slot
<1> DEFINE Good(z) == /\ ChunkOk(z) /\ MapOk(z, hid, S)
               /\ z.nr_pages = ch.nr_pages /\ z.populated = ch.populated \cup (rs .. re - 1)
               /\ pcpu_chunk_slot(z) = pcpu_chunk_slot(ch)
<1>19. Good(r)
  BY <1>1, <1>10, <1>12, <1>14, <1>15, <1>16, <1>17, <1>18 DEF ChunkOk
<1>20. Good(pcpu_chunk_populated(ch, rs, re))
  <2> HIDE DEF Good
  <2> QED BY <1>7, <1>19
<1> QED BY <1>20

-----------------------------------------------------------------------------
(* Chunks as they are made *)

(* All bits are free, and the blocks' hints say so. *)
Blank(ch) ==
    /\ ch \in ChunkRec /\ ch.nr_pages \in 1 .. pcpu_unit_pages
    /\ ch.alloc_map = {} /\ ch.bound_map = {} /\ ch.md_blocks = pcpu_init_md_blocks(ch.nr_pages)
    /\ ch.first_bit = 0
    /\ ch.populated \in SUBSET (0 .. ch.nr_pages - 1) /\ ch.nr_populated = Cardinality(ch.populated)
    /\ ch.immutable => ch.populated = 0 .. ch.nr_pages - 1
    /\ ch.contig_bits <= ch.nr_pages * Blk /\ ch.contig_bits_start = 0

LEMMA BlankBlocks ==
    ASSUME NEW p \in Nat
    PROVE  /\ pcpu_init_md_blocks(p) \in [0 .. p - 1 -> BlockRec]
           /\ pcpu_init_md_blocks(p) \in UNION {[0 .. q - 1 -> BlockRec] : q \in Nat}
<1>1. FreeBlock \in BlockRec
  BY FreeOk DEF BlockInv
<1>2. pcpu_init_md_blocks(p) \in [0 .. p - 1 -> BlockRec]
  BY <1>1 DEF pcpu_init_md_blocks
<1> QED BY <1>2

LEMMA BlankBase ==
    ASSUME NEW ch, Blank(ch)
    PROVE  Base(ch)
<1>1. PICK p \in Nat : p = ch.nr_pages /\ p >= 1
  BY Sizes DEF Blank
<1>2. Blk \in Nat /\ p * Blk \in Nat
  BY <1>1, Sizes
<1>3. ASSUME NEW i \in 0 .. p - 1
      PROVE  BlockInv(ch.md_blocks[i], pcpu_index_alloc_map(ch, i))
  <2>1. ch.md_blocks[i] = FreeBlock
    BY <1>1, <1>3 DEF Blank, pcpu_init_md_blocks
  <2>2. pcpu_index_alloc_map(ch, i) = {}
    BY DEF Blank, pcpu_index_alloc_map
  <2> QED BY <2>1, <2>2, FreeOk
<1>4. ChunkHints(ch)
  <2>1. ch.alloc_map \in SUBSET (0 .. ch.nr_pages * Blk - 1)
    BY DEF Blank
  <2> QED BY <1>1, <1>3, <2>1 DEF ChunkHints
<1>5. ch.first_bit <= ch.nr_pages * Blk /\ AllSet(ch.alloc_map, 0, ch.first_bit)
      /\ ch.contig_bits_start <= ch.nr_pages * Blk
  BY <1>1, <1>2 DEF Blank, AllSet
<1>6. ch.md_blocks \in [0 .. ch.nr_pages - 1 -> BlockRec]
  BY <1>1, BlankBlocks DEF Blank
<1> QED BY <1>4, <1>5, <1>6 DEF Base, Blank

LEMMA NewChunk == ChunkOk(pcpu_alloc_chunk) /\ MapOk(pcpu_alloc_chunk, {}, {})
<1>1. PICK ch : ch = pcpu_alloc_chunk
  OBVIOUS
<1>2. PICK P, N : P = pcpu_unit_pages /\ N = pcpu_unit_pages * Blk
  OBVIOUS
<1>3. P \in Nat /\ P >= 1 /\ N \in Nat /\ UnitSize \in Nat
  BY <1>2, Sizes, Unit
<1>4. /\ ch.nr_pages = P /\ ch.alloc_map = {} /\ ch.bound_map = {}
      /\ ch.md_blocks = pcpu_init_md_blocks(P) /\ ch.contig_bits = N /\ ch.contig_bits_start = 0
      /\ ch.first_bit = 0 /\ ch.free_bytes = UnitSize /\ ch.populated = {} /\ ch.nr_populated = 0
      /\ ch.nr_empty_pop_pages = 0 /\ ch.immutable = FALSE
  BY <1>1, <1>2 DEF pcpu_alloc_chunk, UnitSize
<1>5. ch = [nr_pages |-> P, alloc_map |-> {}, bound_map |-> {},
            md_blocks |-> pcpu_init_md_blocks(P), contig_bits |-> N, contig_bits_start |-> 0,
            first_bit |-> 0, free_bytes |-> UnitSize, populated |-> {}, nr_populated |-> 0,
            nr_empty_pop_pages |-> 0, immutable |-> FALSE]
  BY <1>1, <1>2 DEF pcpu_alloc_chunk, UnitSize
<1>6. PICK mb : mb = pcpu_init_md_blocks(P) /\ mb \in UNION {[0 .. q - 1 -> BlockRec] : q \in Nat}
  BY <1>3, BlankBlocks
<1>7. ch \in ChunkRec
  BY <1>3, <1>5, <1>6 DEF ChunkRec
<1>8. Cardinality(ch.populated) = 0
  BY <1>4, FS_EmptySet
<1>9. Blank(ch)
  BY <1>2, <1>3, <1>4, <1>7, <1>8 DEF Blank
<1>10. Base(ch)
  BY <1>9, BlankBase
<1>11. ch.nr_pages * Blk = N
  BY <1>2, <1>4
<1>12. ContigOk(ch)
  <2>1. ch.contig_bits \in 0 .. N /\ ch.contig_bits_start \in 0 .. N
    BY <1>3, <1>4
  <2>2. AllSet(ch.alloc_map, 0, N) \/ ch.contig_bits # 0
    BY <1>3, <1>4 DEF AllSet
  <2> QED BY <1>4, <1>11, <2>1, <2>2 DEF ContigOk
<1>13. EmptyOk(ch)
  <2>1. EmptyPop(ch) = {}
    BY <1>4 DEF EmptyPop
  <2>2. Cardinality(EmptyPop(ch)) = 0
    BY <2>1, FS_EmptySet
  <2> QED BY <1>4, <2>2 DEF EmptyOk
<1>14. BytesOk(ch)
  <2>1. FreeBits(ch) = 0 .. N - 1
    BY <1>4, <1>11 DEF FreeBits
  <2>2. N - 1 \in Int /\ 0 \in Int
    BY <1>3
  <2>3. Cardinality(0 .. N - 1) = IF 0 > N - 1 THEN 0 ELSE (N - 1) - 0 + 1
    BY <2>2, FS_Interval
  <2>4. Cardinality(0 .. N - 1) = N
    BY <1>3, <2>3
  <2>5. UnitSize = N * PCPU_MIN_ALLOC_SIZE
    BY <1>2, Unit
  <2> QED BY <1>4, <2>1, <2>4, <2>5 DEF BytesOk
<1>15. MapOk(ch, {}, {})
  BY <1>4 DEF MapOk
<1>16. ChunkOk(ch)
  BY <1>10, <1>12, <1>13, <1>14 DEF ChunkOk
<1> QED BY <1>1, <1>15, <1>16

LEMMA FirstPages ==
    /\ first_pages \in Nat /\ first_pages >= 1 /\ first_pages <= pcpu_unit_pages
    /\ first_pages * Blk \in Nat /\ StaticBits + DynBits <= first_pages * Blk
<1>0. Blk \in Nat \ {0} /\ StaticBits \in Nat /\ DynBits \in Nat /\ DynBits >= 1 /\ Blk >= 1
      /\ pcpu_unit_pages \in Nat
  BY Sizes
<1>1. PICK x \in Nat : x = StaticBits + DynBits
  BY <1>0
<1>2. x >= 1 /\ x <= pcpu_unit_pages * Blk
  BY <1>0, <1>1, PercpuAssumption
<1>3. x + Blk - 1 \in Nat
  BY <1>0
<1>4. PICK q, r : q = (x + Blk - 1) \div Blk /\ r = (x + Blk - 1) % Blk
  OBVIOUS
<1>5. q \in Nat /\ r \in 0 .. Blk - 1 /\ x + Blk - 1 = q * Blk + r
  BY <1>3, <1>4, InBlock
<1>6. (q * Blk + 0) \div Blk = q
  <2>1. 0 \in 0 .. Blk - 1
    BY <1>0
  <2> QED BY <1>5, <2>1, BlockIs
<1>7. q * Blk \in Nat
  BY <1>0, <1>5
<1>8. first_pages = q
  <2>1. first_pages = (q * Blk) \div Blk
    BY <1>1, <1>4 DEF first_pages, AlignUp
  <2>2. q * Blk + 0 = q * Blk
    BY <1>7
  <2> QED BY <1>6, <2>1, <2>2
<1>9. x <= q * Blk
  BY <1>0, <1>5, <1>7
<1>10. q >= 1
  <2>1. CASE q = 0
    BY <1>0, <1>2, <1>9, <2>1
  <2> QED BY <1>5, <2>1
<1>11. q <= pcpu_unit_pages
  <2>1. CASE pcpu_unit_pages < q
    <3>1. pcpu_unit_pages * Blk + Blk <= q * Blk /\ pcpu_unit_pages * Blk \in Int
      <4>1. pcpu_unit_pages \in Int /\ q \in Int
        BY <1>0, <1>5
      <4> QED BY <2>1, <4>1, BlockOrder
    <3> QED BY <1>0, <1>2, <1>5, <1>7, <3>1
  <2> QED BY <1>0, <1>5, <2>1
<1> QED BY <1>1, <1>5, <1>7, <1>8, <1>9, <1>10, <1>11

(* Bits [off, off + n) of a first chunk are hidden. *)
LEMMA HideOk ==
    ASSUME NEW ch, Base(ch), NEW off \in Nat, NEW n \in Nat, off + n <= ch.nr_pages * Blk,
           Clear(ch.alloc_map, off, off + n)
    PROVE  LET r == Hide(ch, off, n)
           IN  /\ Base(r) /\ r.alloc_map = ch.alloc_map \cup (off .. off + n - 1)
               /\ r.nr_pages = ch.nr_pages /\ r.populated = ch.populated
               /\ r.free_bytes = ch.free_bytes
               /\ (ContigOk(ch) /\ EmptyOk(ch)) \/ (n # 0 /\ InHint(ch, off))
                     => ContigOk(r) /\ EmptyOk(r)
               /\ n = 0 \/ ~ InHint(ch, off) =>
                     \/ ContigOk(r) /\ EmptyOk(r)
                     \/ /\ r.contig_bits = ch.contig_bits /\ r.contig_bits_start = ch.contig_bits_start
                        /\ r.nr_empty_pop_pages = ch.nr_empty_pop_pages
<1> DEFINE Good(r) ==
               /\ Base(r) /\ r.alloc_map = ch.alloc_map \cup (off .. off + n - 1)
               /\ r.nr_pages = ch.nr_pages /\ r.populated = ch.populated
               /\ r.free_bytes = ch.free_bytes
               /\ (ContigOk(ch) /\ EmptyOk(ch)) \/ (n # 0 /\ InHint(ch, off))
                     => ContigOk(r) /\ EmptyOk(r)
               /\ n = 0 \/ ~ InHint(ch, off) =>
                     \/ ContigOk(r) /\ EmptyOk(r)
                     \/ /\ r.contig_bits = ch.contig_bits /\ r.contig_bits_start = ch.contig_bits_start
                        /\ r.nr_empty_pop_pages = ch.nr_empty_pop_pages
<1>1. CASE n = 0
  <2>1. Hide(ch, off, n) = ch
    BY <1>1 DEF Hide
  <2>2. ch.alloc_map = ch.alloc_map \cup (off .. off + n - 1)
    BY <1>1
  <2>3. Good(ch)
    BY <1>1, <2>2
  <2>4. Good(Hide(ch, off, n))
    <3> HIDE DEF Good
    <3> QED BY <2>1, <2>3
  <2> QED BY <2>4
<1>2. CASE n # 0
  <2>1. PICK N, A, B, fb : /\ N = ch.nr_pages * Blk /\ A = ch.alloc_map \cup (off .. off + n - 1)
                           /\ B = ch.bound_map \cup {off, off + n}
                           /\ fb = (IF off = 0 THEN n ELSE ch.first_bit)
    OBVIOUS
  <2>2. N \in Nat /\ off + n <= N /\ n \in Nat \ {0} /\ n >= 1
    BY <1>2, <2>1, PopFinite
  <2>3. A \in SUBSET (0 .. N - 1) /\ A \in SUBSET Nat
    <3>1. ch.alloc_map \in SUBSET (0 .. N - 1)
      BY <2>1 DEF Base, ChunkHints
    <3> QED BY <2>1, <2>2, <3>1
  <2>4. B \in SUBSET (0 .. N) /\ B \in SUBSET Nat
    <3>1. ch.bound_map \in SUBSET (0 .. N)
      BY <2>1 DEF Base
    <3> QED BY <2>1, <2>2, <3>1
  <2>5. fb \in Nat /\ fb <= N /\ AllSet(A, 0, fb)
    <3>1. ch.first_bit \in Nat /\ ch.first_bit <= N /\ AllSet(ch.alloc_map, 0, ch.first_bit)
      BY <2>1 DEF Base, ChunkRec
    <3>2. CASE off = 0
      <4>1. fb = n /\ \A x \in 0 .. n - 1 : x \in A
        BY <2>1, <3>2
      <4> QED BY <2>2, <3>2, <4>1 DEF AllSet
    <3>3. CASE off # 0
      BY <2>1, <3>1, <3>3 DEF AllSet
    <3> QED BY <3>2, <3>3
  <2>6. PICK u : u = [ch EXCEPT !.alloc_map = A, !.bound_map = B, !.first_bit = fb]
    OBVIOUS
  <2>7. Hide(ch, off, n) = pcpu_block_update_hint_alloc(u, off, n)
    BY <1>2, <2>1, <2>6 DEF Hide, Bits
  <2>8. /\ u \in ChunkRec /\ u.alloc_map = A /\ u.bound_map = B /\ u.first_bit = fb
        /\ u.free_bytes = ch.free_bytes /\ u.nr_pages = ch.nr_pages /\ u.md_blocks = ch.md_blocks
        /\ u.contig_bits = ch.contig_bits /\ u.contig_bits_start = ch.contig_bits_start
        /\ u.populated = ch.populated /\ u.nr_populated = ch.nr_populated
        /\ u.nr_empty_pop_pages = ch.nr_empty_pop_pages /\ u.immutable = ch.immutable
    <3>1. ch \in ChunkRec
      BY DEF Base
    <3> QED BY <2>3, <2>4, <2>5, <2>6, <3>1 DEF ChunkRec
  <2>9. Edited(u, ch)
    BY <2>1, <2>3, <2>4, <2>5, <2>8 DEF Edited
  <2>10. PICK r : r = pcpu_block_update_hint_alloc(u, off, n)
    OBVIOUS
  <2>11. /\ Base(r) /\ SameBits(r, u)
         /\ (ContigOk(ch) /\ EmptyOk(ch)) \/ InHint(ch, off) => ContigOk(r) /\ EmptyOk(r)
         /\ ~ InHint(ch, off) =>
               \/ ContigOk(r) /\ EmptyOk(r)
               \/ /\ r.contig_bits = ch.contig_bits /\ r.contig_bits_start = ch.contig_bits_start
                  /\ r.nr_empty_pop_pages = ch.nr_empty_pop_pages
    <3>1. u.alloc_map = ch.alloc_map \cup (off .. off + n - 1)
      BY <2>1, <2>8
    <3> QED BY <2>2, <2>9, <2>10, <3>1, Take
  <2>12. r.alloc_map = A /\ r.nr_pages = ch.nr_pages /\ r.populated = ch.populated
         /\ r.free_bytes = ch.free_bytes
    BY <2>8, <2>11 DEF SameBits
  <2>13. Good(r)
    BY <1>2, <2>1, <2>11, <2>12
  <2>14. Good(Hide(ch, off, n))
    <3> HIDE DEF Good
    <3> QED BY <2>7, <2>10, <2>13
  <2> QED BY <2>14
<1> QED BY <1>1, <1>2

LEMMA FirstChunk == ChunkOk(pcpu_alloc_first_chunk) /\ MapOk(pcpu_alloc_first_chunk, Hidden(1), {})
<1>1. PICK P, N, St, Dy : P = first_pages /\ N = first_pages * Blk /\ St = StaticBits /\ Dy = DynBits
  OBVIOUS
<1>2. /\ P \in Nat /\ P >= 1 /\ P <= pcpu_unit_pages /\ pcpu_unit_pages \in Nat /\ N \in Nat
      /\ St \in Nat /\ Dy \in Nat /\ Dy >= 1 /\ St + Dy <= N /\ N = P * Blk
      /\ Blk \in Nat /\ Blk >= 1
  BY <1>1, FirstPages, Sizes
<1> DEFINE whole == [nr_pages |-> P, alloc_map |-> {}, bound_map |-> {},
                  md_blocks |-> pcpu_init_md_blocks(P),
                  contig_bits |-> Dy, contig_bits_start |-> 0, first_bit |-> 0,
                  free_bytes |-> Dy * PCPU_MIN_ALLOC_SIZE,
                  populated |-> 0 .. P - 1, nr_populated |-> P,
                  nr_empty_pop_pages |-> 0, immutable |-> TRUE]
<1>3. PICK k : k = pcpu_cnt_pop_pages(whole, St, Dy)
  OBVIOUS
<1>4. PICK c0 : c0 = [whole EXCEPT !.nr_empty_pop_pages = k]
  OBVIOUS
<1>5. PICK h1 : h1 = Hide(c0, 0, St)
  OBVIOUS
<1>6. PICK h2 : h2 = Hide(h1, St + Dy, N - (St + Dy))
  OBVIOUS
<1>7. pcpu_alloc_first_chunk = h2
  BY <1>1, <1>3, <1>4, <1>5, <1>6 DEF pcpu_alloc_first_chunk
<1>8. k = Cardinality({p \in 0 .. P - 1 : St <= p * Blk /\ (p + 1) * Blk <= St + Dy})
  BY <1>3 DEF pcpu_cnt_pop_pages
<1>9. P - 1 \in Int /\ 0 \in Int
  BY <1>2
<1>10. /\ IsFiniteSet(0 .. P - 1)
       /\ Cardinality(0 .. P - 1) = IF 0 > P - 1 THEN 0 ELSE (P - 1) - 0 + 1
  BY <1>9, FS_Interval
<1>11. Cardinality(0 .. P - 1) = P
  BY <1>2, <1>10
<1>12. k \in Nat
  <2>1. {p \in 0 .. P - 1 : St <= p * Blk /\ (p + 1) * Blk <= St + Dy} \in SUBSET (0 .. P - 1)
    OBVIOUS
  <2>2. IsFiniteSet({p \in 0 .. P - 1 : St <= p * Blk /\ (p + 1) * Blk <= St + Dy})
    BY <1>10, <2>1, FS_Subset
  <2> QED BY <1>8, <2>2, FS_CardinalityType
<1>13. /\ c0.nr_pages = P /\ c0.alloc_map = {} /\ c0.bound_map = {}
       /\ c0.md_blocks = pcpu_init_md_blocks(P) /\ c0.contig_bits = Dy /\ c0.contig_bits_start = 0
       /\ c0.first_bit = 0 /\ c0.free_bytes = Dy * PCPU_MIN_ALLOC_SIZE
       /\ c0.populated = 0 .. P - 1 /\ c0.nr_populated = P
       /\ c0.nr_empty_pop_pages = k /\ c0.immutable = TRUE
  BY <1>4
<1>14. c0 = [nr_pages |-> P, alloc_map |-> {}, bound_map |-> {},
             md_blocks |-> pcpu_init_md_blocks(P),
             contig_bits |-> Dy, contig_bits_start |-> 0, first_bit |-> 0,
             free_bytes |-> Dy * PCPU_MIN_ALLOC_SIZE,
             populated |-> 0 .. P - 1, nr_populated |-> P,
             nr_empty_pop_pages |-> k, immutable |-> TRUE]
  BY <1>4
<1> HIDE DEF whole
<1>15. c0 \in ChunkRec
  <2>1. PICK mb : mb = pcpu_init_md_blocks(P) /\ mb \in UNION {[0 .. q - 1 -> BlockRec] : q \in Nat}
    BY <1>2, BlankBlocks
  <2>2. PICK fr \in Int : fr = Dy * PCPU_MIN_ALLOC_SIZE
    BY <1>2, Sizes
  <2>3. 0 .. P - 1 \in SUBSET Nat
    BY <1>2
  <2> QED BY <1>2, <1>12, <1>14, <2>1, <2>2, <2>3 DEF ChunkRec
<1>16. Base(c0)
  <2>1. Dy <= P * Blk
    BY <1>2
  <2>2. Blank(c0)
    BY <1>2, <1>11, <1>13, <1>15, <2>1 DEF Blank
  <2> QED BY <2>2, BlankBase
<1>17. /\ Base(h1) /\ h1.alloc_map = {} \cup (0 .. 0 + St - 1) /\ h1.nr_pages = P
       /\ h1.populated = 0 .. P - 1 /\ h1.free_bytes = Dy * PCPU_MIN_ALLOC_SIZE
       /\ St # 0 /\ InHint(c0, 0) => ContigOk(h1) /\ EmptyOk(h1)
  <2>1. 0 + St <= c0.nr_pages * Blk /\ Clear(c0.alloc_map, 0, 0 + St) /\ 0 \in Nat
    BY <1>2, <1>13 DEF Clear
  <2>2. /\ Base(h1) /\ h1.alloc_map = c0.alloc_map \cup (0 .. 0 + St - 1)
        /\ h1.nr_pages = c0.nr_pages /\ h1.populated = c0.populated
        /\ h1.free_bytes = c0.free_bytes
        /\ (ContigOk(c0) /\ EmptyOk(c0)) \/ (St # 0 /\ InHint(c0, 0))
              => ContigOk(h1) /\ EmptyOk(h1)
    BY <1>2, <1>5, <1>16, <2>1, HideOk
  <2> QED BY <1>13, <2>2
<1>18. PICK n \in Nat : n = N - (St + Dy)
  BY <1>2
<1>19. PICK off \in Nat : off = St + Dy
  BY <1>2
<1>20. /\ Base(h2) /\ h2.alloc_map = h1.alloc_map \cup (off .. off + n - 1) /\ h2.nr_pages = P
       /\ h2.populated = 0 .. P - 1 /\ h2.free_bytes = Dy * PCPU_MIN_ALLOC_SIZE
       /\ ContigOk(h1) /\ EmptyOk(h1) => ContigOk(h2) /\ EmptyOk(h2)
       /\ n = 0 \/ ~ InHint(h1, off) =>
             \/ ContigOk(h2) /\ EmptyOk(h2)
             \/ /\ h2.contig_bits = h1.contig_bits /\ h2.contig_bits_start = h1.contig_bits_start
                /\ h2.nr_empty_pop_pages = h1.nr_empty_pop_pages
  <2>0. Base(h1) /\ h1.nr_pages * Blk = N
    BY <1>2, <1>17
  <2>1. off + n <= h1.nr_pages * Blk
    BY <1>2, <1>18, <1>19, <2>0
  <2>2. Clear(h1.alloc_map, off, off + n)
    BY <1>2, <1>17, <1>18, <1>19 DEF Clear
  <2>3. h2 = Hide(h1, off, n)
    BY <1>6, <1>18, <1>19
  <2>4. /\ Base(h2) /\ h2.alloc_map = h1.alloc_map \cup (off .. off + n - 1)
        /\ h2.nr_pages = h1.nr_pages /\ h2.populated = h1.populated
        /\ h2.free_bytes = h1.free_bytes
        /\ (ContigOk(h1) /\ EmptyOk(h1)) \/ (n # 0 /\ InHint(h1, off))
              => ContigOk(h2) /\ EmptyOk(h2)
        /\ n = 0 \/ ~ InHint(h1, off) =>
             \/ ContigOk(h2) /\ EmptyOk(h2)
             \/ /\ h2.contig_bits = h1.contig_bits /\ h2.contig_bits_start = h1.contig_bits_start
                /\ h2.nr_empty_pop_pages = h1.nr_empty_pop_pages
    BY <2>0, <2>1, <2>2, <2>3, HideOk
  <2> QED BY <1>17, <2>4
<1>21. h2.alloc_map = (0 .. St - 1) \cup (off .. N - 1) /\ off + n - 1 = N - 1
  BY <1>2, <1>17, <1>18, <1>19, <1>20
<1>22. h2.nr_pages * Blk = N
  BY <1>2, <1>20
<1>23. ContigOk(h2) /\ EmptyOk(h2)
  <2>1. CASE St # 0
    <3>1. InHint(c0, 0)
      BY <1>2, <1>13 DEF InHint
    <3> QED BY <1>17, <1>20, <2>1, <3>1
  <2>2. CASE St = 0
    <3>1. h1 = c0
      BY <1>5, <2>2 DEF Hide
    <3>2. ~ InHint(h1, off)
      BY <1>2, <1>13, <1>19, <2>2, <3>1 DEF InHint
    <3>3. CASE /\ h2.contig_bits = h1.contig_bits /\ h2.contig_bits_start = h1.contig_bits_start
               /\ h2.nr_empty_pop_pages = h1.nr_empty_pop_pages
      <4>1. h2.contig_bits = Dy /\ h2.contig_bits_start = 0 /\ h2.nr_empty_pop_pages = k
        BY <1>13, <3>1, <3>3
      <4>2. Clear(h2.alloc_map, 0, N) => Dy = N
        <5> SUFFICES ASSUME Clear(h2.alloc_map, 0, N), Dy < N PROVE FALSE
          BY <1>2
        <5>1. off \in 0 .. N - 1 /\ off \in off .. N - 1
          BY <1>2, <1>19, <2>2
        <5> QED BY <1>21, <5>1 DEF Clear
      <4>3. ContigOk(h2)
        BY <1>2, <1>22, <4>1, <4>2 DEF ContigOk
      <4>4. EmptyPop(h2) \subseteq {p \in 0 .. P - 1 : St <= p * Blk /\ (p + 1) * Blk <= St + Dy}
        <5> SUFFICES ASSUME NEW p \in 0 .. P - 1, FreePage(h2, p)
                     PROVE  St <= p * Blk /\ (p + 1) * Blk <= St + Dy
          BY <1>20 DEF EmptyPop
        <5>1. p \in Int /\ P \in Int /\ p < P /\ p >= 0
          BY <1>2
        <5>2. /\ p * Blk \in Nat /\ (p + 1) * Blk = p * Blk + Blk /\ p * Blk + Blk <= N
          BY <1>2, <5>1, BlockOrder
        <5>3. PICK z \in Nat : z = p * Blk
          BY <5>2
        <5>4. Clear(h2.alloc_map, z, z + Blk)
          BY <5>3 DEF FreePage
        <5>5. z + Blk <= Dy
          <6> SUFFICES ASSUME z + Blk > Dy PROVE FALSE
            BY <1>2
          <6>1. z + Blk - 1 \in z .. z + Blk - 1 /\ z + Blk - 1 \in off .. N - 1
            BY <1>2, <1>19, <2>2, <5>2, <5>3
          <6> QED BY <1>2, <1>21, <5>4, <6>1 DEF Clear
        <5> QED BY <1>2, <2>2, <5>2, <5>3, <5>5
      <4>5. EmptyOk(h2)
        <5>1. PICK S : S = {p \in 0 .. P - 1 : St <= p * Blk /\ (p + 1) * Blk <= St + Dy}
          OBVIOUS
        <5>2. IsFiniteSet(S)
          BY <1>10, <5>1, FS_Subset
        <5>3. EmptyPop(h2) \in SUBSET S /\ Cardinality(S) = k
          BY <1>8, <4>4, <5>1
        <5>4. Cardinality(EmptyPop(h2)) <= k
          BY <5>2, <5>3, FS_Subset
        <5> QED BY <4>1, <5>4 DEF EmptyOk
      <4> QED BY <4>3, <4>5
    <3> QED BY <1>20, <3>2, <3>3
  <2> QED BY <2>1, <2>2
<1>24. BytesOk(h2)
  <2>1. FreeBits(h2) = St .. St + Dy - 1
    <3>1. FreeBits(h2) = (0 .. N - 1) \ ((0 .. St - 1) \cup (off .. N - 1))
      BY <1>21, <1>22 DEF FreeBits
    <3> QED BY <1>2, <1>19, <3>1
  <2>2. St \in Int /\ St + Dy - 1 \in Int
    BY <1>2
  <2>3. Cardinality(St .. St + Dy - 1) = IF St > St + Dy - 1 THEN 0 ELSE (St + Dy - 1) - St + 1
    BY <2>2, FS_Interval
  <2>4. Cardinality(St .. St + Dy - 1) = Dy
    BY <1>2, <2>3
  <2> QED BY <1>20, <2>1, <2>4 DEF BytesOk
<1>25. MapOk(h2, Hidden(1), {})
  <2>1. Hidden(1) = Bits(0, St) \cup Bits(off, n)
    BY <1>1, <1>18, <1>19 DEF Hidden
  <2>2. Bits(0, St) = 0 .. St - 1 /\ Bits(off, n) = off .. N - 1
    BY <1>2, <1>21 DEF Bits
  <2>3. Hidden(1) = h2.alloc_map
    BY <1>21, <2>1, <2>2
  <2> QED BY <2>3 DEF MapOk
<1>26. ChunkOk(h2)
  BY <1>20, <1>23, <1>24 DEF ChunkOk
<1> QED BY <1>7, <1>25, <1>26

-----------------------------------------------------------------------------
(* Slots *)

LEMMA SlotOf ==
    ASSUME NEW ch, ChunkOk(ch)
    PROVE  ch.free_bytes \in 0 .. UnitSize /\ pcpu_chunk_slot(ch) \in 0 .. pcpu_nr_slots - 1
<1>1. PICK k, N, M, U : /\ k = Cardinality(FreeBits(ch)) /\ N = ch.nr_pages * Blk
                        /\ M = PCPU_MIN_ALLOC_SIZE /\ U = pcpu_unit_pages * Blk
  OBVIOUS
<1>2. Base(ch) /\ ch.free_bytes = k * M
  BY <1>1 DEF ChunkOk, BytesOk
<1>3. k \in Nat /\ k <= N
  BY <1>1, <1>2, FreeBitsFinite
<1>4. M \in Nat /\ U \in Nat /\ N \in Nat
  BY <1>1, <1>2, Sizes, PopFinite
<1>5. N <= U
  <2>1. ch.nr_pages \in Int /\ pcpu_unit_pages \in Int /\ ch.nr_pages <= pcpu_unit_pages
    BY <1>2, Sizes DEF Base
  <2> QED BY <1>1, <2>1, BlockOrder
<1>6. k * M <= U * M /\ k * M \in Nat
  <2>1. k <= U /\ k \in Int /\ U \in Int
    BY <1>3, <1>4, <1>5
  <2>2. k * M <= U * M
    BY <1>4, <2>1, MulLeq
  <2> QED BY <1>3, <1>4, <2>2
<1>7. UnitSize = U * M /\ UnitSize \in Nat
  BY <1>1, Unit
<1>8. ch.free_bytes \in 0 .. UnitSize
  BY <1>2, <1>6, <1>7
<1> QED BY <1>8, ChunkSlot

(* A chunk is in the list of its slot, and in no other. *)
InSlot(slots, c, slot) ==
    \A s \in 0 .. pcpu_nr_slots - 1 :
        IF s = slot THEN InOnce(slots[s], c) ELSE NotIn(slots[s], c)

LEMMA Moved ==
    ASSUME NEW D \in SUBSET Nat, NEW slots \in [0 .. pcpu_nr_slots - 1 -> Seq(D)], NEW c \in Nat,
           NEW oslot \in Int, InSlot(slots, c, oslot), NEW ch,
           pcpu_chunk_slot(ch) \in 0 .. pcpu_nr_slots - 1
    PROVE  LET r == pcpu_chunk_relocate(slots, c, oslot, ch)
           IN  /\ r \in [0 .. pcpu_nr_slots - 1 -> Seq(D \cup {c})]
               /\ InSlot(r, c, pcpu_chunk_slot(ch))
               /\ \A s \in 0 .. pcpu_nr_slots - 1 : SameBut(slots[s], r[s], c)
<1>1. PICK ns : ns = pcpu_chunk_slot(ch) /\ ns \in 0 .. pcpu_nr_slots - 1
  OBVIOUS
<1>2. PICK SS : SS = 0 .. pcpu_nr_slots - 1
  OBVIOUS
<1>3. ns \in SS /\ slots \in [SS -> Seq(D)] /\ ns \in Int
  BY <1>1, <1>2, SizeSlot
<1>4. PICK r : r = pcpu_chunk_relocate(slots, c, oslot, ch)
  OBVIOUS
<1> DEFINE Good(z) == /\ z \in [0 .. pcpu_nr_slots - 1 -> Seq(D \cup {c})]
                      /\ InSlot(z, c, pcpu_chunk_slot(ch))
                      /\ \A s \in 0 .. pcpu_nr_slots - 1 : SameBut(slots[s], z[s], c)
<1>5. Good(r)
  <2>1. CASE oslot = ns
    <3>1. r = slots
      BY <1>1, <1>4, <2>1 DEF pcpu_chunk_relocate
    <3>2. Seq(D) \subseteq Seq(D \cup {c})
      OBVIOUS
    <3>3. slots \in [SS -> Seq(D \cup {c})]
      BY <1>3, <3>2
    <3>4. \A s \in SS : SameBut(slots[s], slots[s], c)
      BY DEF SameBut
    <3> QED BY <1>1, <1>2, <2>1, <3>1, <3>3, <3>4
  <2>2. CASE oslot # ns
    <3>1. PICK w : w = [s \in SS |-> Without(slots[s], c)]
      OBVIOUS
    <3>2. PICK l : l = (IF oslot < ns THEN <<c>> \o w[ns] ELSE Append(w[ns], c))
      OBVIOUS
    <3>3. r = [w EXCEPT ![ns] = l]
      BY <1>1, <1>2, <1>3, <1>4, <2>2, <3>1, <3>2 DEF pcpu_chunk_relocate
    <3>4. ASSUME NEW s \in SS
          PROVE  w[s] \in Seq(D) /\ NotIn(w[s], c) /\ SameBut(slots[s], w[s], c)
      <4>1. InOnce(slots[s], c) \/ NotIn(slots[s], c)
        BY <1>2, <3>4 DEF InSlot
      <4>2. PICK list \in Seq(D) : list = slots[s]
        BY <1>3, <3>4
      <4>3. InOnce(list, c) \/ NotIn(list, c)
        BY <4>1, <4>2
      <4>4. /\ Without(list, c) \in Seq(D) /\ NotIn(Without(list, c), c)
            /\ SameBut(list, Without(list, c), c)
        BY <4>3, ListDel
      <4>5. w[s] = Without(list, c)
        BY <3>1, <3>4, <4>2
      <4> QED BY <4>2, <4>4, <4>5
    <3>5. w[ns] \in Seq(D) /\ NotIn(w[ns], c) /\ SameBut(slots[ns], w[ns], c)
      BY <1>3, <3>4
    <3>6. l = <<c>> \o w[ns] \/ l = Append(w[ns], c)
      BY <3>2
    <3>7. l \in Seq(D \cup {c}) /\ InOnce(l, c) /\ SameBut(w[ns], l, c)
      <4>1. PICK list \in Seq(D) : list = w[ns]
        BY <3>5
      <4>2. NotIn(list, c) /\ (l = <<c>> \o list \/ l = Append(list, c))
        BY <3>5, <3>6, <4>1
      <4>3. l \in Seq(D \cup {c}) /\ InOnce(l, c) /\ SameBut(list, l, c)
        BY <4>2, ListAdd
      <4> QED BY <4>1, <4>3
    <3>8. SameBut(slots[ns], l, c)
      BY <3>5, <3>7 DEF SameBut
    <3>9. \A s \in SS : r[s] = IF s = ns THEN l ELSE w[s]
      BY <1>3, <3>1, <3>3
    <3>10. ASSUME NEW s \in SS
           PROVE  /\ r[s] \in Seq(D \cup {c}) /\ SameBut(slots[s], r[s], c)
                  /\ IF s = ns THEN InOnce(r[s], c) ELSE NotIn(r[s], c)
      <4>1. CASE s = ns
        BY <3>7, <3>8, <3>9, <3>10, <4>1
      <4>2. CASE s # ns
        <5>1. r[s] = w[s]
          BY <3>9, <3>10, <4>2
        <5>2. w[s] \in Seq(D) /\ NotIn(w[s], c) /\ SameBut(slots[s], w[s], c)
          BY <3>4, <3>10
        <5>3. Seq(D) \subseteq Seq(D \cup {c})
          OBVIOUS
        <5> QED BY <4>2, <5>1, <5>2, <5>3
      <4> QED BY <4>1, <4>2
    <3>11. r = [s \in SS |-> r[s]]
      BY <3>1, <3>3
    <3>12. r \in [SS -> Seq(D \cup {c})]
      BY <3>10, <3>11
    <3>13. InSlot(r, c, ns)
      BY <1>2, <3>10 DEF InSlot
    <3> QED BY <1>1, <1>2, <3>10, <3>12, <3>13
  <2> QED BY <2>1, <2>2
<1>6. Good(pcpu_chunk_relocate(slots, c, oslot, ch))
  <2> HIDE DEF Good
  <2> QED BY <1>4, <1>5
<1> QED BY <1>6

SlotsOk(chunks, slots) ==
    /\ slots \in [0 .. pcpu_nr_slots - 1 -> Seq(1 .. Len(chunks))]
    /\ \A c \in 1 .. Len(chunks) : InSlot(slots, c, pcpu_chunk_slot(chunks[c]))

LEMMA KeptInSlot ==
    ASSUME NEW slots, NEW r, NEW c, NEW d \in Nat, d # c, NEW t, InSlot(slots, d, t),
           \A s \in 0 .. pcpu_nr_slots - 1 : SameBut(slots[s], r[s], c)
    PROVE  InSlot(r, d, t)
<1> SUFFICES ASSUME NEW s \in 0 .. pcpu_nr_slots - 1
             PROVE  IF s = t THEN InOnce(r[s], d) ELSE NotIn(r[s], d)
  BY DEF InSlot
<1>1. (InOnce(slots[s], d) => InOnce(r[s], d)) /\ (NotIn(slots[s], d) => NotIn(r[s], d))
  BY DEF SameBut
<1> QED BY <1>1 DEF InSlot

-----------------------------------------------------------------------------
(* All chunks, their lists, and the areas AS that somebody has *)

AreasOf(AS, c) == {a \in AS : a.chunk = c}

StateInv(chunks, slots, AS) ==
    /\ chunks \in Seq(ChunkRec) /\ Len(chunks) \in 1 .. MaxChunks
    /\ AS \in SUBSET AreaRec /\ \A a \in AS : a.chunk \in 1 .. Len(chunks)
    /\ \A c \in 1 .. Len(chunks) :
          ChunkOk(chunks[c]) /\ MapOk(chunks[c], Hidden(c), AreasOf(AS, c))
    /\ SlotsOk(chunks, slots)

(* Chunk c becomes ch, and then the areas are AS2. *)
LEMMA UpdateOk ==
    ASSUME NEW chunks, NEW slots, NEW AS, StateInv(chunks, slots, AS),
           NEW c \in 1 .. Len(chunks), NEW ch, ChunkOk(ch),
           NEW AS2 \in SUBSET AreaRec, \A a \in AS2 : a.chunk \in 1 .. Len(chunks),
           MapOk(ch, Hidden(c), AreasOf(AS2, c)),
           \A d \in 1 .. Len(chunks) : d # c => AreasOf(AS2, d) = AreasOf(AS, d)
    PROVE  StateInv([chunks EXCEPT ![c] = ch],
                    pcpu_chunk_relocate(slots, c, pcpu_chunk_slot(chunks[c]), ch), AS2)
<1>1. PICK K : K = Len(chunks)
  OBVIOUS
<1>2. K \in Nat /\ K \in 1 .. MaxChunks /\ chunks \in Seq(ChunkRec) /\ c \in 1 .. K /\ c \in Nat
  BY <1>1 DEF StateInv
<1>3. ch \in ChunkRec
  BY DEF ChunkOk, Base
<1>4. PICK new : new = [chunks EXCEPT ![c] = ch]
  OBVIOUS
<1>5. new \in Seq(ChunkRec) /\ Len(new) = K
  BY <1>1, <1>2, <1>3, <1>4
<1>6. new[c] = ch /\ \A d \in 1 .. K : d # c => new[d] = chunks[d]
  BY <1>1, <1>2, <1>4
<1>7. \A d \in 1 .. K : ChunkOk(new[d]) /\ MapOk(new[d], Hidden(d), AreasOf(AS2, d))
  <2> SUFFICES ASSUME NEW d \in 1 .. K
               PROVE  ChunkOk(new[d]) /\ MapOk(new[d], Hidden(d), AreasOf(AS2, d))
    OBVIOUS
  <2>1. CASE d = c
    BY <1>6, <2>1
  <2>2. CASE d # c
    <3>1. ChunkOk(chunks[d]) /\ MapOk(chunks[d], Hidden(d), AreasOf(AS, d))
      BY <1>1 DEF StateInv
    <3>2. new[d] = chunks[d] /\ AreasOf(AS2, d) = AreasOf(AS, d)
      BY <1>1, <1>6, <2>2
    <3> QED BY <3>1, <3>2
  <2> QED BY <2>1, <2>2
<1>8. PICK oslot, r : /\ oslot = pcpu_chunk_slot(chunks[c])
                      /\ r = pcpu_chunk_relocate(slots, c, oslot, ch)
  OBVIOUS
<1>9. /\ slots \in [0 .. pcpu_nr_slots - 1 -> Seq(1 .. K)]
      /\ \A d \in 1 .. K : InSlot(slots, d, pcpu_chunk_slot(chunks[d]))
  BY <1>1 DEF StateInv, SlotsOk
<1>10. oslot \in Int /\ InSlot(slots, c, oslot)
  <2>1. ChunkOk(chunks[c])
    BY DEF StateInv
  <2>2. oslot \in 0 .. pcpu_nr_slots - 1
    BY <1>8, <2>1, SlotOf
  <2> QED BY <1>2, <1>8, <1>9, <2>2, SizeSlot
<1>11. pcpu_chunk_slot(ch) \in 0 .. pcpu_nr_slots - 1
  BY SlotOf
<1>12. PICK D \in SUBSET Nat : D = 1 .. K
  BY <1>2
<1>13. /\ r \in [0 .. pcpu_nr_slots - 1 -> Seq(D \cup {c})]
       /\ InSlot(r, c, pcpu_chunk_slot(ch))
       /\ \A s \in 0 .. pcpu_nr_slots - 1 : SameBut(slots[s], r[s], c)
  BY <1>2, <1>8, <1>9, <1>10, <1>11, <1>12, Moved
<1>14. D \cup {c} = 1 .. K
  BY <1>2, <1>12
<1>15. SlotsOk(new, r)
  <2>1. ASSUME NEW d \in 1 .. K PROVE InSlot(r, d, pcpu_chunk_slot(new[d]))
    <3>1. CASE d = c
      BY <1>6, <1>13, <3>1
    <3>2. CASE d # c
      <4>1. d \in Nat /\ InSlot(slots, d, pcpu_chunk_slot(chunks[d]))
        BY <1>2, <1>9, <2>1
      <4>2. InSlot(r, d, pcpu_chunk_slot(chunks[d]))
        BY <1>13, <3>2, <4>1, KeptInSlot
      <4>3. new[d] = chunks[d]
        BY <1>6, <2>1, <3>2
      <4> QED BY <4>2, <4>3
    <3> QED BY <3>1, <3>2
  <2> QED BY <1>5, <1>13, <1>14, <2>1 DEF SlotsOk
<1>16. StateInv(new, r, AS2)
  BY <1>1, <1>2, <1>5, <1>7, <1>15 DEF StateInv
<1> QED BY <1>4, <1>8, <1>16

(* A new chunk is linked in. *)
LEMMA AddOk ==
    ASSUME NEW chunks, NEW slots, NEW AS, StateInv(chunks, slots, AS), Len(chunks) < MaxChunks
    PROVE  StateInv(Append(chunks, pcpu_alloc_chunk),
                    pcpu_chunk_relocate(slots, Len(chunks) + 1, -1, pcpu_alloc_chunk), AS)
<1>1. PICK K, c, ch : K = Len(chunks) /\ c = Len(chunks) + 1 /\ ch = pcpu_alloc_chunk
  OBVIOUS
<1>2. K \in Nat /\ K >= 1 /\ c = K + 1 /\ chunks \in Seq(ChunkRec) /\ MaxChunks \in Nat /\ K < MaxChunks
  BY <1>1, Sizes DEF StateInv
<1>3. ChunkOk(ch) /\ MapOk(ch, {}, {}) /\ ch \in ChunkRec
  BY <1>1, NewChunk DEF ChunkOk, Base
<1>4. PICK new : new = Append(chunks, ch)
  OBVIOUS
<1>5. /\ new \in Seq(ChunkRec) /\ Len(new) = K + 1 /\ new[c] = ch
      /\ \A d \in 1 .. K : new[d] = chunks[d]
  BY <1>1, <1>2, <1>3, <1>4
<1>6. AS \in SUBSET AreaRec /\ \A a \in AS : a.chunk \in 1 .. K
  BY <1>1 DEF StateInv
<1>7. \A d \in 1 .. K + 1 : ChunkOk(new[d]) /\ MapOk(new[d], Hidden(d), AreasOf(AS, d))
  <2> SUFFICES ASSUME NEW d \in 1 .. K + 1
               PROVE  ChunkOk(new[d]) /\ MapOk(new[d], Hidden(d), AreasOf(AS, d))
    OBVIOUS
  <2>1. CASE d = c
    <3>1. Hidden(d) = {}
      BY <1>2, <2>1 DEF Hidden
    <3>2. AreasOf(AS, d) = {}
      BY <1>2, <1>6, <2>1 DEF AreasOf
    <3> QED BY <1>3, <1>5, <2>1, <3>1, <3>2
  <2>2. CASE d # c
    <3>0. d \in 1 .. K
      BY <1>2, <2>2
    <3>1. ChunkOk(chunks[d]) /\ MapOk(chunks[d], Hidden(d), AreasOf(AS, d))
      BY <1>1, <3>0 DEF StateInv
    <3>2. new[d] = chunks[d]
      BY <1>5, <3>0
    <3> QED BY <3>1, <3>2
  <2> QED BY <2>1, <2>2
<1>8. PICK r : r = pcpu_chunk_relocate(slots, c, -1, ch)
  OBVIOUS
<1>9. /\ slots \in [0 .. pcpu_nr_slots - 1 -> Seq(1 .. K)]
      /\ \A d \in 1 .. K : InSlot(slots, d, pcpu_chunk_slot(chunks[d]))
  BY <1>1 DEF StateInv, SlotsOk
<1>10. InSlot(slots, c, -1)
  <2> SUFFICES ASSUME NEW s \in 0 .. pcpu_nr_slots - 1 PROVE s # -1 /\ NotIn(slots[s], c)
    BY DEF InSlot
  <2>1. s # -1
    BY SizeSlot
  <2>2. PICK D \in SUBSET Int : D = 1 .. K
    BY <1>2
  <2>3. PICK list \in Seq(D) : list = slots[s]
    BY <1>9, <2>2
  <2>4. \A j \in DOMAIN list : list[j] \in D
    OBVIOUS
  <2>5. c \notin D
    BY <1>2, <2>2
  <2> QED BY <2>1, <2>3, <2>4, <2>5 DEF NotIn
<1>11. pcpu_chunk_slot(ch) \in 0 .. pcpu_nr_slots - 1
  BY <1>3, SlotOf
<1>12. PICK D \in SUBSET Nat : D = 1 .. K
  BY <1>2
<1>13. /\ r \in [0 .. pcpu_nr_slots - 1 -> Seq(D \cup {c})]
       /\ InSlot(r, c, pcpu_chunk_slot(ch))
       /\ \A s \in 0 .. pcpu_nr_slots - 1 : SameBut(slots[s], r[s], c)
  <2>1. -1 \in Int /\ c \in Nat
    BY <1>2
  <2> QED BY <1>8, <1>9, <1>10, <1>11, <1>12, <2>1, Moved
<1>14. D \cup {c} = 1 .. K + 1
  BY <1>2, <1>12
<1>15. SlotsOk(new, r)
  <2>1. ASSUME NEW d \in 1 .. K + 1 PROVE InSlot(r, d, pcpu_chunk_slot(new[d]))
    <3>1. CASE d = c
      BY <1>5, <1>13, <3>1
    <3>2. CASE d # c
      <4>0. d \in 1 .. K /\ d \in Nat
        BY <1>2, <2>1, <3>2
      <4>1. InSlot(slots, d, pcpu_chunk_slot(chunks[d]))
        BY <1>9, <4>0
      <4>2. InSlot(r, d, pcpu_chunk_slot(chunks[d]))
        BY <1>13, <3>2, <4>0, <4>1, KeptInSlot
      <4>3. new[d] = chunks[d]
        BY <1>5, <4>0
      <4> QED BY <4>2, <4>3
    <3> QED BY <3>1, <3>2
  <2> QED BY <1>5, <1>13, <1>14, <2>1 DEF SlotsOk
<1>16. StateInv(new, r, AS)
  <2>1. K + 1 \in 1 .. MaxChunks
    BY <1>2
  <2>2. \A a \in AS : a.chunk \in 1 .. K + 1
    BY <1>2, <1>6
  <2> QED BY <1>5, <1>6, <1>7, <1>15, <2>1, <2>2 DEF StateInv
<1> QED BY <1>1, <1>4, <1>8, <1>16

LEMMA StartOk ==
    StateInv(<<pcpu_alloc_first_chunk>>,
             pcpu_chunk_relocate([s \in 0 .. pcpu_nr_slots - 1 |-> <<>>], 1, -1,
                                 pcpu_alloc_first_chunk), {})
<1>1. PICK ch, slots : /\ ch = pcpu_alloc_first_chunk
                       /\ slots = [s \in 0 .. pcpu_nr_slots - 1 |-> <<>>]
  OBVIOUS
<1>2. ChunkOk(ch) /\ MapOk(ch, Hidden(1), {}) /\ ch \in ChunkRec
  BY <1>1, FirstChunk DEF ChunkOk, Base
<1>3. PICK new : new = <<ch>>
  OBVIOUS
<1>4. new \in Seq(ChunkRec) /\ Len(new) = 1 /\ new[1] = ch
  BY <1>2, <1>3
<1>5. PICK r : r = pcpu_chunk_relocate(slots, 1, -1, ch)
  OBVIOUS
<1>6. slots \in [0 .. pcpu_nr_slots - 1 -> Seq({})]
  BY <1>1
<1>7. InSlot(slots, 1, -1)
  <2> SUFFICES ASSUME NEW s \in 0 .. pcpu_nr_slots - 1 PROVE s # -1 /\ NotIn(slots[s], 1)
    BY DEF InSlot
  <2>1. s # -1
    BY SizeSlot
  <2>2. slots[s] = <<>>
    BY <1>1
  <2> QED BY <2>1, <2>2 DEF NotIn
<1>8. pcpu_chunk_slot(ch) \in 0 .. pcpu_nr_slots - 1
  BY <1>2, SlotOf
<1>9. r \in [0 .. pcpu_nr_slots - 1 -> Seq({} \cup {1})] /\ InSlot(r, 1, pcpu_chunk_slot(ch))
  <2>1. -1 \in Int /\ 1 \in Nat /\ {} \in SUBSET Nat
    OBVIOUS
  <2> QED BY <1>5, <1>6, <1>7, <1>8, <2>1, Moved
<1>10. {} \cup {1} = 1 .. 1 /\ \A d \in 1 .. 1 : d = 1
  OBVIOUS
<1>11. SlotsOk(new, r)
  BY <1>4, <1>9, <1>10 DEF SlotsOk
<1>12. AreasOf({}, 1) = {}
  BY DEF AreasOf
<1>13. StateInv(new, r, {})
  <2>1. 1 \in 1 .. MaxChunks
    BY Sizes
  <2>2. \A d \in 1 .. 1 : ChunkOk(new[d]) /\ MapOk(new[d], Hidden(d), AreasOf({}, d))
    BY <1>2, <1>4, <1>10, <1>12
  <2> QED BY <1>4, <1>11, <2>1, <2>2 DEF StateInv
<1> QED BY <1>1, <1>3, <1>5, <1>13

(* What the search in the lists comes to is a place for a new area. *)
LEMMA FoundOk ==
    ASSUME NEW chunks, NEW slots, NEW AS, StateInv(chunks, slots, AS),
           NEW req \in Requests, NEW at \in BOOLEAN, NEW a \in Found(chunks, slots, req, at)
    PROVE  /\ a \in AreaRec /\ a.chunk \in 1 .. Len(chunks) /\ a \notin AS
           /\ PlaceFits(chunks[a.chunk], a.bits, at, a.off)
<1>1. PICK n, lo, NS, K : /\ n = ReqBits(req) /\ lo = pcpu_size_to_slot(n * PCPU_MIN_ALLOC_SIZE)
                          /\ NS = pcpu_nr_slots /\ K = Len(chunks)
  OBVIOUS
<1>2. n \in Nat \ {0} /\ n <= pcpu_unit_pages * Blk /\ pcpu_unit_pages * Blk \in Int
  <2>1. n \in 1 .. pcpu_unit_pages * Blk
    BY <1>1, Request
  <2>2. pcpu_unit_pages * Blk \in Int
    BY Sizes
  <2> QED BY <2>1, <2>2
<1>3. lo \in 1 .. NS - 1 /\ NS \in Nat
  <2>1. PICK U, M : U = pcpu_unit_pages * Blk /\ M = PCPU_MIN_ALLOC_SIZE
    OBVIOUS
  <2>2. M \in Nat /\ U \in Int /\ n <= U /\ n \in Int
    BY <1>2, <2>1, Sizes
  <2>3. n * M <= U * M
    BY <2>2, MulLeq
  <2>4. UnitSize = U * M /\ UnitSize \in Nat
    BY <2>1, Unit
  <2>5. n * M \in Nat
    BY <1>2, <2>2
  <2>6. n * M \in 0 .. UnitSize
    BY <2>3, <2>4, <2>5
  <2> QED BY <1>1, <2>1, <2>6, SizeSlot
<1>4. PICK p \in Servers(chunks, slots, req, at) :
         a = [chunk |-> slots[p[1]][p[2]], off |-> Place(chunks[slots[p[1]][p[2]]], req, at), bits |-> n]
  BY <1>1 DEF Found
<1>5. PICK s \in lo .. NS - 1 :
         p \in {<<s, i>> : i \in {j \in DOMAIN slots[s] : Place(chunks[slots[s][j]], req, at) >= 0}}
  BY <1>1, <1>4 DEF Servers
<1>6. PICK i \in DOMAIN slots[s] : p = <<s, i>> /\ Place(chunks[slots[s][i]], req, at) >= 0
  BY <1>5
<1>7. PICK c : c = slots[s][i]
  OBVIOUS
<1>8. c \in 1 .. K /\ c \in Nat
  <2>1. s \in 0 .. NS - 1
    BY <1>3
  <2>2. slots[s] \in Seq(1 .. K)
    BY <1>1, <2>1 DEF StateInv, SlotsOk
  <2>3. K \in Nat
    BY <1>1 DEF StateInv
  <2>4. PICK D \in SUBSET Nat : D = 1 .. K
    BY <2>3
  <2>5. PICK list \in Seq(D) : list = slots[s]
    BY <2>2, <2>4
  <2>6. list[i] \in D
    BY <1>6, <2>5
  <2> QED BY <1>7, <2>4, <2>5, <2>6
<1>9. PICK ch : ch = chunks[c]
  OBVIOUS
<1>10. ChunkOk(ch) /\ MapOk(ch, Hidden(c), AreasOf(AS, c))
  BY <1>1, <1>8, <1>9 DEF StateInv
<1>11. PICK off : off = Place(ch, req, at)
  OBVIOUS
<1>12. off = -1 \/ PlaceFits(ch, n, at, off)
  <2>1. ChunkHints(ch) /\ ch.populated \in SUBSET Nat /\ ch.first_bit \in Nat
    BY <1>10 DEF ChunkOk, Base, ChunkRec
  <2> QED BY <1>1, <1>11, <2>1, PlaceOk
<1>13. off >= 0
  BY <1>6, <1>7, <1>9, <1>11
<1>14. PlaceFits(ch, n, at, off)
  BY <1>12, <1>13
<1>15. a = [chunk |-> c, off |-> off, bits |-> n]
  BY <1>4, <1>6, <1>7, <1>9, <1>11
<1>16. off \in Nat
  BY <1>14 DEF PlaceFits
<1>17. a \in AreaRec /\ a.chunk = c /\ a.off = off /\ a.bits = n
  BY <1>2, <1>8, <1>15, <1>16 DEF AreaRec
<1>18. a \notin AS
  <2> SUFFICES ASSUME a \in AS PROVE FALSE
    OBVIOUS
  <2>1. a \in AreasOf(AS, c)
    BY <1>17 DEF AreasOf
  <2>2. AllSet(ch.alloc_map, off, off + n)
    BY <1>10, <1>17, <2>1 DEF MapOk, AreaOk
  <2>3. Clear(ch.alloc_map, off, off + n)
    BY <1>14 DEF PlaceFits
  <2>4. off \in off .. off + n - 1
    BY <1>2, <1>16
  <2>5. off \in ch.alloc_map
    BY <1>2, <1>16, <2>2, <2>4 DEF AllSet
  <2>6. off \notin ch.alloc_map
    BY <1>2, <1>16, <2>3, <2>4 DEF Clear
  <2> QED BY <2>5, <2>6
<1> QED BY <1>1, <1>8, <1>9, <1>14, <1>17, <1>18

(* No page is lost. *)
KeepsPages(new, chunks) ==
    \A c \in 1 .. Len(chunks) : chunks[c].populated \subseteq new[c].populated

LEMMA TakeState ==
    ASSUME NEW chunks, NEW slots, NEW AS, StateInv(chunks, slots, AS), NEW at \in BOOLEAN,
           NEW a \in AreaRec, a.chunk \in 1 .. Len(chunks),
           PlaceFits(chunks[a.chunk], a.bits, at, a.off)
    PROVE  LET ch == pcpu_alloc_area(chunks[a.chunk], a.off, a.bits)
               new == [chunks EXCEPT ![a.chunk] = ch]
           IN  /\ StateInv(new, pcpu_chunk_relocate(slots, a.chunk, pcpu_chunk_slot(chunks[a.chunk]), ch),
                           AS \cup {a})
               /\ KeepsPages(new, chunks)
<1>1. PICK c, old, ch : c = a.chunk /\ old = chunks[c] /\ ch = pcpu_alloc_area(old, a.off, a.bits)
  OBVIOUS
<1>2. ChunkOk(old) /\ MapOk(old, Hidden(c), AreasOf(AS, c)) /\ c \in 1 .. Len(chunks)
  BY <1>1 DEF StateInv
<1>3. PICK hid, S : hid = Hidden(c) /\ S = AreasOf(AS, c)
  OBVIOUS
<1>4. ChunkOk(ch) /\ MapOk(ch, hid, S \cup {a}) /\ ch.populated = old.populated
  <2>1. PlaceFits(old, a.bits, at, a.off) /\ MapOk(old, hid, S)
    BY <1>1, <1>2, <1>3
  <2> QED BY <1>1, <1>2, <2>1, AllocOk
<1>5. AreasOf(AS \cup {a}, c) = S \cup {a}
  BY <1>1, <1>3 DEF AreasOf
<1>6. \A d \in 1 .. Len(chunks) : d # c => AreasOf(AS \cup {a}, d) = AreasOf(AS, d)
  BY <1>1 DEF AreasOf
<1>7. AS \cup {a} \in SUBSET AreaRec /\ \A b \in AS \cup {a} : b.chunk \in 1 .. Len(chunks)
  BY DEF StateInv
<1>8. PICK AS2 : AS2 = AS \cup {a}
  OBVIOUS
<1>9. /\ AS2 \in SUBSET AreaRec /\ \A b \in AS2 : b.chunk \in 1 .. Len(chunks)
      /\ MapOk(ch, Hidden(c), AreasOf(AS2, c))
      /\ \A d \in 1 .. Len(chunks) : d # c => AreasOf(AS2, d) = AreasOf(AS, d)
  BY <1>3, <1>4, <1>5, <1>6, <1>7, <1>8
<1>10. StateInv([chunks EXCEPT ![c] = ch],
                pcpu_chunk_relocate(slots, c, pcpu_chunk_slot(chunks[c]), ch), AS2)
  BY <1>2, <1>4, <1>9, UpdateOk
<1>11. KeepsPages([chunks EXCEPT ![c] = ch], chunks)
  <2>1. chunks \in Seq(ChunkRec)
    BY DEF StateInv
  <2>2. PICK new : new = [chunks EXCEPT ![c] = ch]
    OBVIOUS
  <2>3. \A d \in 1 .. Len(chunks) : new[d] = IF d = c THEN ch ELSE chunks[d]
    BY <1>2, <2>1, <2>2
  <2>4. KeepsPages(new, chunks)
    BY <1>1, <1>4, <2>3 DEF KeepsPages
  <2> QED BY <2>2, <2>4
<1> QED BY <1>1, <1>8, <1>10, <1>11

LEMMA GiveState ==
    ASSUME NEW chunks, NEW slots, NEW AS, StateInv(chunks, slots, AS), NEW a \in AS
    PROVE  LET ch == pcpu_free_area(chunks[a.chunk], a.off)
               new == [chunks EXCEPT ![a.chunk] = ch]
           IN  /\ StateInv(new, pcpu_chunk_relocate(slots, a.chunk, pcpu_chunk_slot(chunks[a.chunk]), ch),
                           AS \ {a})
               /\ KeepsPages(new, chunks)
<1>1. PICK c, old, ch : c = a.chunk /\ old = chunks[c] /\ ch = pcpu_free_area(old, a.off)
  OBVIOUS
<1>2. ChunkOk(old) /\ MapOk(old, Hidden(c), AreasOf(AS, c)) /\ c \in 1 .. Len(chunks)
  BY <1>1 DEF StateInv
<1>3. PICK hid, S : hid = Hidden(c) /\ S = AreasOf(AS, c)
  OBVIOUS
<1>4. ChunkOk(ch) /\ MapOk(ch, hid, S \ {a}) /\ ch.populated = old.populated
  <2>1. a \in S /\ MapOk(old, hid, S)
    BY <1>1, <1>2, <1>3 DEF AreasOf
  <2>2. ChunkOk(old)
    BY <1>2
  <2>3. LET r == pcpu_free_area(old, a.off)
        IN  /\ ChunkOk(r) /\ MapOk(r, hid, S \ {a})
            /\ r.nr_pages = old.nr_pages /\ r.populated = old.populated
    BY <2>1, <2>2, FreeAreaOk
  <2> QED BY <1>1, <2>3
<1>5. AreasOf(AS \ {a}, c) = S \ {a}
  BY <1>1, <1>3 DEF AreasOf
<1>6. \A d \in 1 .. Len(chunks) : d # c => AreasOf(AS \ {a}, d) = AreasOf(AS, d)
  BY <1>1 DEF AreasOf
<1>7. AS \ {a} \in SUBSET AreaRec /\ \A b \in AS \ {a} : b.chunk \in 1 .. Len(chunks)
  BY DEF StateInv
<1>8. PICK AS2 : AS2 = AS \ {a}
  OBVIOUS
<1>9. /\ AS2 \in SUBSET AreaRec /\ \A b \in AS2 : b.chunk \in 1 .. Len(chunks)
      /\ MapOk(ch, Hidden(c), AreasOf(AS2, c))
      /\ \A d \in 1 .. Len(chunks) : d # c => AreasOf(AS2, d) = AreasOf(AS, d)
  BY <1>3, <1>4, <1>5, <1>6, <1>7, <1>8
<1>10. StateInv([chunks EXCEPT ![c] = ch],
                pcpu_chunk_relocate(slots, c, pcpu_chunk_slot(chunks[c]), ch), AS2)
  BY <1>2, <1>4, <1>9, UpdateOk
<1>11. KeepsPages([chunks EXCEPT ![c] = ch], chunks)
  <2>1. chunks \in Seq(ChunkRec)
    BY DEF StateInv
  <2>2. PICK new : new = [chunks EXCEPT ![c] = ch]
    OBVIOUS
  <2>3. \A d \in 1 .. Len(chunks) : new[d] = IF d = c THEN ch ELSE chunks[d]
    BY <1>2, <2>1, <2>2
  <2>4. KeepsPages(new, chunks)
    BY <1>1, <1>4, <2>3 DEF KeepsPages
  <2> QED BY <2>2, <2>4
<1> QED BY <1>1, <1>8, <1>10, <1>11

(* Pages rs .. re - 1 of the chunk of area a are populated; the chunk stays in its list. *)
LEMMA PopState ==
    ASSUME NEW chunks, NEW slots, NEW AS, StateInv(chunks, slots, AS), NEW a \in AS,
           NEW rs \in Nat, NEW re \in Nat, FirstPage(a.off) <= rs, rs < re,
           re <= LastPage(a.off, a.bits) + 1, Clear(chunks[a.chunk].populated, rs, re)
    PROVE  LET new == [chunks EXCEPT ![a.chunk] = pcpu_chunk_populated(@, rs, re)]
           IN  /\ StateInv(new, slots, AS) /\ KeepsPages(new, chunks)
               /\ rs .. re - 1 \subseteq new[a.chunk].populated
<1>1. PICK c, old, ch : c = a.chunk /\ old = chunks[c] /\ ch = pcpu_chunk_populated(old, rs, re)
  OBVIOUS
<1>2. ChunkOk(old) /\ MapOk(old, Hidden(c), AreasOf(AS, c)) /\ c \in 1 .. Len(chunks)
  BY <1>1 DEF StateInv
<1>3. PICK hid, S : hid = Hidden(c) /\ S = AreasOf(AS, c)
  OBVIOUS
<1>4. /\ ChunkOk(ch) /\ MapOk(ch, hid, S) /\ ch.populated = old.populated \cup (rs .. re - 1)
      /\ pcpu_chunk_slot(ch) = pcpu_chunk_slot(old)
  <2>1. a \in S /\ MapOk(old, hid, S) /\ Clear(old.populated, rs, re)
    BY <1>1, <1>2, <1>3 DEF AreasOf
  <2> QED BY <1>1, <1>2, <2>1, PopulateOk
<1>5. /\ AS \in SUBSET AreaRec /\ \A b \in AS : b.chunk \in 1 .. Len(chunks)
      /\ MapOk(ch, Hidden(c), AreasOf(AS, c)) /\ chunks \in Seq(ChunkRec)
  BY <1>3, <1>4 DEF StateInv
<1>6. StateInv([chunks EXCEPT ![c] = ch],
               pcpu_chunk_relocate(slots, c, pcpu_chunk_slot(chunks[c]), ch), AS)
  BY <1>2, <1>4, <1>5, UpdateOk
<1>7. pcpu_chunk_relocate(slots, c, pcpu_chunk_slot(chunks[c]), ch) = slots
  BY <1>1, <1>4 DEF pcpu_chunk_relocate
<1>8. PICK new : new = [chunks EXCEPT ![c] = ch]
  OBVIOUS
<1>9. \A d \in 1 .. Len(chunks) : new[d] = IF d = c THEN ch ELSE chunks[d]
  BY <1>2, <1>5, <1>8
<1>10. KeepsPages(new, chunks)
  BY <1>1, <1>4, <1>9 DEF KeepsPages
<1>11. rs .. re - 1 \subseteq new[c].populated
  BY <1>2, <1>4, <1>9
<1>12. new = [chunks EXCEPT ![a.chunk] = pcpu_chunk_populated(@, rs, re)]
  BY <1>1, <1>8
<1>13. StateInv(new, slots, AS)
  BY <1>6, <1>7, <1>8
<1> DEFINE Good(z) == StateInv(z, slots, AS) /\ KeepsPages(z, chunks) /\ rs .. re - 1 \subseteq z[a.chunk].populated
<1>14. Good(new)
  BY <1>1, <1>10, <1>11, <1>13
<1>15. Good([chunks EXCEPT ![a.chunk] = pcpu_chunk_populated(@, rs, re)])
  <2> HIDE DEF Good
  <2> QED BY <1>12, <1>14
<1> QED BY <1>15

-----------------------------------------------------------------------------
(* The invariant *)

(* The areas of callers, and the one that the task is populating *)
Owned(h, cl) == h \cup (IF cl.at = "populate" THEN {cl.area} ELSE {})

(* The task populates area a, and has come to page p. *)
Populating(chunks, a, p) ==
    /\ FirstPage(a.off) <= p
    /\ \A q \in PagesUnder(a.off, a.bits) : q < p => q \in chunks[a.chunk].populated

(* Where the task's call can be, while callers have the areas h *)
CallOk(chunks, cl, h) ==
    \/ cl = Idle
    \/ \E at \in {"create", "restart", "new"}, req \in Requests : cl = [at |-> at, req |-> req]
    \/ \E a \in AreaRec \ h, p \in Nat :
          cl = [at |-> "populate", area |-> a, page |-> p] /\ Populating(chunks, a, p)

HeldOk(chunks, h) == \A a \in h : PagesUnder(a.off, a.bits) \subseteq chunks[a.chunk].populated

Inv(chunks, slots, cl, h) ==
    StateInv(chunks, slots, Owned(h, cl)) /\ CallOk(chunks, cl, h) /\ HeldOk(chunks, h)

(* The inductive invariant *)
IInv == Inv(chunk, pcpu_slot, call, held)

LEMMA OwnedIs ==
    ASSUME NEW h, NEW cl
    PROVE  /\ cl = Idle => Owned(h, cl) = h
           /\ \A at \in {"create", "restart", "new"}, req \in Requests :
                 cl = [at |-> at, req |-> req] => Owned(h, cl) = h
           /\ \A a, p : cl = [at |-> "populate", area |-> a, page |-> p] => Owned(h, cl) = h \cup {a}
BY DEF Owned, Idle

LEMMA KeepHeld ==
    ASSUME NEW chunks, NEW new, KeepsPages(new, chunks), NEW h, HeldOk(chunks, h),
           \A a \in h : a.chunk \in 1 .. Len(chunks)
    PROVE  HeldOk(new, h)
BY DEF KeepsPages, HeldOk

LEMMA KeepCall ==
    ASSUME NEW chunks, NEW new, KeepsPages(new, chunks), NEW cl, NEW h, CallOk(chunks, cl, h),
           \A a \in Owned(h, cl) : a.chunk \in 1 .. Len(chunks), NEW h2,
           cl.at = "populate" => cl.area \notin h2
    PROVE  CallOk(new, cl, h2)
<1>1. CASE \E a \in AreaRec \ h, p \in Nat :
              cl = [at |-> "populate", area |-> a, page |-> p] /\ Populating(chunks, a, p)
  <2>1. PICK a \in AreaRec \ h, p \in Nat :
           cl = [at |-> "populate", area |-> a, page |-> p] /\ Populating(chunks, a, p)
    BY <1>1
  <2>2. a \in Owned(h, cl) /\ cl.at = "populate" /\ cl.area = a
    BY <2>1 DEF Owned
  <2>3. a.chunk \in 1 .. Len(chunks) /\ a \in AreaRec \ h2
    BY <2>2
  <2>4. Populating(new, a, p)
    BY <2>1, <2>3 DEF Populating, KeepsPages
  <2> QED BY <2>1, <2>3, <2>4 DEF CallOk
<1>2. CASE cl = Idle
  BY <1>2 DEF CallOk
<1>3. CASE \E at \in {"create", "restart", "new"}, req \in Requests : cl = [at |-> at, req |-> req]
  BY <1>3 DEF CallOk
<1> QED BY <1>1, <1>2, <1>3 DEF CallOk

(* What restart makes of chunks, lists and the call *)
Restarted(chunks, slots, req, chunks2, slots2, cl2) ==
    \/ \E a \in Found(chunks, slots, req, FALSE) :
          LET ch == pcpu_alloc_area(chunks[a.chunk], a.off, a.bits)
          IN  /\ chunks2 = [chunks EXCEPT ![a.chunk] = ch]
              /\ slots2 = pcpu_chunk_relocate(slots, a.chunk, pcpu_chunk_slot(chunks[a.chunk]), ch)
              /\ cl2 = [at |-> "populate", area |-> a, page |-> FirstPage(a.off)]
    \/ chunks2 = chunks /\ slots2 = slots /\ cl2 = [at |-> "create", req |-> req]

LEMMA RestartOk ==
    ASSUME NEW chunks, NEW slots, NEW h, StateInv(chunks, slots, h), HeldOk(chunks, h),
           NEW req \in Requests, NEW chunks2, NEW slots2, NEW cl2,
           Restarted(chunks, slots, req, chunks2, slots2, cl2)
    PROVE  Inv(chunks2, slots2, cl2, h)
<1>1. CASE chunks2 = chunks /\ slots2 = slots /\ cl2 = [at |-> "create", req |-> req]
  <2>1. Owned(h, cl2) = h
    BY <1>1, OwnedIs
  <2>2. CallOk(chunks, cl2, h)
    BY <1>1 DEF CallOk
  <2> QED BY <1>1, <2>1, <2>2 DEF Inv
<1>2. ASSUME NEW a \in Found(chunks, slots, req, FALSE), NEW ch,
             ch = pcpu_alloc_area(chunks[a.chunk], a.off, a.bits),
             chunks2 = [chunks EXCEPT ![a.chunk] = ch],
             slots2 = pcpu_chunk_relocate(slots, a.chunk, pcpu_chunk_slot(chunks[a.chunk]), ch),
             cl2 = [at |-> "populate", area |-> a, page |-> FirstPage(a.off)]
      PROVE  Inv(chunks2, slots2, cl2, h)
  <2>1. /\ a \in AreaRec /\ a.chunk \in 1 .. Len(chunks) /\ a \notin h
        /\ PlaceFits(chunks[a.chunk], a.bits, FALSE, a.off)
    <3>1. FALSE \in BOOLEAN
      OBVIOUS
    <3> HIDE <1>2
    <3> QED BY <3>1, FoundOk
  <2>2. LET c == pcpu_alloc_area(chunks[a.chunk], a.off, a.bits)
            new == [chunks EXCEPT ![a.chunk] = c]
        IN  /\ StateInv(new, pcpu_chunk_relocate(slots, a.chunk, pcpu_chunk_slot(chunks[a.chunk]), c),
                        h \cup {a})
            /\ KeepsPages(new, chunks)
    BY <2>1, TakeState
  <2>3. StateInv(chunks2, slots2, h \cup {a}) /\ KeepsPages(chunks2, chunks)
    BY <1>2, <2>2
  <2>4. Owned(h, cl2) = h \cup {a}
    BY <1>2, OwnedIs
  <2>5. HeldOk(chunks2, h)
    BY <2>3, KeepHeld DEF StateInv
  <2>6. CallOk(chunks2, cl2, h)
    <3>1. a.off \in Nat /\ a.bits \in Nat /\ a.bits >= 1
      BY <2>1 DEF AreaRec
    <3>2. FirstPage(a.off) \in Nat /\ LastPage(a.off, a.bits) \in Nat
      BY <3>1, PageRange
    <3>3. Populating(chunks2, a, FirstPage(a.off))
      BY <3>2 DEF Populating, PagesUnder
    <3> QED BY <1>2, <2>1, <3>2, <3>3 DEF CallOk
  <2> QED BY <2>3, <2>4, <2>5, <2>6 DEF Inv
<1> QED BY <1>1, <1>2 DEF Restarted

LEMMA AtomicOk ==
    ASSUME NEW chunks, NEW slots, NEW cl, NEW h, Inv(chunks, slots, cl, h),
           NEW req \in Requests, NEW a \in Found(chunks, slots, req, TRUE)
    PROVE  LET ch == pcpu_alloc_area(chunks[a.chunk], a.off, a.bits)
           IN  Inv([chunks EXCEPT ![a.chunk] = ch],
                   pcpu_chunk_relocate(slots, a.chunk, pcpu_chunk_slot(chunks[a.chunk]), ch),
                   cl, h \cup {a})
<1>1. StateInv(chunks, slots, Owned(h, cl)) /\ CallOk(chunks, cl, h) /\ HeldOk(chunks, h)
  BY DEF Inv
<1>2. /\ a \in AreaRec /\ a.chunk \in 1 .. Len(chunks) /\ a \notin Owned(h, cl)
      /\ PlaceFits(chunks[a.chunk], a.bits, TRUE, a.off)
  <2>1. TRUE \in BOOLEAN
    OBVIOUS
  <2> QED BY <1>1, <2>1, FoundOk
<1>3. PICK ch, new, sl :
         /\ ch = pcpu_alloc_area(chunks[a.chunk], a.off, a.bits)
         /\ new = [chunks EXCEPT ![a.chunk] = ch]
         /\ sl = pcpu_chunk_relocate(slots, a.chunk, pcpu_chunk_slot(chunks[a.chunk]), ch)
  OBVIOUS
<1>4. StateInv(new, sl, Owned(h, cl) \cup {a}) /\ KeepsPages(new, chunks)
  <2>1. LET c == pcpu_alloc_area(chunks[a.chunk], a.off, a.bits)
            n == [chunks EXCEPT ![a.chunk] = c]
        IN  /\ StateInv(n, pcpu_chunk_relocate(slots, a.chunk, pcpu_chunk_slot(chunks[a.chunk]), c),
                        Owned(h, cl) \cup {a})
            /\ KeepsPages(n, chunks)
    BY <1>1, <1>2, TakeState
  <2> QED BY <1>3, <2>1
<1>5. Owned(h, cl) \cup {a} = Owned(h \cup {a}, cl)
  BY DEF Owned
<1>6. \A b \in Owned(h, cl) : b.chunk \in 1 .. Len(chunks)
  BY <1>1 DEF StateInv
<1>7. CallOk(new, cl, h \cup {a})
  <2>1. cl.at = "populate" => cl.area \notin h \cup {a}
    <3> SUFFICES ASSUME cl.at = "populate" PROVE cl.area \notin h \cup {a}
      OBVIOUS
    <3>1. cl.area \in Owned(h, cl)
      BY DEF Owned
    <3>2. cl.area \notin h
      BY <1>1 DEF CallOk, Idle
    <3> QED BY <1>2, <3>1, <3>2
  <2> QED BY <1>1, <1>4, <1>6, <2>1, KeepCall
<1>8. HeldOk(new, h \cup {a})
  <2>1. h \subseteq Owned(h, cl)
    BY DEF Owned
  <2>2. HeldOk(new, h)
    BY <1>1, <1>4, <1>6, <2>1, KeepHeld
  <2>3. PagesUnder(a.off, a.bits) \subseteq new[a.chunk].populated
    BY <1>2, <1>4 DEF PlaceFits, KeepsPages
  <2> QED BY <2>2, <2>3 DEF HeldOk
<1>9. Inv(new, sl, cl, h \cup {a})
  BY <1>4, <1>5, <1>7, <1>8 DEF Inv
<1> QED BY <1>3, <1>9

LEMMA FreeOfHeld ==
    ASSUME NEW chunks, NEW slots, NEW cl, NEW h, Inv(chunks, slots, cl, h), NEW a \in h
    PROVE  LET ch == pcpu_free_area(chunks[a.chunk], a.off)
           IN  Inv([chunks EXCEPT ![a.chunk] = ch],
                   pcpu_chunk_relocate(slots, a.chunk, pcpu_chunk_slot(chunks[a.chunk]), ch),
                   cl, h \ {a})
<1>1. StateInv(chunks, slots, Owned(h, cl)) /\ CallOk(chunks, cl, h) /\ HeldOk(chunks, h)
  BY DEF Inv
<1>2. a \in Owned(h, cl) /\ h \subseteq Owned(h, cl)
  BY DEF Owned
<1>3. PICK ch, new, sl :
         /\ ch = pcpu_free_area(chunks[a.chunk], a.off)
         /\ new = [chunks EXCEPT ![a.chunk] = ch]
         /\ sl = pcpu_chunk_relocate(slots, a.chunk, pcpu_chunk_slot(chunks[a.chunk]), ch)
  OBVIOUS
<1>4. StateInv(new, sl, Owned(h, cl) \ {a}) /\ KeepsPages(new, chunks)
  <2>1. LET c == pcpu_free_area(chunks[a.chunk], a.off)
            n == [chunks EXCEPT ![a.chunk] = c]
        IN  /\ StateInv(n, pcpu_chunk_relocate(slots, a.chunk, pcpu_chunk_slot(chunks[a.chunk]), c),
                        Owned(h, cl) \ {a})
            /\ KeepsPages(n, chunks)
    BY <1>1, <1>2, GiveState
  <2> QED BY <1>3, <2>1
<1>5. cl.at = "populate" => cl.area \notin h
  BY <1>1 DEF CallOk, Idle
<1>6. Owned(h, cl) \ {a} = Owned(h \ {a}, cl)
  BY <1>5 DEF Owned
<1>7. \A b \in Owned(h, cl) : b.chunk \in 1 .. Len(chunks)
  BY <1>1 DEF StateInv
<1>8. CallOk(new, cl, h \ {a})
  <2>1. cl.at = "populate" => cl.area \notin h \ {a}
    BY <1>5
  <2> QED BY <1>1, <1>4, <1>7, <2>1, KeepCall
<1>9. HeldOk(new, h \ {a})
  <2>1. HeldOk(new, h)
    BY <1>1, <1>2, <1>4, <1>7, KeepHeld
  <2> QED BY <2>1 DEF HeldOk
<1>10. Inv(new, sl, cl, h \ {a})
  BY <1>4, <1>6, <1>8, <1>9 DEF Inv
<1> QED BY <1>3, <1>10

(* The run of missing pages that populate looks at *)
MissingIn(chunks, a, p) ==
    pcpu_next_unpop(chunks[a.chunk].populated, p, LastPage(a.off, a.bits) + 1)

LEMMA MissingOk ==
    ASSUME NEW chunks, NEW slots, NEW AS, StateInv(chunks, slots, AS), NEW a \in AS, NEW p \in Nat
    PROVE  LET r == MissingIn(chunks, a, p)
               pop == chunks[a.chunk].populated
               end == LastPage(a.off, a.bits) + 1
           IN  /\ r[1] \in Nat /\ r[2] \in Nat /\ r[2] <= end /\ end \in Nat
               /\ \/ r[1] < r[2] /\ IsRun(pop, p, end, r[1], r[2])
                  \/ r[1] = end /\ r[2] = end /\ AllSet(pop, p, end)
<1>1. PICK pop, end : pop = chunks[a.chunk].populated /\ end = LastPage(a.off, a.bits) + 1
  OBVIOUS
<1>2. a.off \in Nat /\ a.bits \in Nat /\ a.bits >= 1
  BY DEF StateInv, AreaRec
<1>3. end \in Nat
  <2>1. LastPage(a.off, a.bits) \in Nat
    BY <1>2, PageRange
  <2> QED BY <1>1, <2>1
<1>4. pop \in SUBSET Nat
  <2>1. ChunkOk(chunks[a.chunk])
    BY DEF StateInv
  <2> QED BY <1>1, <2>1 DEF ChunkOk, Base, ChunkRec
<1>5. LET r == pcpu_next_unpop(pop, p, end)
      IN  /\ r[1] \in Nat /\ r[2] \in Nat /\ r[2] <= end
          /\ \/ r[1] < r[2] /\ IsRun(pop, p, end, r[1], r[2])
             \/ r[1] = end /\ r[2] = end /\ AllSet(pop, p, end)
  BY <1>3, <1>4, NextUnpop
<1>6. MissingIn(chunks, a, p) = pcpu_next_unpop(pop, p, end)
  BY <1>1 DEF MissingIn
<1> QED BY <1>1, <1>3, <1>5, <1>6

(* A run of missing pages has been populated. *)
LEMMA PopulatedOk ==
    ASSUME NEW chunks, NEW slots, NEW cl, NEW h, Inv(chunks, slots, cl, h), NEW a \in AreaRec \ h,
           NEW p \in Nat, cl = [at |-> "populate", area |-> a, page |-> p], Populating(chunks, a, p),
           NEW rs, NEW re, MissingIn(chunks, a, p) = <<rs, re>>, rs < re
    PROVE  Inv([chunks EXCEPT ![a.chunk] = pcpu_chunk_populated(@, rs, re)], slots,
               [at |-> "populate", area |-> a, page |-> re + 1], h)
<1>1. Owned(h, cl) = h \cup {a} /\ HeldOk(chunks, h)
  BY OwnedIs DEF Inv
<1>2. PICK AS : AS = h \cup {a}
  OBVIOUS
<1>3. StateInv(chunks, slots, AS) /\ a \in AS
  BY <1>1, <1>2 DEF Inv
<1>4. PICK pop, end : pop = chunks[a.chunk].populated /\ end = LastPage(a.off, a.bits) + 1
  OBVIOUS
<1>5. rs \in Nat /\ re \in Nat /\ re <= end /\ end \in Nat /\ IsRun(pop, p, end, rs, re)
  <2>1. PICK r : r = MissingIn(chunks, a, p)
    OBVIOUS
  <2>2. /\ r[1] \in Nat /\ r[2] \in Nat /\ r[2] <= end /\ end \in Nat
        /\ \/ r[1] < r[2] /\ IsRun(pop, p, end, r[1], r[2])
           \/ r[1] = end /\ r[2] = end /\ AllSet(pop, p, end)
    BY <1>3, <1>4, <2>1, MissingOk
  <2>3. r[1] = rs /\ r[2] = re
    BY <2>1
  <2>4. r[1] # r[2]
    <3>1. rs \in Nat
      BY <2>2, <2>3
    <3> QED BY <2>3, <3>1
  <2> QED BY <2>2, <2>3, <2>4
<1>6. /\ p <= rs /\ AllSet(pop, p, rs) /\ Clear(pop, rs, re) /\ (re = end \/ re \in pop)
  BY <1>5 DEF IsRun
<1>7. a.off \in Nat /\ a.bits \in Nat /\ a.bits >= 1
  BY DEF AreaRec
<1>8. FirstPage(a.off) \in Nat /\ LastPage(a.off, a.bits) \in Nat /\ FirstPage(a.off) <= p
  BY <1>7, PageRange DEF Populating
<1>9. PICK new : new = [chunks EXCEPT ![a.chunk] = pcpu_chunk_populated(@, rs, re)]
  OBVIOUS
<1>10. /\ StateInv(new, slots, AS) /\ KeepsPages(new, chunks)
       /\ rs .. re - 1 \subseteq new[a.chunk].populated
  <2>1. FirstPage(a.off) <= rs /\ re <= LastPage(a.off, a.bits) + 1
        /\ Clear(chunks[a.chunk].populated, rs, re)
    BY <1>4, <1>5, <1>6, <1>8
  <2>2. LET n == [chunks EXCEPT ![a.chunk] = pcpu_chunk_populated(@, rs, re)]
        IN  /\ StateInv(n, slots, AS) /\ KeepsPages(n, chunks)
            /\ rs .. re - 1 \subseteq n[a.chunk].populated
    BY <1>3, <1>5, <2>1, PopState
  <2> QED BY <1>9, <2>2
<1>11. Populating(new, a, re + 1)
  <2>1. FirstPage(a.off) <= re + 1
    BY <1>5, <1>6, <1>8
  <2>2. ASSUME NEW q \in PagesUnder(a.off, a.bits), q < re + 1 PROVE q \in new[a.chunk].populated
    <3>1. q \in Int /\ q < end
      BY <1>4, <1>8 DEF PagesUnder
    <3>2. pop \subseteq new[a.chunk].populated
      BY <1>3, <1>4, <1>10 DEF KeepsPages, StateInv
    <3>3. CASE q < p
      BY <1>4, <3>2, <3>3 DEF Populating
    <3>4. CASE p <= q /\ q < rs
      BY <1>5, <1>6, <3>1, <3>2, <3>4 DEF AllSet
    <3>5. CASE rs <= q /\ q < re
      BY <1>5, <1>10, <3>1, <3>5
    <3>6. CASE q = re
      BY <1>6, <3>1, <3>2, <3>6
    <3> QED BY <1>5, <2>2, <3>1, <3>3, <3>4, <3>5, <3>6
  <2> QED BY <2>1, <2>2 DEF Populating
<1>12. PICK cl2 : cl2 = [at |-> "populate", area |-> a, page |-> re + 1]
  OBVIOUS
<1>13. CallOk(new, cl2, h) /\ Owned(h, cl2) = AS
  <2>1. re + 1 \in Nat
    BY <1>5
  <2>2. Owned(h, cl2) = AS
    BY <1>2, <1>12, OwnedIs
  <2> QED BY <1>11, <1>12, <2>1, <2>2 DEF CallOk
<1>14. HeldOk(new, h)
  <2>1. \A b \in h : b.chunk \in 1 .. Len(chunks)
    BY <1>2, <1>3 DEF StateInv
  <2> QED BY <1>1, <1>10, <2>1, KeepHeld
<1>15. Inv(new, slots, cl2, h)
  BY <1>10, <1>13, <1>14 DEF Inv
<1> QED BY <1>9, <1>12, <1>15

(* The pages could not be had. *)
LEMMA GiveUpOk ==
    ASSUME NEW chunks, NEW slots, NEW cl, NEW h, Inv(chunks, slots, cl, h), NEW a \in AreaRec \ h,
           NEW p, cl = [at |-> "populate", area |-> a, page |-> p]
    PROVE  LET ch == pcpu_free_area(chunks[a.chunk], a.off)
           IN  Inv([chunks EXCEPT ![a.chunk] = ch],
                   pcpu_chunk_relocate(slots, a.chunk, pcpu_chunk_slot(chunks[a.chunk]), ch), Idle, h)
<1>1. Owned(h, cl) = h \cup {a} /\ HeldOk(chunks, h)
  BY OwnedIs DEF Inv
<1>2. PICK AS : AS = h \cup {a}
  OBVIOUS
<1>3. StateInv(chunks, slots, AS) /\ a \in AS /\ AS \ {a} = h
  BY <1>1, <1>2 DEF Inv
<1>4. PICK ch, new, sl :
         /\ ch = pcpu_free_area(chunks[a.chunk], a.off)
         /\ new = [chunks EXCEPT ![a.chunk] = ch]
         /\ sl = pcpu_chunk_relocate(slots, a.chunk, pcpu_chunk_slot(chunks[a.chunk]), ch)
  OBVIOUS
<1>5. StateInv(new, sl, h) /\ KeepsPages(new, chunks)
  <2>1. LET c == pcpu_free_area(chunks[a.chunk], a.off)
            n == [chunks EXCEPT ![a.chunk] = c]
        IN  /\ StateInv(n, pcpu_chunk_relocate(slots, a.chunk, pcpu_chunk_slot(chunks[a.chunk]), c),
                        AS \ {a})
            /\ KeepsPages(n, chunks)
    BY <1>3, GiveState
  <2> QED BY <1>3, <1>4, <2>1
<1>6. HeldOk(new, h)
  <2>1. \A b \in h : b.chunk \in 1 .. Len(chunks)
    BY <1>2, <1>3 DEF StateInv
  <2> QED BY <1>1, <1>5, <2>1, KeepHeld
<1>7. Owned(h, Idle) = h /\ CallOk(new, Idle, h)
  BY OwnedIs DEF CallOk
<1>8. Inv(new, sl, Idle, h)
  BY <1>5, <1>6, <1>7 DEF Inv
<1> QED BY <1>4, <1>8

(* All pages are there, and the area is the caller's. *)
LEMMA AllPopulatedOk ==
    ASSUME NEW chunks, NEW slots, NEW cl, NEW h, Inv(chunks, slots, cl, h), NEW a \in AreaRec \ h,
           NEW p \in Nat, cl = [at |-> "populate", area |-> a, page |-> p], Populating(chunks, a, p),
           MissingIn(chunks, a, p)[1] >= MissingIn(chunks, a, p)[2]
    PROVE  Inv(chunks, slots, Idle, h \cup {a})
<1>1. Owned(h, cl) = h \cup {a} /\ HeldOk(chunks, h)
  BY OwnedIs DEF Inv
<1>2. PICK AS : AS = h \cup {a}
  OBVIOUS
<1>3. StateInv(chunks, slots, AS) /\ a \in AS
  BY <1>1, <1>2 DEF Inv
<1>4. PICK pop, end : pop = chunks[a.chunk].populated /\ end = LastPage(a.off, a.bits) + 1
  OBVIOUS
<1>5. end \in Nat /\ AllSet(pop, p, end)
  <2>1. PICK r : r = MissingIn(chunks, a, p)
    OBVIOUS
  <2>2. /\ r[1] \in Nat /\ r[2] \in Nat /\ r[2] <= end /\ end \in Nat
        /\ \/ r[1] < r[2] /\ IsRun(pop, p, end, r[1], r[2])
           \/ r[1] = end /\ r[2] = end /\ AllSet(pop, p, end)
    BY <1>3, <1>4, <2>1, MissingOk
  <2>3. ~ (r[1] < r[2])
    BY <2>1, <2>2
  <2> QED BY <2>2, <2>3
<1>6. a.off \in Nat /\ a.bits \in Nat /\ a.bits >= 1
  BY DEF AreaRec
<1>7. FirstPage(a.off) \in Nat /\ LastPage(a.off, a.bits) \in Nat
  BY <1>6, PageRange
<1>8. PagesUnder(a.off, a.bits) \subseteq pop
  <2> SUFFICES ASSUME NEW q \in PagesUnder(a.off, a.bits) PROVE q \in pop
    OBVIOUS
  <2>1. q \in Int /\ q < end
    BY <1>4, <1>7 DEF PagesUnder
  <2>2. CASE q < p
    BY <1>4, <2>2 DEF Populating
  <2>3. CASE p <= q
    BY <1>5, <2>1, <2>3 DEF AllSet
  <2> QED BY <2>1, <2>2, <2>3
<1>9. HeldOk(chunks, h \cup {a})
  BY <1>1, <1>4, <1>8 DEF HeldOk
<1>10. Owned(h \cup {a}, Idle) = AS /\ CallOk(chunks, Idle, h \cup {a})
  BY <1>2, OwnedIs DEF CallOk
<1> QED BY <1>3, <1>9, <1>10 DEF Inv

LEMMA InitInv == Init => IInv
<1> SUFFICES ASSUME Init PROVE IInv
  OBVIOUS
<1>1. PICK c, s : c = chunk /\ s = pcpu_slot
  OBVIOUS
<1>2. call = Idle /\ held = {}
  BY DEF Init
<1>3. StateInv(c, s, {})
  BY <1>1, StartOk DEF Init
<1>4. Owned({}, Idle) = {} /\ CallOk(c, Idle, {}) /\ HeldOk(c, {})
  BY OwnedIs DEF CallOk, HeldOk
<1>5. Inv(c, s, Idle, {})
  BY <1>3, <1>4 DEF Inv
<1> QED BY <1>1, <1>2, <1>5 DEF IInv

(* A call that has an area or not *)
LEMMA CallIs ==
    ASSUME NEW chunks, NEW cl, NEW h, CallOk(chunks, cl, h)
    PROVE  /\ cl.at = "idle" => cl = Idle
           /\ cl.at \in {"create", "restart", "new"} =>
                 \E req \in Requests : cl = [at |-> cl.at, req |-> req]
           /\ cl.at = "populate" =>
                 \E a \in AreaRec \ h, p \in Nat :
                    cl = [at |-> "populate", area |-> a, page |-> p] /\ Populating(chunks, a, p)
BY DEF CallOk, Idle

LEMMA RestartStep ==
    ASSUME NEW chunks, NEW slots, StateInv(chunks, slots, held), HeldOk(chunks, held),
           NEW req \in Requests, restart(chunks, slots, req), UNCHANGED held
    PROVE  IInv'
<1>1. PICK h, chunks2, slots2, cl2 : h = held /\ chunks2 = chunk' /\ slots2 = pcpu_slot' /\ cl2 = call'
  OBVIOUS
<1>2. Restarted(chunks, slots, req, chunks2, slots2, cl2)
  BY <1>1 DEF restart, Restarted, Update
<1>3. StateInv(chunks, slots, h) /\ HeldOk(chunks, h)
  BY <1>1
<1>4. Inv(chunks2, slots2, cl2, h)
  BY <1>2, <1>3, RestartOk
<1> QED BY <1>1, <1>4 DEF IInv

LEMMA NextInv == IInv /\ [Next]_vars => IInv'
<1> SUFFICES ASSUME IInv, [Next]_vars PROVE IInv'
  OBVIOUS
<1>1. PICK c, s, cl, h : c = chunk /\ s = pcpu_slot /\ cl = call /\ h = held
  OBVIOUS
<1>2. Inv(c, s, cl, h) /\ StateInv(c, s, Owned(h, cl)) /\ CallOk(c, cl, h) /\ HeldOk(c, h)
  BY <1>1 DEF IInv, Inv
<1>3. ASSUME NEW req \in Requests, alloc_percpu(req) PROVE IInv'
  <2>1. cl = Idle
    BY <1>1, <1>2, <1>3, CallIs DEF alloc_percpu
  <2>2. StateInv(c, s, h)
    BY <1>2, <2>1, OwnedIs
  <2>3. StateInv(c, s, held) /\ HeldOk(c, held) /\ restart(c, s, req) /\ UNCHANGED held
    BY <1>1, <1>2, <1>3, <2>2 DEF alloc_percpu
  <2> QED BY <2>3, RestartStep
<1>4. ASSUME NEW req \in Requests, alloc_percpu_atomic(req) PROVE IInv'
  <2>1. PICK a \in Found(c, s, req, TRUE) :
           /\ chunk' = [c EXCEPT ![a.chunk] = pcpu_alloc_area(c[a.chunk], a.off, a.bits)]
           /\ pcpu_slot' = pcpu_chunk_relocate(s, a.chunk, pcpu_chunk_slot(c[a.chunk]),
                                               pcpu_alloc_area(c[a.chunk], a.off, a.bits))
           /\ held' = h \cup {a} /\ call' = cl
    BY <1>1, <1>4 DEF alloc_percpu_atomic, Update
  <2>2. LET ch == pcpu_alloc_area(c[a.chunk], a.off, a.bits)
        IN  Inv([c EXCEPT ![a.chunk] = ch],
                pcpu_chunk_relocate(s, a.chunk, pcpu_chunk_slot(c[a.chunk]), ch), cl, h \cup {a})
    BY <1>2, AtomicOk
  <2> QED BY <2>1, <2>2 DEF IInv
<1>5. CASE look_for_free_chunk
  <2>1. cl.at \in {"create", "restart", "new"}
    BY <1>1, <1>5 DEF look_for_free_chunk
  <2>2. PICK req \in Requests : cl = [at |-> cl.at, req |-> req]
    BY <1>2, <2>1, CallIs
  <2>3. \E at \in {"create", "restart", "new"} :
           /\ call' = [at |-> at, req |-> req]
           /\ chunk' = c /\ pcpu_slot' = s /\ held' = h
    <3>1. PICK at \in {"create", "restart", "new"} : call' = [cl EXCEPT !.at = at]
      BY <1>1, <1>5 DEF look_for_free_chunk
    <3>2. [cl EXCEPT !.at = at] = [at |-> at, req |-> req]
      BY <2>2
    <3> QED BY <1>1, <1>5, <3>1, <3>2 DEF look_for_free_chunk
  <2>4. PICK cl2 : call' = cl2
    OBVIOUS
  <2>5. \E at \in {"create", "restart", "new"} : cl2 = [at |-> at, req |-> req]
    BY <2>3, <2>4
  <2>6. Owned(h, cl2) = h /\ Owned(h, cl) = h
    BY <2>1, <2>2, <2>5, OwnedIs
  <2>7. CallOk(c, cl2, h)
    BY <2>5 DEF CallOk
  <2>8. Inv(c, s, cl2, h)
    BY <1>2, <2>6, <2>7 DEF Inv
  <2> QED BY <2>3, <2>4, <2>8 DEF IInv
<1>6. CASE retry
  <2>1. cl.at \in {"create", "restart", "new"}
    BY <1>1, <1>6 DEF retry
  <2>2. PICK req \in Requests : cl = [at |-> cl.at, req |-> req]
    BY <1>2, <2>1, CallIs
  <2>3. Owned(h, cl) = h /\ cl.req = req
    BY <2>1, <2>2, OwnedIs
  <2>4. StateInv(c, s, held) /\ HeldOk(c, held) /\ restart(c, s, req) /\ UNCHANGED held
    BY <1>1, <1>2, <1>6, <2>3 DEF retry
  <2> QED BY <2>4, RestartStep
<1>7. CASE pcpu_create_chunk
  <2>1. cl.at \in {"create", "restart", "new"}
    BY <1>1, <1>7 DEF pcpu_create_chunk
  <2>2. PICK req \in Requests : cl = [at |-> cl.at, req |-> req]
    BY <1>2, <2>1, CallIs
  <2>3. Owned(h, cl) = h /\ cl.req = req
    BY <2>1, <2>2, OwnedIs
  <2>4. StateInv(c, s, h)
    BY <1>2, <2>3
  <2>5. CASE call' = Idle /\ UNCHANGED <<chunk, pcpu_slot>>
    <3>1. Owned(h, Idle) = h /\ CallOk(c, Idle, h)
      BY OwnedIs DEF CallOk
    <3>2. Inv(c, s, Idle, h)
      BY <1>2, <2>4, <3>1 DEF Inv
    <3>3. held' = h /\ chunk' = c /\ pcpu_slot' = s
      BY <1>1, <1>7, <2>5 DEF pcpu_create_chunk
    <3> QED BY <2>5, <3>2, <3>3 DEF IInv
  <2>6. CASE /\ Len(chunk) < MaxChunks
             /\ restart(Append(chunk, pcpu_alloc_chunk),
                        pcpu_chunk_relocate(pcpu_slot, Len(chunk) + 1, -1, pcpu_alloc_chunk), call.req)
    <3>1. PICK new, sl : /\ new = Append(c, pcpu_alloc_chunk)
                         /\ sl = pcpu_chunk_relocate(s, Len(c) + 1, -1, pcpu_alloc_chunk)
      OBVIOUS
    <3>2. StateInv(new, sl, h)
      BY <1>1, <2>4, <2>6, <3>1, AddOk
    <3>3. HeldOk(new, h)
      <4>1. \A a \in h : a.chunk \in 1 .. Len(c)
        BY <2>4 DEF StateInv
      <4>2. c \in Seq(ChunkRec)
        BY <2>4 DEF StateInv
      <4>3. \A d \in 1 .. Len(c) : new[d] = c[d]
        BY <3>1, <4>2
      <4>4. KeepsPages(new, c)
        BY <4>3 DEF KeepsPages
      <4> QED BY <1>2, <4>1, <4>4, KeepHeld
    <3>4. restart(new, sl, req) /\ UNCHANGED held
      BY <1>1, <1>7, <2>3, <2>6, <3>1 DEF pcpu_create_chunk
    <3> QED BY <1>1, <3>2, <3>3, <3>4, RestartStep
  <2> QED BY <1>7, <2>5, <2>6 DEF pcpu_create_chunk
<1>8. CASE populate
  <2>1. cl.at = "populate"
    BY <1>1, <1>8 DEF populate
  <2>2. PICK a \in AreaRec \ h, p \in Nat :
           cl = [at |-> "populate", area |-> a, page |-> p] /\ Populating(c, a, p)
    BY <1>2, <2>1, CallIs
  <2>3. cl.area = a /\ cl.page = p
    BY <2>2
  <2>4. PICK r : r = MissingIn(c, a, p)
    OBVIOUS
  <2>5. PICK rs, re : rs = r[1] /\ re = r[2] /\ r = <<rs, re>>
    BY <2>4 DEF MissingIn, pcpu_next_unpop
  <2>6. Missing(call.area, call.page) = r
    BY <1>1, <2>3, <2>4 DEF Missing, MissingIn
  <2>7. /\ rs < re /\ held' = h
        /\ \/ /\ chunk' = [c EXCEPT ![a.chunk] = pcpu_chunk_populated(@, rs, re)]
              /\ call' = [cl EXCEPT !.page = re + 1] /\ pcpu_slot' = s
           \/ /\ chunk' = [c EXCEPT ![a.chunk] = pcpu_free_area(c[a.chunk], a.off)]
              /\ pcpu_slot' = pcpu_chunk_relocate(s, a.chunk, pcpu_chunk_slot(c[a.chunk]),
                                                  pcpu_free_area(c[a.chunk], a.off))
              /\ call' = Idle
    BY <1>1, <1>8, <2>3, <2>5, <2>6 DEF populate, Update
  <2>8. CASE /\ chunk' = [c EXCEPT ![a.chunk] = pcpu_chunk_populated(@, rs, re)]
             /\ call' = [cl EXCEPT !.page = re + 1] /\ pcpu_slot' = s
    <3>1. Inv([c EXCEPT ![a.chunk] = pcpu_chunk_populated(@, rs, re)], s,
              [at |-> "populate", area |-> a, page |-> re + 1], h)
      <4>1. MissingIn(c, a, p) = <<rs, re>> /\ rs < re
        BY <2>4, <2>5, <2>7
      <4> QED BY <1>2, <2>2, <4>1, PopulatedOk
    <3>2. [cl EXCEPT !.page = re + 1] = [at |-> "populate", area |-> a, page |-> re + 1]
      BY <2>2
    <3> QED BY <2>7, <2>8, <3>1, <3>2 DEF IInv
  <2>9. CASE /\ chunk' = [c EXCEPT ![a.chunk] = pcpu_free_area(c[a.chunk], a.off)]
             /\ pcpu_slot' = pcpu_chunk_relocate(s, a.chunk, pcpu_chunk_slot(c[a.chunk]),
                                                 pcpu_free_area(c[a.chunk], a.off))
             /\ call' = Idle
    <3>1. LET ch == pcpu_free_area(c[a.chunk], a.off)
          IN  Inv([c EXCEPT ![a.chunk] = ch],
                  pcpu_chunk_relocate(s, a.chunk, pcpu_chunk_slot(c[a.chunk]), ch), Idle, h)
      BY <1>2, <2>2, GiveUpOk
    <3> QED BY <2>7, <2>9, <3>1 DEF IInv
  <2> QED BY <2>7, <2>8, <2>9
<1>9. CASE populated_all
  <2>1. cl.at = "populate"
    BY <1>1, <1>9 DEF populated_all
  <2>2. PICK a \in AreaRec \ h, p \in Nat :
           cl = [at |-> "populate", area |-> a, page |-> p] /\ Populating(c, a, p)
    BY <1>2, <2>1, CallIs
  <2>3. cl.area = a /\ cl.page = p
    BY <2>2
  <2>4. Missing(call.area, call.page) = MissingIn(c, a, p)
    BY <1>1, <2>3 DEF Missing, MissingIn
  <2>5. /\ MissingIn(c, a, p)[1] >= MissingIn(c, a, p)[2]
        /\ held' = h \cup {a} /\ call' = Idle /\ chunk' = c /\ pcpu_slot' = s
    BY <1>1, <1>9, <2>3, <2>4 DEF populated_all
  <2>6. Inv(c, s, Idle, h \cup {a})
    BY <1>2, <2>2, <2>5, AllPopulatedOk
  <2> QED BY <2>5, <2>6 DEF IInv
<1>10. ASSUME NEW a \in held, free_percpu(a) PROVE IInv'
  <2>1. /\ a \in h /\ held' = h \ {a} /\ call' = cl
        /\ chunk' = [c EXCEPT ![a.chunk] = pcpu_free_area(c[a.chunk], a.off)]
        /\ pcpu_slot' = pcpu_chunk_relocate(s, a.chunk, pcpu_chunk_slot(c[a.chunk]),
                                            pcpu_free_area(c[a.chunk], a.off))
    BY <1>1, <1>10 DEF free_percpu, Update
  <2>2. LET ch == pcpu_free_area(c[a.chunk], a.off)
        IN  Inv([c EXCEPT ![a.chunk] = ch],
                pcpu_chunk_relocate(s, a.chunk, pcpu_chunk_slot(c[a.chunk]), ch), cl, h \ {a})
    BY <1>2, <2>1, FreeOfHeld
  <2> QED BY <2>1, <2>2 DEF IInv
<1>11. CASE UNCHANGED vars
  BY <1>11 DEF vars, IInv
<1> QED BY <1>3, <1>4, <1>5, <1>6, <1>7, <1>8, <1>9, <1>10, <1>11 DEF Next

(* Every state satisfies the inductive invariant. *)
THEOREM Invariance == Spec => []IInv
<1>1. Init => IInv
  BY InitInv
<1>2. IInv /\ [Next]_vars => IInv'
  BY NextInv
<1> QED BY <1>1, <1>2, PTL DEF Spec

-----------------------------------------------------------------------------
(* The properties *)

LEMMA TypeOfChunk ==
    ASSUME NEW ch, ChunkOk(ch)
    PROVE  LET bits == pcpu_chunk_map_bits(ch)
           IN  /\ ch.alloc_map \subseteq 0 .. bits - 1
               /\ ch.bound_map \subseteq 0 .. bits
               /\ ch.populated \subseteq 0 .. ch.nr_pages - 1
               /\ {ch.contig_bits, ch.contig_bits_start, ch.first_bit} \subseteq 0 .. bits
               /\ ch.free_bytes \in 0 .. bits * PCPU_MIN_ALLOC_SIZE
               /\ \A i \in DOMAIN ch.md_blocks : \A x \in DOMAIN FreeBlock :
                     ch.md_blocks[i][x] \in 0 .. Blk
<1>1. PICK N, k, M : N = ch.nr_pages * Blk /\ k = Cardinality(FreeBits(ch)) /\ M = PCPU_MIN_ALLOC_SIZE
  OBVIOUS
<1>2. Base(ch) /\ ch.free_bytes = k * M
  BY <1>1 DEF ChunkOk, BytesOk
<1>3. N \in Nat /\ k \in Nat /\ k <= N /\ M \in Nat
  BY <1>1, <1>2, PopFinite, FreeBitsFinite, Sizes
<1>4. pcpu_chunk_map_bits(ch) = N
  BY <1>1 DEF pcpu_chunk_map_bits
<1>5. /\ ch.alloc_map \in SUBSET (0 .. N - 1) /\ ch.bound_map \in SUBSET (0 .. N)
      /\ ch.populated \in SUBSET (0 .. ch.nr_pages - 1)
      /\ ch.md_blocks \in [0 .. ch.nr_pages - 1 -> BlockRec]
  BY <1>1, <1>2 DEF Base, ChunkHints
<1>6. /\ ch.contig_bits \in Nat /\ ch.contig_bits_start \in Nat /\ ch.first_bit \in Nat
      /\ ch.contig_bits <= N /\ ch.contig_bits_start <= N /\ ch.first_bit <= N
  BY <1>1, <1>2 DEF Base, ChunkRec
<1>7. {ch.contig_bits, ch.contig_bits_start, ch.first_bit} \subseteq 0 .. N
  BY <1>3, <1>6
<1>8. ch.free_bytes \in 0 .. N * M
  <2>1. k * M <= N * M /\ k * M \in Nat /\ N * M \in Nat
    BY <1>3, MulLeq
  <2> QED BY <1>2, <2>1
<1>9. ASSUME NEW i \in DOMAIN ch.md_blocks, NEW x \in DOMAIN FreeBlock
      PROVE  ch.md_blocks[i][x] \in 0 .. Blk
  <2>1. PICK b \in BlockRec : b = ch.md_blocks[i]
    BY <1>5, <1>9
  <2>2. x \in {"first_free", "left_free", "right_free", "contig_hint", "contig_hint_start"}
    BY <1>9 DEF FreeBlock
  <2>3. b[x] \in 0 .. Blk
    BY <2>2 DEF BlockRec
  <2> QED BY <2>1, <2>3
<1> QED BY <1>1, <1>4, <1>5, <1>7, <1>8, <1>9

(* Every map, hint and count that pcpu_alloc_area and pcpu_free_area write stays inside its
   block or its chunk. *)
THEOREM TypeCorrect == Spec => []TypeOK
<1>1. IInv => TypeOK
  <2> SUFFICES ASSUME IInv PROVE TypeOK
    OBVIOUS
  <2>1. StateInv(chunk, pcpu_slot, Owned(held, call)) /\ CallOk(chunk, call, held)
    BY DEF IInv, Inv
  <2>2. Len(chunk) \in 1 .. MaxChunks /\ DOMAIN chunk = 1 .. Len(chunk)
    BY <2>1 DEF StateInv
  <2>3. ASSUME NEW c \in DOMAIN chunk
        PROVE  LET ch == chunk[c] bits == pcpu_chunk_map_bits(ch) IN
               /\ ch.alloc_map \subseteq 0 .. bits - 1
               /\ ch.bound_map \subseteq 0 .. bits
               /\ ch.populated \subseteq 0 .. ch.nr_pages - 1
               /\ {ch.contig_bits, ch.contig_bits_start, ch.first_bit} \subseteq 0 .. bits
               /\ ch.free_bytes \in 0 .. bits * PCPU_MIN_ALLOC_SIZE
               /\ \A i \in DOMAIN ch.md_blocks : \A x \in DOMAIN FreeBlock :
                     ch.md_blocks[i][x] \in 0 .. Blk
    <3>1. PICK ch : ch = chunk[c]
      OBVIOUS
    <3>2. ChunkOk(ch)
      BY <2>1, <2>2, <2>3, <3>1 DEF StateInv
    <3>3. LET bits == pcpu_chunk_map_bits(ch)
          IN  /\ ch.alloc_map \subseteq 0 .. bits - 1
              /\ ch.bound_map \subseteq 0 .. bits
              /\ ch.populated \subseteq 0 .. ch.nr_pages - 1
              /\ {ch.contig_bits, ch.contig_bits_start, ch.first_bit} \subseteq 0 .. bits
              /\ ch.free_bytes \in 0 .. bits * PCPU_MIN_ALLOC_SIZE
              /\ \A i \in DOMAIN ch.md_blocks : \A x \in DOMAIN FreeBlock :
                    ch.md_blocks[i][x] \in 0 .. Blk
      BY <3>2, TypeOfChunk
    <3> QED BY <3>1, <3>3
  <2>4. pcpu_slot \in [0 .. pcpu_nr_slots - 1 -> Seq(DOMAIN chunk)]
    BY <2>1, <2>2 DEF StateInv, SlotsOk
  <2>5. call.at \in {"idle", "create", "restart", "new", "populate"}
    BY <2>1 DEF CallOk, Idle
  <2> QED BY <2>2, <2>3, <2>4, <2>5 DEF TypeOK
<1> QED BY <1>1, Invariance, PTL

(* What MapOk says of a chunk, in the words of AreasExact *)
LEMMA AreasOfChunk ==
    ASSUME NEW ch, ChunkOk(ch), NEW hid, NEW S, MapOk(ch, hid, S)
    PROVE  /\ ch.alloc_map = hid \cup UNION {Bits(a.off, a.bits) : a \in S}
           /\ \A a \in S :
                 /\ Bits(a.off, a.bits) \subseteq (0 .. pcpu_chunk_map_bits(ch) - 1) \ hid
                 /\ \A b \in S \ {a} : Bits(a.off, a.bits) \cap Bits(b.off, b.bits) = {}
                 /\ find_next_bit(ch.bound_map, pcpu_chunk_map_bits(ch), a.off + 1)
                       = a.off + a.bits
<1>1. PICK N, A : N = ch.nr_pages * Blk /\ A = ch.alloc_map
  OBVIOUS
<1>2. Base(ch) /\ N \in Nat /\ A \in SUBSET (0 .. N - 1) /\ pcpu_chunk_map_bits(ch) = N
  <2>1. Base(ch)
    BY DEF ChunkOk
  <2> QED BY <1>1, <2>1, PopFinite DEF Base, ChunkHints, pcpu_chunk_map_bits
<1>3. ASSUME NEW a \in S
      PROVE  /\ a \in AreaRec /\ AreaOk(ch, hid, a) /\ a.off \in Nat /\ a.bits \in Nat
             /\ Bits(a.off, a.bits) = a.off .. a.off + a.bits - 1
             /\ a.off + a.bits <= N /\ AllSet(A, a.off, a.off + a.bits)
             /\ Clear(hid, a.off, a.off + a.bits)
  <2>1. a \in AreaRec /\ AreaOk(ch, hid, a)
    BY <1>3 DEF MapOk
  <2>2. a.off \in Nat /\ a.bits \in Nat
    BY <2>1 DEF AreaRec
  <2> QED BY <1>1, <2>1, <2>2 DEF Bits, AreaOk
<1>4. A = hid \cup UNION {Bits(a.off, a.bits) : a \in S}
  <2>1. ASSUME NEW x \in A, x \notin hid PROVE x \in UNION {Bits(a.off, a.bits) : a \in S}
    <3>1. PICK a \in S : x \in a.off .. a.off + a.bits - 1
      BY <1>1, <2>1 DEF MapOk
    <3>2. x \in Bits(a.off, a.bits)
      BY <1>3, <3>1
    <3> QED BY <3>2
  <2>2. ASSUME NEW x \in UNION {Bits(a.off, a.bits) : a \in S} PROVE x \in A
    <3>1. PICK a \in S : x \in Bits(a.off, a.bits)
      BY <2>2
    <3>2. /\ x \in a.off .. a.off + a.bits - 1 /\ AllSet(A, a.off, a.off + a.bits)
          /\ a.off \in Nat /\ a.bits \in Nat
      BY <1>3, <3>1
    <3> QED BY <3>2 DEF AllSet
  <2>3. hid \subseteq A
    BY <1>1 DEF MapOk
  <2> QED BY <2>1, <2>2, <2>3
<1>5. ASSUME NEW a \in S
      PROVE  Bits(a.off, a.bits) \subseteq (0 .. N - 1) \ hid
  <2> SUFFICES ASSUME NEW x \in Bits(a.off, a.bits) PROVE x \in 0 .. N - 1 /\ x \notin hid
    OBVIOUS
  <2>1. /\ x \in a.off .. a.off + a.bits - 1 /\ a.off \in Nat /\ a.bits \in Nat
        /\ a.off + a.bits <= N /\ Clear(hid, a.off, a.off + a.bits)
    BY <1>3, <1>5
  <2>2. x \in 0 .. N - 1
    BY <1>2, <2>1
  <2>3. x \notin hid
    BY <2>1 DEF Clear
  <2> QED BY <2>2, <2>3
<1>6. ASSUME NEW a \in S, NEW b \in S \ {a}
      PROVE  Bits(a.off, a.bits) \cap Bits(b.off, b.bits) = {}
  <2>1. Apart(a, b)
    BY <1>6 DEF MapOk
  <2>2. /\ a.off \in Nat /\ a.bits \in Nat /\ b.off \in Nat /\ b.bits \in Nat
        /\ Bits(a.off, a.bits) = a.off .. a.off + a.bits - 1
        /\ Bits(b.off, b.bits) = b.off .. b.off + b.bits - 1
    BY <1>3, <1>6
  <2> QED BY <2>1, <2>2 DEF Apart
<1>7. ASSUME NEW a \in S
      PROVE  find_next_bit(ch.bound_map, pcpu_chunk_map_bits(ch), a.off + 1) = a.off + a.bits
  <2>1. a \in AreaRec /\ AreaOk(ch, hid, a)
    BY <1>3, <1>7
  <2> QED BY <1>2, <2>1, AreaLength
<1> QED BY <1>1, <1>2, <1>4, <1>5, <1>6, <1>7

(* Areas share no bit with each other or with what is hidden, alloc_map says exactly which
   bits they take, and the boundary bits that pcpu_free_area reads end each where it ends;
   what a caller of alloc_percpu has is populated. *)
THEOREM ExactAreas == Spec => []AreasExact
<1>1. IInv => AreasExact
  <2> SUFFICES ASSUME IInv, NEW c \in DOMAIN chunk
               PROVE  LET ch == chunk[c] IN
                      /\ ch.alloc_map = Hidden(c) \cup UNION {Bits(a.off, a.bits) : a \in Areas(c)}
                      /\ \A a \in Areas(c) :
                            /\ Bits(a.off, a.bits) \subseteq (0 .. pcpu_chunk_map_bits(ch) - 1) \ Hidden(c)
                            /\ \A b \in Areas(c) \ {a} : Bits(a.off, a.bits) \cap Bits(b.off, b.bits) = {}
                            /\ find_next_bit(ch.bound_map, pcpu_chunk_map_bits(ch), a.off + 1)
                                  = a.off + a.bits
                      /\ \A a \in held : a.chunk = c => PagesUnder(a.off, a.bits) \subseteq ch.populated
    BY DEF AreasExact
  <2>1. StateInv(chunk, pcpu_slot, Owned(held, call)) /\ HeldOk(chunk, held)
    BY DEF IInv, Inv
  <2>2. PICK S, hid, ch : S = Areas(c) /\ hid = Hidden(c) /\ ch = chunk[c]
    OBVIOUS
  <2>3. S = AreasOf(Owned(held, call), c)
    BY <2>2 DEF Areas, AreasOf, Owned
  <2>4. ChunkOk(ch) /\ MapOk(ch, hid, S)
    BY <2>1, <2>2, <2>3 DEF StateInv
  <2>5. /\ ch.alloc_map = hid \cup UNION {Bits(a.off, a.bits) : a \in S}
        /\ \A a \in S :
              /\ Bits(a.off, a.bits) \subseteq (0 .. pcpu_chunk_map_bits(ch) - 1) \ hid
              /\ \A b \in S \ {a} : Bits(a.off, a.bits) \cap Bits(b.off, b.bits) = {}
              /\ find_next_bit(ch.bound_map, pcpu_chunk_map_bits(ch), a.off + 1)
                    = a.off + a.bits
    BY <2>4, AreasOfChunk
  <2>6. \A a \in held : a.chunk = c => PagesUnder(a.off, a.bits) \subseteq ch.populated
    BY <2>1, <2>2 DEF HeldOk
  <2> QED BY <2>2, <2>5, <2>6
<1> QED BY <1>1, Invariance, PTL

(* The hints of a block are what a scan of its bitmap would give. *)
LEMMA HintsOfBlock ==
    ASSUME NEW b, NEW map \in SUBSET (0 .. Blk - 1), BlockInv(b, map)
    PROVE  /\ b.contig_hint = Max(FreeRuns(map, Blk))
           /\ Bits(b.contig_hint_start, b.contig_hint) \cap map = {}
           /\ b.left_free = find_next_bit(map, Blk, 0)
           /\ b.right_free = Blk - Max({x + 1 : x \in map} \cup {0})
           /\ Bits(0, b.first_free) \subseteq map
<1>1. PICK h, s, l, r, f : /\ h = b.contig_hint /\ s = b.contig_hint_start /\ l = b.left_free
                           /\ r = b.right_free /\ f = b.first_free
  OBVIOUS
<1>2. /\ Blk \in Nat /\ h \in 0 .. Blk /\ s \in 0 .. Blk /\ l \in 0 .. Blk /\ r \in 0 .. Blk
      /\ f \in 0 .. Blk
  BY <1>1, Sizes DEF BlockInv, BlockRec
<1>3. /\ s + h <= Blk /\ Clear(map, s, s + h) /\ Clear(map, 0, l) /\ (l = Blk \/ l \in map)
      /\ Clear(map, Blk - r, Blk) /\ (r = Blk \/ Blk - r - 1 \in map) /\ AllSet(map, 0, f)
  BY <1>1 DEF BlockInv, HintOk, LeftOk, RightOk, FirstOk
<1>4. \A x, y \in 0 .. Blk : Clear(map, x, y) => y - x <= h
  BY <1>1 DEF BlockInv, LongestOk
<1>5. Bits(s, h) \cap map = {}
  BY <1>2, <1>3 DEF Bits, Clear
<1>6. h = Max(FreeRuns(map, Blk))
  <2>1. PICK S : S = FreeRuns(map, Blk)
    OBVIOUS
  <2>2. S \in SUBSET Int
    BY <1>2, <2>1 DEF FreeRuns
  <2>3. h \in S
    <3>1. s \in 0 .. Blk - h
      BY <1>2, <1>3
    <3> QED BY <1>2, <1>5, <2>1, <3>1 DEF FreeRuns
  <2>4. ASSUME NEW k \in S PROVE k <= h
    <3>1. k \in 0 .. Blk
      BY <2>1, <2>4 DEF FreeRuns
    <3>2. PICK x \in 0 .. Blk - k : Bits(x, k) \cap map = {}
      BY <2>1, <2>4 DEF FreeRuns
    <3>3. x \in 0 .. Blk /\ x + k \in 0 .. Blk /\ k \in Int /\ x \in Int
      BY <1>2, <3>1, <3>2
    <3>4. Clear(map, x, x + k)
      BY <3>2, <3>3 DEF Bits, Clear
    <3>5. (x + k) - x <= h
      BY <1>4, <3>3, <3>4
    <3> QED BY <1>2, <3>3, <3>5
  <2>5. Max(S) = h
    BY <2>2, <2>3, <2>4, MaxIs
  <2> QED BY <2>1, <2>5
<1>7. l = find_next_bit(map, Blk, 0)
  <2>1. PICK z : z = find_next_bit(map, Blk, 0)
    OBVIOUS
  <2>2. map \in SUBSET Nat /\ 0 \in Nat
    BY <1>2
  <2>3. z \in Nat /\ z <= Blk /\ (z < Blk => 0 <= z /\ z \in map) /\ Clear(map, 0, z)
    BY <1>2, <2>1, <2>2, FindBit
  <2>4. z = l
    BY <1>2, <1>3, <2>3 DEF Clear
  <2> QED BY <2>1, <2>4
<1>8. r = Blk - Max({x + 1 : x \in map} \cup {0})
  <2>1. PICK S : S = {x + 1 : x \in map} \cup {0}
    OBVIOUS
  <2>2. PICK m \in Int : m = Blk - r
    BY <1>2
  <2>3. S \in SUBSET Int
    BY <1>2, <2>1
  <2>4. m \in S
    <3>1. CASE r = Blk
      BY <1>2, <2>1, <2>2, <3>1
    <3>2. CASE Blk - r - 1 \in map
      <4>1. (Blk - r - 1) + 1 \in {x + 1 : x \in map}
        BY <3>2
      <4>2. (Blk - r - 1) + 1 = m
        BY <1>2, <2>2
      <4> QED BY <2>1, <4>1, <4>2
    <3> QED BY <1>3, <3>1, <3>2
  <2>5. ASSUME NEW y \in S PROVE y <= m
    <3>1. CASE y = 0
      BY <1>2, <2>2, <3>1
    <3>2. ASSUME NEW x \in map, y = x + 1 PROVE y <= m
      <4>1. x \in 0 .. Blk - 1
        OBVIOUS
      <4>2. ~ (x >= m)
        BY <1>2, <1>3, <2>2, <4>1 DEF Clear
      <4> QED BY <1>2, <3>2, <4>1, <4>2
    <3> QED BY <2>1, <2>5, <3>1, <3>2
  <2>6. Max(S) = m
    BY <2>3, <2>4, <2>5, MaxIs
  <2>7. r = Blk - m
    BY <1>2, <2>2
  <2> QED BY <2>1, <2>6, <2>7
<1>9. Bits(0, f) \subseteq map
  BY <1>2, <1>3 DEF Bits, AllSet
<1> QED BY <1>1, <1>5, <1>6, <1>7, <1>8, <1>9

(* The hints that pcpu_block_update_hint_alloc and pcpu_block_update_hint_free keep up to
   date are at all times those that a scan of the block's bitmap would give. *)
THEOREM ExactHints == Spec => []HintsExact
<1>1. IInv => HintsExact
  <2> SUFFICES ASSUME IInv, NEW c \in DOMAIN chunk, NEW i \in DOMAIN chunk[c].md_blocks
               PROVE  LET b == chunk[c].md_blocks[i]
                          map == pcpu_index_alloc_map(chunk[c], i)
                      IN  /\ b.contig_hint = Max(FreeRuns(map, Blk))
                          /\ Bits(b.contig_hint_start, b.contig_hint) \cap map = {}
                          /\ b.left_free = find_next_bit(map, Blk, 0)
                          /\ b.right_free = Blk - Max({x + 1 : x \in map} \cup {0})
                          /\ Bits(0, b.first_free) \subseteq map
    BY DEF HintsExact
  <2>1. PICK ch, b, map : ch = chunk[c] /\ b = ch.md_blocks[i] /\ map = pcpu_index_alloc_map(ch, i)
    OBVIOUS
  <2>2. ChunkOk(ch)
    BY <2>1 DEF IInv, Inv, StateInv
  <2>3. i \in 0 .. ch.nr_pages - 1
    BY <2>1, <2>2 DEF ChunkOk, Base
  <2>4. BlockInv(b, map)
    BY <2>1, <2>2, <2>3 DEF ChunkOk, Base, ChunkHints
  <2>5. map \in SUBSET (0 .. Blk - 1)
    BY <2>1 DEF pcpu_index_alloc_map
  <2>6. /\ b.contig_hint = Max(FreeRuns(map, Blk))
        /\ Bits(b.contig_hint_start, b.contig_hint) \cap map = {}
        /\ b.left_free = find_next_bit(map, Blk, 0)
        /\ b.right_free = Blk - Max({x + 1 : x \in map} \cup {0})
        /\ Bits(0, b.first_free) \subseteq map
    BY <2>4, <2>5, HintsOfBlock
  <2> QED BY <2>1, <2>6
<1> QED BY <1>1, Invariance, PTL

(* The free bits of a chunk and what follows from them *)
LEMMA CountsOfChunk ==
    ASSUME NEW ch, ChunkOk(ch)
    PROVE  LET free == (0 .. pcpu_chunk_map_bits(ch) - 1) \ ch.alloc_map
           IN  /\ ch.free_bytes = Cardinality(free) * PCPU_MIN_ALLOC_SIZE
               /\ \A b \in free : ch.first_bit <= b
               /\ free # {} => pcpu_chunk_slot(ch) # 0
               /\ ch.nr_populated = Cardinality(ch.populated)
               /\ ch.immutable => ch.populated = 0 .. ch.nr_pages - 1
               /\ Cardinality({p \in ch.populated : Bits(p * Blk, Blk) \subseteq free})
                     <= ch.nr_empty_pop_pages
<1>1. PICK N, F, k, M : /\ N = ch.nr_pages * Blk /\ F = FreeBits(ch) /\ k = Cardinality(F)
                        /\ M = PCPU_MIN_ALLOC_SIZE
  OBVIOUS
<1>2. Base(ch) /\ ch.free_bytes = k * M /\ ContigOk(ch) /\ EmptyOk(ch)
  BY <1>1 DEF ChunkOk, BytesOk
<1>3. N \in Nat /\ k \in Nat /\ M \in Nat /\ M >= 1 /\ IsFiniteSet(F) /\ Blk \in Nat
  BY <1>1, <1>2, PopFinite, FreeBitsFinite, Sizes
<1>4. F = (0 .. N - 1) \ ch.alloc_map /\ pcpu_chunk_map_bits(ch) = N
  BY <1>1 DEF FreeBits, pcpu_chunk_map_bits
<1>5. \A b \in F : ch.first_bit <= b
  <2>1. ch.first_bit \in Nat /\ AllSet(ch.alloc_map, 0, ch.first_bit)
    BY <1>2 DEF Base, ChunkRec
  <2> SUFFICES ASSUME NEW b \in F, b < ch.first_bit PROVE FALSE
    BY <1>3, <1>4, <2>1
  <2>2. b \in 0 .. ch.first_bit - 1
    BY <1>3, <1>4, <2>1
  <2> QED BY <1>4, <2>1, <2>2 DEF AllSet
<1>6. F # {} => pcpu_chunk_slot(ch) # 0
  <2> SUFFICES ASSUME F # {} PROVE pcpu_chunk_slot(ch) # 0
    OBVIOUS
  <2>1. k # 0
    BY <1>1, <1>3, FS_EmptySet
  <2>2. 1 * M <= k * M /\ k * M \in Int
    BY <1>3, <2>1, MulLeq
  <2>3. ch.free_bytes >= PCPU_MIN_ALLOC_SIZE
    BY <1>1, <1>2, <1>3, <2>2
  <2>4. ch.contig_bits # 0
    <3>1. ~ AllSet(ch.alloc_map, 0, N)
      BY <1>3, <1>4 DEF AllSet
    <3> QED BY <1>1, <1>2, <3>1 DEF ContigOk
  <2>5. ch.free_bytes \in 0 .. UnitSize
    BY SlotOf
  <2> QED BY <2>3, <2>4, <2>5, ChunkSlot
<1>7. Cardinality({p \in ch.populated : Bits(p * Blk, Blk) \subseteq F}) <= ch.nr_empty_pop_pages
  <2>1. PICK E : E = {p \in ch.populated : Bits(p * Blk, Blk) \subseteq F}
    OBVIOUS
  <2>2. E \subseteq EmptyPop(ch)
    <3> SUFFICES ASSUME NEW p \in ch.populated, Bits(p * Blk, Blk) \subseteq F PROVE FreePage(ch, p)
      BY <2>1 DEF EmptyPop
    <3>1. Bits(p * Blk, Blk) = p * Blk .. p * Blk + Blk - 1
      BY DEF Bits
    <3>2. \A x \in Bits(p * Blk, Blk) : x \notin ch.alloc_map
      BY <1>4
    <3>3. \A x \in p * Blk .. p * Blk + Blk - 1 : x \notin ch.alloc_map
      BY <3>1, <3>2, Zenon
    <3>4. p \in Int /\ p * Blk \in Int
      BY <1>2, <1>3 DEF Base, ChunkRec
    <3> QED BY <1>3, <3>3, <3>4 DEF FreePage, Clear
  <2>3. E \in SUBSET EmptyPop(ch) /\ IsFiniteSet(EmptyPop(ch))
    BY <1>2, <2>2, PopFinite
  <2>4. Cardinality(E) <= Cardinality(EmptyPop(ch)) /\ IsFiniteSet(E)
    BY <2>3, FS_Subset
  <2>5. Cardinality(E) \in Nat /\ Cardinality(EmptyPop(ch)) \in Nat /\ ch.nr_empty_pop_pages \in Nat
    BY <1>2, <2>3, <2>4, FS_CardinalityType DEF Base, ChunkRec
  <2>6. Cardinality(EmptyPop(ch)) <= ch.nr_empty_pop_pages
    BY <1>2 DEF EmptyOk
  <2> QED BY <2>1, <2>4, <2>5, <2>6
<1>8. /\ ch.nr_populated = Cardinality(ch.populated)
      /\ ch.immutable => ch.populated = 0 .. ch.nr_pages - 1
  BY <1>2 DEF Base
<1> QED BY <1>1, <1>2, <1>4, <1>5, <1>6, <1>7, <1>8

LEMMA OnceIsOne ==
    ASSUME NEW list, NEW c
    PROVE  /\ InOnce(list, c) => Cardinality({i \in DOMAIN list : list[i] = c}) = 1
           /\ NotIn(list, c) => Cardinality({i \in DOMAIN list : list[i] = c}) = 0
<1>1. ASSUME InOnce(list, c) PROVE Cardinality({i \in DOMAIN list : list[i] = c}) = 1
  <2>1. PICK j \in DOMAIN list : list[j] = c /\ \A i \in DOMAIN list : list[i] = c => i = j
    BY <1>1 DEF InOnce
  <2>2. {i \in DOMAIN list : list[i] = c} = {j}
    BY <2>1
  <2> QED BY <2>2, FS_Singleton
<1>2. ASSUME NotIn(list, c) PROVE Cardinality({i \in DOMAIN list : list[i] = c}) = 0
  <2>1. {i \in DOMAIN list : list[i] = c} = {}
    BY <1>2 DEF NotIn
  <2> QED BY <2>1, FS_EmptySet
<1> QED BY <1>1, <1>2

(* free_bytes, nr_populated and the lists that pcpu_chunk_relocate keeps are exact, nothing
   is free below first_bit, and pages that are populated and empty are all counted. *)
THEOREM ExactCounts == Spec => []CountsExact
<1>1. IInv => CountsExact
  <2> SUFFICES ASSUME IInv, NEW c \in DOMAIN chunk
               PROVE  LET ch == chunk[c]
                          free == (0 .. pcpu_chunk_map_bits(ch) - 1) \ ch.alloc_map
                      IN  /\ ch.free_bytes = Cardinality(free) * PCPU_MIN_ALLOC_SIZE
                          /\ \A b \in free : ch.first_bit <= b
                          /\ \A s \in DOMAIN pcpu_slot :
                                Cardinality({i \in DOMAIN pcpu_slot[s] : pcpu_slot[s][i] = c})
                                  = IF s = pcpu_chunk_slot(ch) THEN 1 ELSE 0
                          /\ free # {} => pcpu_chunk_slot(ch) # 0
                          /\ ch.nr_populated = Cardinality(ch.populated)
                          /\ ch.immutable => ch.populated = 0 .. ch.nr_pages - 1
                          /\ Cardinality({p \in ch.populated : Bits(p * Blk, Blk) \subseteq free})
                                <= ch.nr_empty_pop_pages
    BY DEF CountsExact
  <2>1. StateInv(chunk, pcpu_slot, Owned(held, call)) /\ c \in 1 .. Len(chunk)
    BY DEF IInv, Inv, StateInv
  <2>2. PICK ch : ch = chunk[c]
    OBVIOUS
  <2>3. ChunkOk(ch)
    BY <2>1, <2>2 DEF StateInv
  <2>4. LET free == (0 .. pcpu_chunk_map_bits(ch) - 1) \ ch.alloc_map
        IN  /\ ch.free_bytes = Cardinality(free) * PCPU_MIN_ALLOC_SIZE
            /\ \A b \in free : ch.first_bit <= b
            /\ free # {} => pcpu_chunk_slot(ch) # 0
            /\ ch.nr_populated = Cardinality(ch.populated)
            /\ ch.immutable => ch.populated = 0 .. ch.nr_pages - 1
            /\ Cardinality({p \in ch.populated : Bits(p * Blk, Blk) \subseteq free})
                  <= ch.nr_empty_pop_pages
    BY <2>3, CountsOfChunk
  <2>5. ASSUME NEW s \in DOMAIN pcpu_slot
        PROVE  Cardinality({i \in DOMAIN pcpu_slot[s] : pcpu_slot[s][i] = c})
                  = IF s = pcpu_chunk_slot(ch) THEN 1 ELSE 0
    <3>1. s \in 0 .. pcpu_nr_slots - 1 /\ InSlot(pcpu_slot, c, pcpu_chunk_slot(ch))
      BY <2>1, <2>2, <2>5 DEF StateInv, SlotsOk
    <3>2. IF s = pcpu_chunk_slot(ch) THEN InOnce(pcpu_slot[s], c) ELSE NotIn(pcpu_slot[s], c)
      BY <3>1 DEF InSlot
    <3> QED BY <3>2, OnceIsOne
  <2> QED BY <2>2, <2>4, <2>5
<1> QED BY <1>1, Invariance, PTL

LEMMA FreeChunk ==
    ASSUME NEW ch, ChunkOk(ch), pcpu_chunk_slot(ch) = pcpu_nr_slots - 1, NEW req \in Requests
    PROVE  Place(ch, req, FALSE) >= 0
<1>1. PICK N, U, k, M : /\ N = ch.nr_pages * Blk /\ k = Cardinality(FreeBits(ch))
                        /\ M = PCPU_MIN_ALLOC_SIZE /\ U = pcpu_unit_pages * Blk
  OBVIOUS
<1>2. Base(ch) /\ ch.free_bytes = k * M /\ ContigOk(ch)
  BY <1>1 DEF ChunkOk, BytesOk
<1>3. N \in Nat /\ k \in Nat /\ k <= N /\ M \in Nat /\ M >= 1 /\ U \in Nat
  BY <1>1, <1>2, PopFinite, FreeBitsFinite, Sizes
<1>4. ch.free_bytes = UnitSize /\ UnitSize = U * M
  BY <1>1, SlotOf, ChunkSlot, Unit
<1>5. N <= U
  <2>1. ch.nr_pages \in Int /\ pcpu_unit_pages \in Int /\ ch.nr_pages <= pcpu_unit_pages
    BY <1>2, Sizes DEF Base
  <2> QED BY <1>1, <2>1, BlockOrder
<1>6. k = U
  <2>1. CASE k < U
    <3>1. k * M + M <= U * M /\ k * M \in Int /\ U * M \in Int
      BY <1>3, <2>1, MulLess
    <3>2. k * M = U * M
      BY <1>2, <1>4
    <3> QED BY <1>3, <3>1, <3>2
  <2> QED BY <1>3, <1>5, <2>1
<1>7. N = U /\ k = N
  BY <1>3, <1>5, <1>6
<1>8. FreeBits(ch) = 0 .. N - 1
  <2>1. N - 1 \in Int /\ 0 \in Int
    BY <1>3
  <2>2. IsFiniteSet(0 .. N - 1) /\ Cardinality(0 .. N - 1) = IF 0 > N - 1 THEN 0 ELSE (N - 1) - 0 + 1
    BY <2>1, FS_Interval
  <2>3. Cardinality(0 .. N - 1) = N
    BY <1>3, <2>2
  <2>4. FreeBits(ch) \in SUBSET (0 .. N - 1)
    BY <1>1 DEF FreeBits
  <2>5. Cardinality(0 .. N - 1) = Cardinality(FreeBits(ch)) => 0 .. N - 1 = FreeBits(ch)
    BY <2>2, <2>4, FS_Subset
  <2> QED BY <1>1, <1>7, <2>3, <2>5
<1>9. \A x \in 0 .. N - 1 : x \notin ch.alloc_map
  BY <1>8 DEF FreeBits
<1>10. Clear(ch.alloc_map, 0, N)
  BY <1>9 DEF Clear
<1>11. ch.first_bit = 0
  <2>1. ch.first_bit \in Nat /\ ch.first_bit <= N /\ AllSet(ch.alloc_map, 0, ch.first_bit)
    BY <1>1, <1>2 DEF Base, ChunkRec
  <2> SUFFICES ASSUME ch.first_bit # 0 PROVE FALSE
    OBVIOUS
  <2>2. 0 \in 0 .. ch.first_bit - 1 /\ 0 \in 0 .. N - 1
    BY <1>3, <2>1
  <2> QED BY <1>9, <2>1, <2>2 DEF AllSet
<1>12. ch.contig_bits = N /\ ch.contig_bits_start = 0
  BY <1>1, <1>2, <1>10 DEF ContigOk
<1>13. ReqBits(req) <= N
  <2>1. ReqBits(req) \in 1 .. U
    BY <1>1, Request
  <2> QED BY <1>3, <1>7, <2>1
<1>14. /\ ChunkHints(ch) /\ ch.populated \in SUBSET Nat /\ ch.first_bit \in Nat
       /\ FALSE \in BOOLEAN
  BY <1>2 DEF Base, ChunkRec
<1>15. PICK p : p = Place(ch, req, FALSE)
  OBVIOUS
<1>16. ~ FALSE /\ ch.first_bit = 0 /\ ReqBits(req) <= ch.nr_pages * Blk
       /\ Clear(ch.alloc_map, 0, ch.nr_pages * Blk)
       /\ ch.contig_bits = ch.nr_pages * Blk /\ ch.contig_bits_start = 0
         => p >= 0
  BY <1>14, <1>15, PlaceOk
<1>17. p >= 0
  BY <1>1, <1>10, <1>11, <1>12, <1>13, <1>16
<1> QED BY <1>15, <1>17

(* A chunk in the last slot, which makes pcpu_alloc search again instead of creating a
   chunk, serves every request: the second search cannot fail on it. *)
THEOREM FreeChunkAlwaysServes == Spec => []FreeChunkServes
<1>1. IInv => FreeChunkServes
  <2> SUFFICES ASSUME IInv, NEW i \in DOMAIN pcpu_slot[pcpu_nr_slots - 1], NEW req \in Requests
               PROVE  Place(chunk[pcpu_slot[pcpu_nr_slots - 1][i]], req, FALSE) >= 0
    BY DEF FreeChunkServes
  <2>1. StateInv(chunk, pcpu_slot, Owned(held, call))
    BY DEF IInv, Inv
  <2>2. PICK last : last = pcpu_nr_slots - 1
    OBVIOUS
  <2>3. last \in 0 .. pcpu_nr_slots - 1
    BY <2>2, SizeSlot
  <2>4. PICK K \in Nat : K = Len(chunk)
    BY <2>1 DEF StateInv
  <2>5. PICK D \in SUBSET Nat : D = 1 .. K
    BY <2>4
  <2>6. PICK list \in Seq(D) : list = pcpu_slot[last]
    BY <2>1, <2>3, <2>4, <2>5 DEF StateInv, SlotsOk
  <2>7. i \in DOMAIN list
    BY <2>2, <2>6
  <2>8. PICK c \in D : c = list[i]
    <3>1. \A j \in DOMAIN list : list[j] \in D
      OBVIOUS
    <3> QED BY <2>7, <3>1
  <2>9. PICK ch : ch = chunk[c]
    OBVIOUS
  <2>10. ChunkOk(ch) /\ InSlot(pcpu_slot, c, pcpu_chunk_slot(ch))
    BY <2>1, <2>4, <2>5, <2>9 DEF StateInv, SlotsOk
  <2>11. ~ NotIn(list, c)
    BY <2>7, <2>8 DEF NotIn
  <2>12. pcpu_chunk_slot(ch) = pcpu_nr_slots - 1
    BY <2>2, <2>3, <2>6, <2>10, <2>11 DEF InSlot
  <2>13. Place(ch, req, FALSE) >= 0
    BY <2>10, <2>12, FreeChunk
  <2> QED BY <2>2, <2>6, <2>8, <2>9, <2>13
<1> QED BY <1>1, Invariance, PTL
=============================================================================
