------------------------------- MODULE Percpu -------------------------------
(***************************************************************************)
(* The dynamic per-CPU allocator, mm/percpu.c: chunks, the bitmap of each  *)
(* with its boundaries, hints per block and per chunk, the slots chunks    *)
(* are kept in, and the pages behind a chunk.                              *)
(*                                                                         *)
(* Offsets and lengths are in bits of PCPU_MIN_ALLOC_SIZE bytes, as in the *)
(* code; a block is a page (PCPU_BITMAP_BLOCK_SIZE = PAGE_SIZE).  There is *)
(* one task, which may wait for memory, and interrupt handlers, which make *)
(* atomic allocations and frees whenever pcpu_lock is not held.  The pages *)
(* and their mapping belong to other parts: here populating a region works *)
(* or fails.  There is no reserved chunk (PERCPU_MODULE_RESERVE is 0) and  *)
(* no balance work (schedule_work is a stub), so chunks are never removed  *)
(* and the counters that only the work reads are left out.                 *)
(***************************************************************************)
EXTENDS Integers, Sequences, FiniteSets, FiniteSetsExt

CONSTANTS
    PCPU_MIN_ALLOC_SIZE,     \* bytes
    PCPU_BITMAP_BLOCK_BITS,  \* bits of a block, a power of two
    PCPU_SLOT_BASE_SHIFT,
    pcpu_unit_pages,         \* blocks of a chunk
    StaticBits, DynBits,     \* first chunk: bits hidden at its start, bits served
    Requests,                \* sizes and alignments asked for, in bytes
    MaxChunks,               \* chunks that the vmalloc area has room for
    MaxAreas                 \* bound on the areas in use

Blk == PCPU_BITMAP_BLOCK_BITS
PAGE_SIZE == Blk * PCPU_MIN_ALLOC_SIZE
pcpu_unit_size == pcpu_unit_pages * PAGE_SIZE

AlignUp(x, a) == ((x + a - 1) \div a) * a
Lower(x, y) == IF x < y THEN x ELSE y

ASSUME PercpuAssumption ==
    /\ {PCPU_MIN_ALLOC_SIZE, Blk, pcpu_unit_pages, MaxChunks, MaxAreas} \subseteq Nat \ {0}
    /\ PCPU_SLOT_BASE_SHIFT \in Nat /\ StaticBits \in Nat /\ DynBits \in Nat \ {0}
    /\ StaticBits + DynBits <= pcpu_unit_pages * Blk
    /\ Requests \subseteq [size : 1 .. pcpu_unit_size, align : 1 .. PAGE_SIZE]
    (* alignments, PAGE_SIZE and PCPU_MIN_ALLOC_SIZE are powers of two *)
    /\ \A r \in Requests : r.align > PCPU_MIN_ALLOC_SIZE =>
          r.align % PCPU_MIN_ALLOC_SIZE = 0 /\ PAGE_SIZE % r.align = 0

VARIABLES
    chunk,      \* the chunks in the order of their creation; the first is chunk 1
    pcpu_slot,  \* lists of chunks by free bytes
    call,       \* what the task's pcpu_alloc is about, and where it is
    held        \* areas callers own: chunk, offset, bits

vars == <<chunk, pcpu_slot, call, held>>

Idle == [at |-> "idle"]

-----------------------------------------------------------------------------
(* Bitmaps, as sets of bits *)

find_next_bit(map, size, from) == Min({b \in map : from <= b /\ b < size} \cup {size})
find_next_zero_bit(map, size, from) == Min({b \in from .. size - 1 : b \notin map} \cup {size})

(* The next run of clear bits, <<rs, re>>; there is none if rs = re. *)
pcpu_next_unpop(map, from, end) ==
    LET rs == find_next_zero_bit(map, end, from)
    IN  <<rs, find_next_bit(map, end, rs + 1)>>

(* __ffs of a number that is not 0 *)
ffs[x \in Nat \ {0}] == IF x % 2 = 1 THEN 0 ELSE 1 + ffs[x \div 2]

pcpu_chunk_map_bits(ch) == ch.nr_pages * Blk
pcpu_off_to_block_index(off) == off \div Blk
pcpu_off_to_block_off(off) == off % Blk
pcpu_index_alloc_map(ch, i) == {b \in 0 .. Blk - 1 : i * Blk + b \in ch.alloc_map}

-----------------------------------------------------------------------------
(* Hints of a block: the longest free run, the free bits at both edges *)

(* Of two runs of one length the better aligned one is remembered. *)
BetterStart(new, old) == old # 0 /\ (new = 0 \/ ffs[new] > ffs[old])

pcpu_block_update_no_edge(b, start, end) ==
    [b EXCEPT !.first_free = Lower(@, start),
              !.contig_hint = IF end - start > @ THEN end - start ELSE @,
              !.contig_hint_start = IF end - start > b.contig_hint THEN start ELSE @]
pcpu_block_update(b, start, end) ==
    LET contig == end - start
    IN  [first_free |-> Lower(b.first_free, start),
         left_free |-> IF start = 0 THEN contig ELSE b.left_free,
         right_free |-> IF end = Blk THEN contig ELSE b.right_free,
         contig_hint |-> IF contig > b.contig_hint THEN contig ELSE b.contig_hint,
         contig_hint_start |->
            IF \/ contig > b.contig_hint
               \/ contig = b.contig_hint /\ BetterStart(start, b.contig_hint_start)
            THEN start ELSE b.contig_hint_start]

(* One round of pcpu_block_refresh_hint takes the next run of clear bits. *)
RefreshStep(map, x) ==
    LET r == pcpu_next_unpop(map, x.rs, Blk)
    IN  IF r[1] < r[2]
        THEN [block |-> pcpu_block_update(x.block, r[1], r[2]), rs |-> r[2] + 1]
        ELSE x

(* b is the block of bitmap map; there are no more than Blk rounds. *)
pcpu_block_refresh_hint(b, map) ==
    LET round[k \in 0 .. Blk] ==
            IF k = 0
            THEN [block |-> [b EXCEPT !.contig_hint = 0, !.left_free = 0, !.right_free = 0],
                  rs |-> b.first_free]
            ELSE RefreshStep(map, round[k - 1])
    IN  round[Blk].block

FreeBlock == [first_free |-> 0, left_free |-> Blk, right_free |-> Blk,
              contig_hint |-> Blk, contig_hint_start |-> 0]
pcpu_init_md_blocks(pages) == [i \in 0 .. pages - 1 |-> FreeBlock]

-----------------------------------------------------------------------------
(* Hints of a chunk: its longest free run, joined across blocks *)

(* One round of pcpu_next_md_free_region: block b, the i-th, when x is known *)
MdStep(b, i, x) ==
    IF x.done THEN x
    ELSE IF x.bits # 0
    THEN [x EXCEPT !.bits = @ + b.left_free, !.done = b.left_free # Blk]
    ELSE IF /\ b.contig_hint # 0
            /\ b.contig_hint_start >= x.block_off
            /\ b.contig_hint + b.contig_hint_start < Blk
    THEN [bit_off |-> i * Blk + b.contig_hint_start, bits |-> b.contig_hint,
          block_off |-> x.block_off, done |-> TRUE]
    ELSE [bit_off |-> (i + 1) * Blk - b.right_free, bits |-> b.right_free,
          block_off |-> 0, done |-> FALSE]

(* Where a search that begins at bit off is before it has looked at a block *)
SearchFrom(off) ==
    [bit_off |-> off, bits |-> 0, block_off |-> pcpu_off_to_block_off(off), done |-> FALSE]

(* The next run from off on, joined across blocks: bit_off and bits *)
pcpu_next_md_free_region(ch, off) ==
    LET scan[i \in 0 .. ch.nr_pages] ==
            IF i <= pcpu_off_to_block_index(off) THEN SearchFrom(off)
            ELSE MdStep(ch.md_blocks[i - 1], i - 1, scan[i - 1])
    IN  scan[ch.nr_pages]

pcpu_chunk_update(ch, bit_off, bits) ==
    [ch EXCEPT !.contig_bits = IF bits > @ THEN bits ELSE @,
               !.contig_bits_start =
                    IF \/ bits > ch.contig_bits
                       \/ bits = ch.contig_bits /\ BetterStart(bit_off, ch.contig_bits_start)
                    THEN bit_off ELSE @]

(* populated pages inside the bits [bit_off, bit_off + bits) *)
pcpu_cnt_pop_pages(ch, bit_off, bits) ==
    Cardinality({p \in ch.populated : bit_off <= p * Blk /\ (p + 1) * Blk <= bit_off + bits})

(* One round of pcpu_for_each_md_free_region in pcpu_chunk_refresh_hint *)
ChunkStep(ch, x) ==
    LET r == pcpu_next_md_free_region(ch, x.bit_off)
        new == pcpu_chunk_update(x.chunk, r.bit_off, r.bits)
    IN  IF r.bit_off < pcpu_chunk_map_bits(ch)
        THEN [chunk |-> [new EXCEPT !.nr_empty_pop_pages =
                            @ + pcpu_cnt_pop_pages(ch, r.bit_off, r.bits)],
              bit_off |-> r.bit_off + r.bits + 1]
        ELSE x

pcpu_chunk_refresh_hint(ch) ==
    LET round[k \in 0 .. pcpu_chunk_map_bits(ch) + 1] ==
            IF k = 0 THEN [chunk |-> [ch EXCEPT !.contig_bits = 0, !.nr_empty_pop_pages = 0],
                           bit_off |-> ch.first_bit]
            ELSE ChunkStep(ch, round[k - 1])
    IN  round[pcpu_chunk_map_bits(ch) + 1].chunk

-----------------------------------------------------------------------------
(* Hints after an allocation of bits [bit_off, bit_off + bits) *)

(* A block edge forgotten: the length is subtracted even if it ends elsewhere. *)
StartBlock_ignores_span(ch, bit_off, bits, only) ==
    LET i == pcpu_off_to_block_index(bit_off)
        s == pcpu_off_to_block_off(bit_off)
    IN  [ch.md_blocks[i] EXCEPT !.left_free = Lower(@, s),
                                !.right_free = Lower(@, Blk - (s + bits))]
(* block the allocation begins in; it is the last one too if only *)
StartBlock(ch, bit_off, bits, only) ==
    LET i == pcpu_off_to_block_index(bit_off)
        s == pcpu_off_to_block_off(bit_off)
        map == pcpu_index_alloc_map(ch, i)
        b == [ch.md_blocks[i] EXCEPT !.first_free =
                IF @ = s THEN find_next_zero_bit(map, Blk, s + bits) ELSE @]
    IN  IF b.contig_hint_start <= s /\ s < b.contig_hint_start + b.contig_hint
        THEN pcpu_block_refresh_hint(b, map)
        ELSE [b EXCEPT !.left_free = Lower(@, s),
                       !.right_free = IF only THEN Lower(@, Blk - (s + bits)) ELSE 0]

Full(b) == [b EXCEPT !.contig_hint = 0, !.left_free = 0, !.right_free = 0]

(* block i an allocation ends in that began in another, e_off its first bit after it *)
EndBlock(ch, i, e_off) ==
    LET map == pcpu_index_alloc_map(ch, i)
        b == [ch.md_blocks[i] EXCEPT !.first_free = find_next_zero_bit(map, Blk, e_off)]
    IN  IF e_off = Blk THEN Full(b)
        ELSE IF e_off > b.contig_hint_start THEN pcpu_block_refresh_hint(b, map)
        ELSE [b EXCEPT !.left_free = 0, !.right_free = Lower(@, Blk - e_off)]

pcpu_block_update_hint_alloc(ch, bit_off, bits) ==
    LET s_index == pcpu_off_to_block_index(bit_off)
        e_index == pcpu_off_to_block_index(bit_off + bits - 1)
        e_off == pcpu_off_to_block_off(bit_off + bits - 1) + 1
        new == [ch EXCEPT !.md_blocks =
                  [i \in DOMAIN @ |->
                     CASE i = s_index -> StartBlock(ch, bit_off, bits, s_index = e_index)
                       [] s_index < i /\ i < e_index -> Full(@[i])
                       [] s_index < i /\ i = e_index -> EndBlock(ch, i, e_off)
                       [] OTHER -> @[i]]]
    IN  IF /\ ch.contig_bits_start <= bit_off
           /\ bit_off < ch.contig_bits_start + ch.contig_bits
        THEN pcpu_chunk_refresh_hint(new) ELSE new

-----------------------------------------------------------------------------
(* Hints after the bits [bit_off, bit_off + bits) were freed *)

(* When the chunk's hint is computed anew: the free made a page free, or it spans
   blocks. *)
NeedsRefresh_spanning_only(start, end, spans) == spans
NeedsRefresh(start, end, spans) == (start = 0 /\ end = Blk) \/ spans

pcpu_block_update_hint_free(ch, bit_off, bits) ==
    LET s_index == pcpu_off_to_block_index(bit_off)
        e_index == pcpu_off_to_block_index(bit_off + bits - 1)
        s_off == pcpu_off_to_block_off(bit_off)
        e_off == pcpu_off_to_block_off(bit_off + bits - 1) + 1
        s == ch.md_blocks[s_index]
        e == ch.md_blocks[e_index]
        start == IF s_off = s.contig_hint + s.contig_hint_start THEN s.contig_hint_start
                 ELSE Max({b + 1 : b \in {x \in pcpu_index_alloc_map(ch, s_index) :
                                             x < s_off}} \cup {0})
        end == IF e_off = e.contig_hint_start THEN e.contig_hint_start + e.contig_hint
               ELSE find_next_bit(pcpu_index_alloc_map(ch, e_index), Blk, e_off)
        new == [ch EXCEPT !.md_blocks =
                  [i \in DOMAIN @ |->
                     CASE i = s_index ->
                            pcpu_block_update(s, start, IF s_index = e_index THEN end ELSE Blk)
                       [] s_index < i /\ i = e_index -> pcpu_block_update(e, 0, end)
                       [] s_index < i /\ i < e_index -> FreeBlock
                       [] OTHER -> @[i]]]
    IN  IF NeedsRefresh(start, end, s_index # e_index) THEN pcpu_chunk_refresh_hint(new)
        ELSE pcpu_chunk_update(new, s_index * Blk + start, new.md_blocks[s_index].contig_hint)

-----------------------------------------------------------------------------
(* Finding room *)

(* One round of pcpu_next_fit_region: block b, the i-th, when x is known *)
FitStep(b, i, n, align, x) ==
    LET joined == x.bits + b.left_free
        skip == AlignUp(b.contig_hint_start, align) - b.contig_hint_start
        right == AlignUp(Blk - b.right_free, align)
    IN  IF x.done THEN x
        ELSE IF x.bits # 0 /\ joined >= n
        THEN [x EXCEPT !.bits = joined, !.done = TRUE]
        ELSE IF x.bits # 0 /\ b.left_free = Blk
        THEN [x EXCEPT !.bits = joined]
        ELSE IF /\ b.contig_hint # 0
                /\ b.contig_hint_start >= x.block_off
                /\ b.contig_hint >= skip + n
        THEN [bit_off |-> i * Blk + b.first_free,
              bits |-> skip + n + b.contig_hint_start - b.first_free,
              block_off |-> x.block_off, done |-> TRUE]
        ELSE [bit_off |-> i * Blk + right, bits |-> Blk - right, block_off |-> 0,
              done |-> Blk - right >= n]

(* Where to search for n bits (bit_off), and the bits looked at; done if there is room *)
pcpu_next_fit_region(ch, n, align, off) ==
    LET scan[i \in 0 .. ch.nr_pages] ==
            IF i <= pcpu_off_to_block_index(off) THEN SearchFrom(off)
            ELSE FitStep(ch.md_blocks[i - 1], i - 1, n, align, scan[i - 1])
    IN  scan[ch.nr_pages]

(* The pages under bits [off, off + n) *)
FirstPage(off) == off \div Blk
LastPage(off, n) == (off + n - 1) \div Blk
PagesUnder(off, n) == FirstPage(off) .. LastPage(off, n)

(* pcpu_is_populated; if not, the bit after the first run of missing pages *)
pcpu_is_populated(ch, off, n) == PagesUnder(off, n) \subseteq ch.populated
NextOff(ch, off, n) ==
    pcpu_next_unpop(ch.populated, FirstPage(off), LastPage(off, n) + 1)[2] * Blk

(* One round of pcpu_find_block_fit: a region with pages missing is passed over, and the
   next one begins in a later block. *)
FindStep(ch, n, align, pop_only, x) ==
    LET r == pcpu_next_fit_region(ch, n, align, x.bit_off)
    IN  IF x.fit # -1 \/ ~ r.done THEN x
        ELSE IF ~ pop_only \/ pcpu_is_populated(ch, r.bit_off, r.bits)
        THEN [x EXCEPT !.fit = r.bit_off]
        ELSE [x EXCEPT !.bit_off = NextOff(ch, r.bit_off, r.bits)]

(* The offset to search from, or -1 *)
pcpu_find_block_fit(ch, n, align, pop_only) ==
    LET skip == AlignUp(ch.contig_bits_start, align) - ch.contig_bits_start
        round[k \in 0 .. ch.nr_pages + 1] ==
            IF k = 0 THEN [bit_off |-> ch.first_bit, fit |-> -1]
            ELSE FindStep(ch, n, align, pop_only, round[k - 1])
    IN  IF skip + n > ch.contig_bits THEN -1 ELSE round[ch.nr_pages + 1].fit

(* bitmap_find_next_zero_area as pcpu_alloc_area calls it, or -1: the search may
   pass the end of the bitmap, and then any bits are there; all clear is the
   worst case. *)
FindArea(ch, n, align, start) ==
    LET fits == {b \in start .. start + Blk :
                    b % align = 0 /\ (b .. b + n - 1) \cap ch.alloc_map = {}}
    IN  IF fits = {} THEN -1 ELSE Min(fits)

-----------------------------------------------------------------------------
(* Slots *)

fls[x \in 0 .. pcpu_unit_size] == IF x = 0 THEN 0 ELSE 1 + fls[x \div 2]
__pcpu_size_to_slot(size) == Max({fls[size] - PCPU_SLOT_BASE_SHIFT + 2, 1})
pcpu_nr_slots == __pcpu_size_to_slot(pcpu_unit_size) + 2
pcpu_size_to_slot(size) ==
    IF size = pcpu_unit_size THEN pcpu_nr_slots - 1 ELSE __pcpu_size_to_slot(size)
pcpu_chunk_slot(ch) ==
    IF ch.free_bytes < PCPU_MIN_ALLOC_SIZE \/ ch.contig_bits = 0 THEN 0
    ELSE pcpu_size_to_slot(ch.free_bytes)

(* list_del of a chunk that is in the list at most once *)
Without(list, c) ==
    LET at == {i \in DOMAIN list : list[i] = c}
        i == CHOOSE i \in at : TRUE
    IN  IF at = {} THEN list
        ELSE [j \in 1 .. Len(list) - 1 |-> IF j < i THEN list[j] ELSE list[j + 1]]

(* chunk c, which was in slot oslot (-1: in none) before it became ch *)
pcpu_chunk_relocate(slots, c, oslot, ch) ==
    LET nslot == pcpu_chunk_slot(ch)
        others == [s \in DOMAIN slots |-> Without(slots[s], c)]
    IN  IF oslot = nslot THEN slots
        ELSE [others EXCEPT ![nslot] = IF oslot < nslot THEN <<c>> \o @ ELSE Append(@, c)]

-----------------------------------------------------------------------------
(* Allocating from and freeing to a chunk, under pcpu_lock *)

Bits(off, n) == off .. off + n - 1

BoundAfter_keep_inner(map, off, n) == map \cup {off, off + n}
BoundAfter(map, off, n) == (map \ Bits(off, n)) \cup {off, off + n}

(* pcpu_alloc_area, once a place was found *)
pcpu_alloc_area(ch, off, n) ==
    LET map == ch.alloc_map \cup Bits(off, n)
    IN  pcpu_block_update_hint_alloc(
            [ch EXCEPT !.alloc_map = map,
                       !.bound_map = BoundAfter(@, off, n),
                       !.free_bytes = @ - n * PCPU_MIN_ALLOC_SIZE,
                       !.first_bit = IF @ = off
                                     THEN find_next_zero_bit(map, pcpu_chunk_map_bits(ch), off + n)
                                     ELSE @],
            off, n)

FirstBitAfterFree_kept(ch, off) == ch.first_bit
FirstBitAfterFree(ch, off) == Lower(ch.first_bit, off)

pcpu_free_area(ch, off) ==
    LET n == find_next_bit(ch.bound_map, pcpu_chunk_map_bits(ch), off + 1) - off
    IN  pcpu_block_update_hint_free(
            [ch EXCEPT !.alloc_map = @ \ Bits(off, n),
                       !.free_bytes = @ + n * PCPU_MIN_ALLOC_SIZE,
                       !.first_bit = FirstBitAfterFree(ch, off)],
            off, n)

(* Chunk c becomes ch and moves to its slot. *)
Update(chunks, slots, c, ch) ==
    /\ chunk' = [chunks EXCEPT ![c] = ch]
    /\ pcpu_slot' = pcpu_chunk_relocate(slots, c, pcpu_chunk_slot(chunks[c]), ch)

(* A request in bits *)
ReqBits(req) == AlignUp(req.size, PCPU_MIN_ALLOC_SIZE) \div PCPU_MIN_ALLOC_SIZE
ReqAlign(req) == Max({req.align, PCPU_MIN_ALLOC_SIZE}) \div PCPU_MIN_ALLOC_SIZE

(* Where chunk ch has room for req, or -1 *)
Place(ch, req, is_atomic) ==
    LET start == pcpu_find_block_fit(ch, ReqBits(req), ReqAlign(req), is_atomic)
    IN  IF start = -1 THEN -1 ELSE FindArea(ch, ReqBits(req), ReqAlign(req), start)

(* The places in the lists whose chunks can serve req, among those that the label restart
   tries *)
Servers(chunks, slots, req, is_atomic) ==
    UNION {{<<s, i>> : i \in {j \in DOMAIN slots[s] :
                                 Place(chunks[slots[s][j]], req, is_atomic) >= 0}} :
             s \in pcpu_size_to_slot(ReqBits(req) * PCPU_MIN_ALLOC_SIZE) .. pcpu_nr_slots - 1}

(* The area that req gets, from the chunk it comes to first: by slot, then by position *)
Found(chunks, slots, req, is_atomic) ==
    LET servers == Servers(chunks, slots, req, is_atomic)
    IN  {[chunk |-> slots[p[1]][p[2]],
          off |-> Place(chunks[slots[p[1]][p[2]]], req, is_atomic),
          bits |-> ReqBits(req)] :
           p \in {p \in servers : \A q \in servers :
                                     p[1] < q[1] \/ (p[1] = q[1] /\ p[2] <= q[2])}}

(* The areas of chunk c that somebody has *)
Areas(c) ==
    {a \in held : a.chunk = c}
        \cup (IF call.at = "populate" /\ call.area.chunk = c THEN {call.area} ELSE {})

RoomForCaller ==
    Cardinality(held) + (IF call.at = "idle" THEN 0 ELSE 1) < MaxAreas

-----------------------------------------------------------------------------
(* pcpu_alloc of the task *)

(* The label restart: take an area, then populate it without the lock *)
restart(chunks, slots, req) ==
    \/ \E a \in Found(chunks, slots, req, FALSE) :
          /\ Update(chunks, slots, a.chunk, pcpu_alloc_area(chunks[a.chunk], a.off, a.bits))
          /\ call' = [at |-> "populate", area |-> a, page |-> FirstPage(a.off)]
    \/ /\ Servers(chunks, slots, req, FALSE) = {}
       /\ chunk' = chunks /\ pcpu_slot' = slots
       /\ call' = [at |-> "create", req |-> req]

alloc_percpu(req) ==
    /\ call.at = "idle"
    /\ RoomForCaller
    /\ restart(chunk, pcpu_slot, req)
    /\ UNCHANGED held

(* list_empty(&pcpu_slot[pcpu_nr_slots - 1]), read without the lock *)
look_for_free_chunk ==
    /\ call.at = "create"
    /\ call' = [call EXCEPT !.at = IF pcpu_slot[pcpu_nr_slots - 1] = <<>>
                                   THEN "new" ELSE "restart"]
    /\ UNCHANGED <<chunk, pcpu_slot, held>>

retry ==
    /\ call.at = "restart"
    /\ restart(chunk, pcpu_slot, call.req)
    /\ UNCHANGED held

pcpu_alloc_chunk ==
    [nr_pages |-> pcpu_unit_pages, alloc_map |-> {}, bound_map |-> {},
     md_blocks |-> pcpu_init_md_blocks(pcpu_unit_pages),
     contig_bits |-> pcpu_unit_pages * Blk, contig_bits_start |-> 0, first_bit |-> 0,
     free_bytes |-> pcpu_unit_size, populated |-> {}, nr_populated |-> 0,
     nr_empty_pop_pages |-> 0, immutable |-> FALSE]

(* pcpu_create_chunk may fail; a new chunk is linked in under the lock and the
   search begins again before the lock is dropped. *)
pcpu_create_chunk ==
    /\ call.at = "new"
    /\ \/ /\ Len(chunk) < MaxChunks
          /\ LET c == Len(chunk) + 1
             IN  restart(Append(chunk, pcpu_alloc_chunk),
                         pcpu_chunk_relocate(pcpu_slot, c, -1, pcpu_alloc_chunk), call.req)
       \/ /\ call' = Idle
          /\ UNCHANGED <<chunk, pcpu_slot>>
    /\ UNCHANGED held

(* The next run of pages that the area still needs, empty if there are none *)
Missing(a, page) ==
    pcpu_next_unpop(chunk[a.chunk].populated, page, LastPage(a.off, a.bits) + 1)

pcpu_chunk_populated(ch, rs, re) ==
    [ch EXCEPT !.populated = @ \cup (rs .. re - 1), !.nr_populated = @ + re - rs]

(* Whether pcpu_populate_chunk got and mapped the pages of a region for every unit;
   otherwise it gave back what it had got. *)
pcpu_populate_chunk == BOOLEAN

(* One region is populated, and what follows under the lock *)
populate ==
    /\ call.at = "populate"
    /\ LET a == call.area
           r == Missing(a, call.page)
       IN  /\ r[1] < r[2]
           /\ \E ok \in pcpu_populate_chunk :
                 \/ /\ ok
                    /\ chunk' = [chunk EXCEPT ![a.chunk] = pcpu_chunk_populated(@, r[1], r[2])]
                    /\ call' = [call EXCEPT !.page = r[2] + 1]
                    /\ UNCHANGED pcpu_slot
                 \/ /\ ~ ok
                    /\ Update(chunk, pcpu_slot, a.chunk, pcpu_free_area(chunk[a.chunk], a.off))
                    /\ call' = Idle
    /\ UNCHANGED held

(* All pages are there: the caller has the area. *)
populated_all ==
    /\ call.at = "populate"
    /\ Missing(call.area, call.page)[1] >= Missing(call.area, call.page)[2]
    /\ held' = held \cup {call.area}
    /\ call' = Idle
    /\ UNCHANGED <<chunk, pcpu_slot>>

-----------------------------------------------------------------------------
(* pcpu_alloc and free_percpu in any context.  An atomic allocation that finds
   nothing only asks for the balance work. *)

alloc_percpu_atomic(req) ==
    /\ RoomForCaller
    /\ \E a \in Found(chunk, pcpu_slot, req, TRUE) :
          /\ Update(chunk, pcpu_slot, a.chunk, pcpu_alloc_area(chunk[a.chunk], a.off, a.bits))
          /\ held' = held \cup {a}
    /\ UNCHANGED call

free_percpu(a) ==
    /\ a \in held
    /\ Update(chunk, pcpu_slot, a.chunk, pcpu_free_area(chunk[a.chunk], a.off))
    /\ held' = held \ {a}
    /\ UNCHANGED call

-----------------------------------------------------------------------------
(* pcpu_setup_first_chunk *)

first_pages == AlignUp(StaticBits + DynBits, Blk) \div Blk
Hidden(c) ==
    IF c = 1 THEN Bits(0, StaticBits) \cup
                  Bits(StaticBits + DynBits, first_pages * Blk - (StaticBits + DynBits))
    ELSE {}

(* Hide the bits [off, off + n) of a first chunk. *)
Hide(ch, off, n) ==
    IF n = 0 THEN ch
    ELSE pcpu_block_update_hint_alloc(
            [ch EXCEPT !.alloc_map = @ \cup Bits(off, n),
                       !.bound_map = @ \cup {off, off + n},
                       !.first_bit = IF off = 0 THEN n ELSE @],
            off, n)

pcpu_alloc_first_chunk ==
    LET all == 0 .. first_pages - 1
        whole == [nr_pages |-> first_pages, alloc_map |-> {}, bound_map |-> {},
                  md_blocks |-> pcpu_init_md_blocks(first_pages),
                  contig_bits |-> DynBits, contig_bits_start |-> 0, first_bit |-> 0,
                  free_bytes |-> DynBits * PCPU_MIN_ALLOC_SIZE,
                  populated |-> all, nr_populated |-> first_pages,
                  nr_empty_pop_pages |-> 0, immutable |-> TRUE]
        counted == [whole EXCEPT !.nr_empty_pop_pages =
                        pcpu_cnt_pop_pages(whole, StaticBits, DynBits)]
        end == StaticBits + DynBits
    IN  Hide(Hide(counted, 0, StaticBits), end, first_pages * Blk - end)

Init ==
    /\ chunk = <<pcpu_alloc_first_chunk>>
    /\ pcpu_slot = pcpu_chunk_relocate([s \in 0 .. pcpu_nr_slots - 1 |-> <<>>], 1, -1,
                                       pcpu_alloc_first_chunk)
    /\ call = Idle
    /\ held = {}

Next ==
    \/ \E req \in Requests : alloc_percpu(req) \/ alloc_percpu_atomic(req)
    \/ look_for_free_chunk \/ retry \/ pcpu_create_chunk
    \/ populate \/ populated_all
    \/ \E a \in held : free_percpu(a)

Spec == Init /\ [][Next]_vars

-----------------------------------------------------------------------------
(* Correctness *)

(* Every hint and map stays inside its block or chunk: pcpu_block_update_hint_alloc
   subtracts what an allocation takes from hints of the blocks at its ends. *)
TypeOK ==
    /\ Len(chunk) \in 1 .. MaxChunks
    /\ \A c \in DOMAIN chunk :
          LET ch == chunk[c] bits == pcpu_chunk_map_bits(ch) IN
          /\ ch.alloc_map \subseteq 0 .. bits - 1
          /\ ch.bound_map \subseteq 0 .. bits
          /\ ch.populated \subseteq 0 .. ch.nr_pages - 1
          /\ {ch.contig_bits, ch.contig_bits_start, ch.first_bit} \subseteq 0 .. bits
          /\ ch.free_bytes \in 0 .. bits * PCPU_MIN_ALLOC_SIZE
          /\ \A i \in DOMAIN ch.md_blocks : \A x \in DOMAIN FreeBlock :
                ch.md_blocks[i][x] \in 0 .. Blk
    /\ pcpu_slot \in [0 .. pcpu_nr_slots - 1 -> Seq(DOMAIN chunk)]
    /\ call.at \in {"idle", "create", "restart", "new", "populate"}

(* Areas are inside their chunk, share no bit with each other or with the hidden
   part of the first chunk, and together are what alloc_map says.  The boundary
   bits end each area where it ends, whatever areas were there before, so a free
   gives back exactly what was given out.  What a caller has is populated. *)
AreasExact ==
    \A c \in DOMAIN chunk :
        LET ch == chunk[c] IN
        /\ ch.alloc_map = Hidden(c) \cup UNION {Bits(a.off, a.bits) : a \in Areas(c)}
        /\ \A a \in Areas(c) :
              /\ Bits(a.off, a.bits) \subseteq (0 .. pcpu_chunk_map_bits(ch) - 1) \ Hidden(c)
              /\ \A b \in Areas(c) \ {a} : Bits(a.off, a.bits) \cap Bits(b.off, b.bits) = {}
              /\ find_next_bit(ch.bound_map, pcpu_chunk_map_bits(ch), a.off + 1)
                    = a.off + a.bits
        /\ \A a \in held : a.chunk = c => PagesUnder(a.off, a.bits) \subseteq ch.populated

(* How many free bits of a bitmap of n bits there are in a row *)
FreeRuns(map, n) == {k \in 0 .. n : \E s \in 0 .. n - k : Bits(s, k) \cap map = {}}

(* Each block's hints, kept up to date step by step, are what a scan of its bitmap
   would give: the longest free run, where one of that length begins, the free
   bits at both edges, and no free bit before first_free. *)
HintsExact ==
    \A c \in DOMAIN chunk : \A i \in DOMAIN chunk[c].md_blocks :
        LET b == chunk[c].md_blocks[i]
            map == pcpu_index_alloc_map(chunk[c], i)
        IN  /\ b.contig_hint = Max(FreeRuns(map, Blk))
            /\ Bits(b.contig_hint_start, b.contig_hint) \cap map = {}
            /\ b.left_free = find_next_bit(map, Blk, 0)
            /\ b.right_free = Blk - Max({x + 1 : x \in map} \cup {0})
            /\ Bits(0, b.first_free) \subseteq map

(* The numbers that decide where a search looks: free_bytes and nr_populated are
   exact, nothing is free below first_bit, a chunk is in one list only, the one of
   its free bytes, and not in the list of full chunks while it has a free bit; no
   page that is populated and empty is left uncounted. *)
CountsExact ==
    \A c \in DOMAIN chunk :
        LET ch == chunk[c]
            free == (0 .. pcpu_chunk_map_bits(ch) - 1) \ ch.alloc_map
        IN  /\ ch.free_bytes = Cardinality(free) * PCPU_MIN_ALLOC_SIZE
            /\ \A b \in free : ch.first_bit <= b
            /\ \A s \in DOMAIN pcpu_slot :
                  Cardinality({i \in DOMAIN pcpu_slot[s] : pcpu_slot[s][i] = c})
                    = IF s = pcpu_chunk_slot(ch) THEN 1 ELSE 0
            /\ free # {} => pcpu_chunk_slot(ch) # 0
            /\ ch.nr_populated = Cardinality(ch.populated)
            /\ ch.immutable => ch.populated = 0 .. ch.nr_pages - 1
            /\ Cardinality({p \in ch.populated : Bits(p * Blk, Blk) \subseteq free})
                  <= ch.nr_empty_pop_pages

(* A chunk in the last slot serves every request.  pcpu_alloc that sees one there
   searches again without creating another, so if the hints hid its free run the
   caller would search for ever. *)
FreeChunkServes ==
    \A i \in DOMAIN pcpu_slot[pcpu_nr_slots - 1] : \A req \in Requests :
        Place(chunk[pcpu_slot[pcpu_nr_slots - 1][i]], req, FALSE) >= 0

(* What pcpu_block_update_hint_free says of the chunk's hint: "it will never be
   more than the available space". *)
ContigNeverMore ==
    \A c \in DOMAIN chunk :
        chunk[c].contig_bits
            <= Max(FreeRuns(chunk[c].alloc_map, pcpu_chunk_map_bits(chunk[c])))
=============================================================================
