------------------------------ MODULE Memblock ------------------------------
(***************************************************************************)
(* The boot memory allocator, mm/memblock.c: two sorted arrays of regions, *)
(* memory and reserved, that can grow out of the memory they describe.     *)
(*                                                                         *)
(* memblock runs on the boot CPU alone, before the slab allocator is there *)
(* (slab_is_available() is false), so a call is one step.  Operators on    *)
(* the whole struct take it as m and return it.  Two fields of it are not  *)
(* in the code: bug, a BUG_ON or WARN_ON of the region arrays has fired,   *)
(* and halted, there was no memory to note where an array had been put,    *)
(* where the kernel stops.  An address counts pages.                       *)
(***************************************************************************)
EXTENDS Integers, Sequences, FiniteSets, FiniteSetsExt, SequencesExt

CONSTANTS
    PHYS_ADDR_MAX,      \* end of the address space
    INIT_MEMBLOCK_REGIONS, INIT_MEMBLOCK_RESERVED_REGIONS,  \* static array sizes (128)
    RegionsPerPage,     \* regions that fit into a page
    KernelEnd,          \* __pa_symbol(_end)
    InitPgDir,          \* the page tables at the end of the kernel image, <<base, size>>
    AddRanges,          \* inputs: ranges of memblock_add and memblock_remove
    ReserveRanges,      \* inputs: ranges of memblock_reserve
    FlagRanges,         \* inputs: ranges whose flags are set and cleared
    Flags,              \* inputs: the flags
    Limits,             \* inputs: memory limits and current limits
    Sizes, Aligns,      \* inputs: allocations
    MaxOwned            \* bound: allocations held at once

ASSUME ArraysAssumption ==
    INIT_MEMBLOCK_REGIONS >= 2 /\ INIT_MEMBLOCK_RESERVED_REGIONS >= 2 /\ RegionsPerPage >= 1

(* A range starts in the address space; how far it reaches is up to the caller.  A limit
   of 0 stands for no limit, and is not enforced. *)
ASSUME RangesAssumption ==
    /\ PHYS_ADDR_MAX \in Nat
    /\ \A r \in AddRanges \cup FlagRanges : r[1] \in 0 .. PHYS_ADDR_MAX /\ r[2] \in Nat
    /\ Limits \subseteq Nat \ {0}

VARIABLES
    memblock,   \* struct memblock
    phase,      \* "setup": arm64_memblock_init; "paging": paging_init; "resize": later
    marks,      \* history: per address, "none" or the flags callers gave it
    reservations,\* history: addresses callers reserved and did not free
    owned       \* history: allocated blocks as <<base, size>>

vars == <<memblock, phase, marks, reservations, owned>>

Addr == 0 .. PHYS_ADDR_MAX - 1
Range2(base, size) == base .. base + size - 1
End(r) == r.base + r.size
Overlaps(r, base, end) == r.base < end /\ End(r) > base

(* enum memblock_flags as the bits it sets *)
Bits(flag) == CASE flag = "NOMAP" -> {0} [] flag = "DMA" -> {1} [] flag = "MOVABLE" -> {0, 1}
memblock_is_nomap(r) == 0 \in r.flags

Region(base, size, flags) == [base |-> base, size |-> size, flags |-> flags]
Dummy == Region(0, 0, {})
TotalSize(s) == FoldLeft(LAMBDA n, r : n + r.size, 0, s)

memblock_cap_size(base, size) == Min({size, PHYS_ADDR_MAX - base})

-----------------------------------------------------------------------------
(* Free ranges: memory regions that are mapped, less the reserved ones *)

(* The gap before reserved region b (counted from 0), as __next_mem_range sees it. *)
GapStart(m, b) == IF b = 0 THEN 0 ELSE End(m.reserved.regions[b])
GapEnd(m, b) ==
    IF b < Len(m.reserved.regions) THEN m.reserved.regions[b + 1].base ELSE PHYS_ADDR_MAX
Common(r, m, b) == <<Max({r.base, GapStart(m, b)}), Min({End(r), GapEnd(m, b)})>>

__next_mem_range_leaves_region(m) ==
    LET A == Len(m.memory.regions)
        B == Len(m.reserved.regions)
        from[a \in 0 .. A, b \in 0 .. B + 1] ==
          IF a = A THEN <<>>
          ELSE LET r == m.memory.regions[a + 1] IN
               IF memblock_is_nomap(r) \/ b = B + 1 THEN from[a + 1, b]
               ELSE IF GapStart(m, b) >= End(r) THEN from[a + 1, b]
               ELSE IF r.base < GapEnd(m, b) THEN <<Common(r, m, b)>> \o from[a + 1, b]
               ELSE from[a, b + 1]
    IN from[0, 0]
(* What for_each_free_mem_range visits, from indices idx_a and idx_b on. *)
__next_mem_range(m) ==
    LET A == Len(m.memory.regions)
        B == Len(m.reserved.regions)
        from[a \in 0 .. A, b \in 0 .. B + 1] ==
          IF a = A THEN <<>>
          ELSE LET r == m.memory.regions[a + 1] IN
               IF memblock_is_nomap(r) \/ b = B + 1 THEN from[a + 1, b]
               ELSE IF GapStart(m, b) >= End(r) THEN from[a + 1, b]
               ELSE IF r.base < GapEnd(m, b)
               THEN <<Common(r, m, b)>> \o
                       (IF End(r) <= GapEnd(m, b) THEN from[a + 1, b] ELSE from[a, b + 1])
               ELSE from[a, b + 1]
    IN from[0, 0]

(* What for_each_free_mem_range_reverse visits. *)
__next_mem_range_rev(m) ==
    LET A == Len(m.memory.regions)
        B == Len(m.reserved.regions)
        from[a \in -1 .. A - 1, b \in -1 .. B] ==
          IF a = -1 THEN <<>>
          ELSE LET r == m.memory.regions[a + 1] IN
               IF memblock_is_nomap(r) \/ b = -1 THEN from[a - 1, b]
               ELSE IF GapEnd(m, b) <= r.base THEN from[a - 1, b]
               ELSE IF End(r) > GapStart(m, b)
               THEN <<Common(r, m, b)>> \o
                       (IF r.base >= GapStart(m, b) THEN from[a - 1, b] ELSE from[a, b - 1])
               ELSE from[a, b - 1]
    IN from[A - 1, B]

Clamp(x, lo, hi) == Max({lo, Min({x, hi})})
First(s, Test(_)) == IF \E i \in DOMAIN s : Test(s[i])
                     THEN s[SelectInSeq(s, Test)] ELSE 0

(* Candidates in the order of the walk; 0 stands for a range that does not fit. *)
__memblock_find_range_bottom_up(m, start, end, size, align) ==
    LET walk == __next_mem_range(m)
        cand(w) == LET lo == Clamp(w[1], start, end)
                       hi == Clamp(w[2], start, end)
                       c == lo + ((-lo) % align)
                   IN IF c < hi /\ hi - c >= size THEN c ELSE 0
    IN First([i \in DOMAIN walk |-> cand(walk[i])], LAMBDA c : c # 0)

__memblock_find_range_top_down_strict(m, start, end, size, align) ==
    LET walk == __next_mem_range_rev(m)
        cand(w) == LET lo == Clamp(w[1], start, end)
                       hi == Clamp(w[2], start, end)
                       c == (hi - size) - ((hi - size) % align)
                   IN IF hi >= size /\ c > lo THEN c ELSE 0
    IN First([i \in DOMAIN walk |-> cand(walk[i])], LAMBDA c : c # 0)
__memblock_find_range_top_down(m, start, end, size, align) ==
    LET walk == __next_mem_range_rev(m)
        cand(w) == LET lo == Clamp(w[1], start, end)
                       hi == Clamp(w[2], start, end)
                       c == (hi - size) - ((hi - size) % align)
                   IN IF hi >= size /\ c >= lo THEN c ELSE 0
    IN First([i \in DOMAIN walk |-> cand(walk[i])], LAMBDA c : c # 0)

(* Between start and end: bottom-up above the kernel if that is asked for and succeeds *)
FindBetween(m, size, align, start, end) ==
    LET up == IF m.bottom_up /\ end > KernelEnd
              THEN __memblock_find_range_bottom_up(m, Max({start, KernelEnd}), end, size, align)
              ELSE 0
    IN IF up # 0 THEN up ELSE __memblock_find_range_top_down(m, start, end, size, align)

(* end = 0 is MEMBLOCK_ALLOC_ACCESSIBLE; the first page is never given out. *)
__memblock_find_in_range(m, size, align, start, end) ==
    FindBetween(m, size, align, Max({start, 1}),
                Max({start, 1, IF end = 0 THEN m.current_limit ELSE end}))

-----------------------------------------------------------------------------
(* Changing one array.  T is "memory" or "reserved". *)

merge_regions_keeps_neighbours(s) == s
merge_regions_ignores_flags(s) ==
    LET merged[i \in 1 .. Len(s)] ==
          IF i = 1 THEN <<s[1]>>
          ELSE LET done == merged[i - 1]
               IN IF End(Last(done)) = s[i].base
                  THEN [done EXCEPT ![Len(done)].size = @ + s[i].size]
                  ELSE Append(done, s[i])
    IN merged[Len(s)]
(* The next region joins the last one if that ends where it begins and has its flags. *)
MergeStep(done, r) ==
    IF /\ done # <<>>
       /\ End(Last(done)) = r.base /\ Last(done).flags = r.flags
    THEN [done EXCEPT ![Len(done)].size = @ + r.size]
    ELSE Append(done, r)
memblock_merge_regions(s) ==
    LET merged[i \in 0 .. Len(s)] == IF i = 0 THEN <<>> ELSE MergeStep(merged[i - 1], s[i])
    IN merged[Len(s)]

(* The addresses from .. to - 1 as an array of at most one region *)
Piece(from, to, flags) == IF from < to THEN <<Region(from, to - from, flags)>> ELSE <<>>

(* One round of memblock_add_range, before merging: the portions of base .. end that no
   region covers are put in.  w.base is what has been dealt with when the loop comes to
   region r; behind the range, where the loop breaks, nothing is left to put in. *)
PortionStep(w, r, end, flags) ==
    IF End(r) <= w.base THEN [w EXCEPT !.out = Append(@, r)]
    ELSE [base |-> Min({End(r), end}),
          out |-> Append(w.out \o Piece(w.base, Min({r.base, end}), flags), r)]
Portions(s, base, end, flags) ==
    LET walk[i \in 0 .. Len(s)] ==
          IF i = 0 THEN [base |-> base, out |-> <<>>]
          ELSE PortionStep(walk[i - 1], s[i], end, flags)
    IN walk[Len(s)].out \o Piece(walk[Len(s)].base, end, flags)

(* memblock_isolate_range, once there is room: regions are cut at base and end. *)
Cut(r, base, end) ==
    LET lo == Max({r.base, base})
        hi == Min({End(r), end})
    IN IF ~Overlaps(r, base, end) THEN <<r>>
       ELSE Piece(r.base, lo, r.flags) \o Piece(lo, hi, r.flags) \o Piece(hi, End(r), r.flags)
Isolate(s, base, end) ==
    LET cut[i \in 0 .. Len(s)] ==
          IF i = 0 THEN <<>> ELSE cut[i - 1] \o Cut(s[i], base, end)
    IN cut[Len(s)]

Within(s, base, end) == {r \in Range(s) : Overlaps(r, base, end)}
(* The regions of s that are not gone *)
Kept(s, gone) ==
    LET kept[i \in 0 .. Len(s)] ==
          IF i = 0 THEN <<>>
          ELSE IF s[i] \in gone THEN kept[i - 1] ELSE Append(kept[i - 1], s[i])
    IN kept[Len(s)]
(* The regions gone go away one by one; an array is never left without its dummy entry. *)
memblock_remove_region(m, T, s, gone) ==
    LET kept == Kept(s, gone)
        total == m[T].total_size - (TotalSize(s) - TotalSize(kept))
    IN [m EXCEPT ![T].regions = IF kept = <<>> THEN <<Dummy>> ELSE kept,
                 ![T].total_size = total,
                 !.bug = @ \/ (kept = <<>> /\ total # 0)]

-----------------------------------------------------------------------------
(* The calls that may need a larger array.  A call that fails says ok = FALSE (-ENOMEM);
   it has then inserted and removed nothing.  Double(m, T, base, size) is the doubling
   that the call may use. *)

Done(m) == [m |-> m, ok |-> TRUE]
Failed(m) == [m |-> m, ok |-> FALSE]

(* while (cnt + n > max) double the array: two rounds are always enough. *)
GrowOnce(g, T, n, base, size, Double(_, _, _, _)) ==
    IF ~g.ok \/ Len(g.m[T].regions) + n <= g.m[T].max THEN g
    ELSE Double(g.m, T, base, size)
Grow(m, T, n, base, size, Double(_, _, _, _)) ==
    GrowOnce(GrowOnce(Done(m), T, n, base, size, Double), T, n, base, size, Double)

(* The second round of memblock_add_range, and the merge *)
Insert(g, T, new) ==
    IF ~g.ok THEN g
    ELSE Done([g.m EXCEPT
                 ![T].regions = memblock_merge_regions(new),
                 ![T].total_size = @ + TotalSize(new) - TotalSize(g.m[T].regions),
                 !.bug = @ \/ Len(new) > g.m[T].max
                           \/ \E i \in 1 .. Len(new) - 1 : End(new[i]) > new[i + 1].base])
(* A region with other flags follows a portion that is put in: WARN_ON *)
FlagsClash(s, base, end, flags) ==
    \E i \in DOMAIN s : /\ base < s[i].base /\ s[i].base < end /\ s[i].flags # flags
                        /\ i = 1 \/ End(s[i - 1]) < s[i].base
InsertPortions(g, T, base, size, flags) ==
    Insert([g EXCEPT !.m.bug = @ \/ FlagsClash(g.m[T].regions, base, base + size, flags)],
           T, Portions(g.m[T].regions, base, base + size, flags))

AddCapped(m, T, base, size, flags, nr_new, Double(_, _, _, _)) ==
    IF size = 0 THEN Done(m)
    ELSE IF m[T].regions[1].size = 0
    THEN Done([m EXCEPT ![T].regions = <<Region(base, size, flags)>>,
                        ![T].total_size = size,
                        !.bug = @ \/ Len(m[T].regions) # 1 \/ m[T].total_size # 0])
    ELSE IF nr_new = 0 THEN Done(m)
    ELSE InsertPortions(Grow(m, T, nr_new, base, size, Double), T, base, size, flags)

AddRange(m, T, base, size0, flags, Double(_, _, _, _)) ==
    LET size == memblock_cap_size(base, size0)
    IN AddCapped(m, T, base, size, flags,
                 Len(Portions(m[T].regions, base, base + size, flags)) - Len(m[T].regions),
                 Double)

RemoveFrom(g, T, s, base, end) == Done(memblock_remove_region(g.m, T, s, Within(s, base, end)))
RemoveIsolated(g, T, base, end) ==
    IF ~g.ok THEN g
    ELSE RemoveFrom(g, T, Isolate(g.m[T].regions, base, end), base, end)

RemoveRange(m, T, base, size0, Double(_, _, _, _)) ==
    LET size == memblock_cap_size(base, size0)
    IN IF size = 0 THEN Done(m)
       ELSE RemoveIsolated(Grow(m, T, 2, base, size, Double), T, base, base + size)

ArrayPages(max) == (max + RegionsPerPage - 1) \div RegionsPerPage

(* A place for the new array of T, clear of the range that is about to be reserved *)
ArrayPlace(m, T, base, size) ==
    LET find(start, end) ==
          __memblock_find_in_range(m, ArrayPages(2 * m[T].max), 1, start, end)
        above == find(IF T = "reserved" THEN base + size ELSE 0, m.current_limit)
    IN IF above = 0 /\ T = "reserved" /\ size # 0
       THEN find(0, Min({base, m.current_limit})) ELSE above

(* The old array is freed unless it is the static one, and only then is the new one
   reserved.  Nested is the doubling that these two calls may use in turn. *)
FreeOldArray(m, old, max, Nested(_, _, _, _)) ==
    IF old = 0 THEN m ELSE RemoveRange(m, "reserved", old, ArrayPages(max), Nested).m
BugOnFailure(x) == Done([x.m EXCEPT !.halted = @ \/ ~x.ok])
SwitchArray(m, T, addr, Nested(_, _, _, _)) ==
    IF addr = 0 THEN Failed(m)
    ELSE BugOnFailure(
           AddRange(FreeOldArray([m EXCEPT ![T].max = 2 * @, ![T].at = addr],
                                 m[T].at, m[T].max, Nested),
                    "reserved", addr, ArrayPages(2 * m[T].max), {}, Nested))

DoubleArray(m, T, base, size, Nested(_, _, _, _)) ==
    IF phase # "resize" THEN Failed(m)
    ELSE SwitchArray(m, T, ArrayPlace(m, T, base, size), Nested)

(* Doubling reserved leaves room enough for the two nested calls; doubling memory may
   have to double reserved. *)
DoubleNone(m, T, base, size) == Failed([m EXCEPT !.bug = TRUE])
DoubleReserved_keeps_old_array(m, T, base, size) ==
    DoubleArray([m EXCEPT !.reserved.at = 0], "reserved", base, size, DoubleNone)
DoubleReserved_forgets_range(m, T, base, size) ==
    DoubleArray(m, "reserved", 0, 0, DoubleNone)
DoubleReserved(m, T, base, size) == DoubleArray(m, "reserved", base, size, DoubleNone)
memblock_double_array(m, T, base, size) ==
    IF T = "reserved" THEN DoubleReserved(m, T, base, size)
    ELSE DoubleArray(m, T, base, size, DoubleReserved)

memblock_add_range(m, T, base, size) ==
    AddRange(m, T, base, size, {}, memblock_double_array)
memblock_remove_range(m, T, base, size) ==
    RemoveRange(m, T, base, size, memblock_double_array)

(* One round of memblock_search *)
SearchStep(s, addr, x) ==
    LET mid == (x.left + x.right) \div 2
        r == s[mid + 1]
    IN IF x.found # 0 \/ x.left >= x.right THEN x
       ELSE IF addr < r.base THEN [x EXCEPT !.right = mid]
       ELSE IF addr >= End(r) THEN [x EXCEPT !.left = mid + 1]
       ELSE [x EXCEPT !.found = mid + 1]
(* It is on the whole array, which is never empty; 0 stands for -1, indices count from 1. *)
memblock_search(t, addr) ==
    LET n == Len(t.regions)
        round[k \in 0 .. n] ==
          IF k = 0 THEN [left |-> 0, right |-> n, found |-> 0]
          ELSE SearchStep(t.regions, addr, round[k - 1])
    IN round[n].found

-----------------------------------------------------------------------------
(* The calls.  Ranges are <<base, size>>. *)

Absent == {"absent"}
Cells(r) == Range2(r[1], memblock_cap_size(r[1], r[2]))
ArrayCells(T) == IF memblock[T].at = 0 THEN {}
                 ELSE Range2(memblock[T].at, ArrayPages(memblock[T].max))
OwnedCells == UNION {Range2(b[1], b[2]) : b \in owned}
Free(a) == a \notin reservations \cup OwnedCells \cup ArrayCells("memory") \cup ArrayCells("reserved")

(* The call returns and leaves m behind, unless it stops the kernel. *)
Commit(m) == ~m.halted /\ memblock' = m

(* A call that returned x; on success the history becomes newmarks and newres. *)
Returned(x, newmarks, newres) ==
    /\ Commit(x.m)
    /\ marks' = IF x.ok THEN newmarks ELSE marks
    /\ reservations' = IF x.ok THEN newres ELSE reservations

(* Device tree: early_init_dt_add_memory_arch and arm64_memblock_init *)
memblock_add(r) ==
    /\ phase = "setup"
    /\ Returned(memblock_add_range(memblock, "memory", r[1], r[2]),
                [a \in Addr |-> IF a \in Cells(r) /\ marks[a] = Absent THEN {} ELSE marks[a]],
                reservations)
    /\ UNCHANGED <<phase, owned>>

memblock_remove(r) ==
    /\ phase = "setup"
    /\ Returned(memblock_remove_range(memblock, "memory", r[1], r[2]),
                [a \in Addr |-> IF a \in Cells(r) THEN Absent ELSE marks[a]],
                reservations)
    /\ UNCHANGED <<phase, owned>>

(* The kernel image and the device tree, and later bad memory: memtest looks at free
   memory, and never reserves a range that starts at address 0. *)
memblock_reserve(r) ==
    /\ phase = "setup" \/ (r[1] # 0 /\ \A a \in Cells(r) : marks[a] # Absent /\ Free(a))
    /\ Returned(memblock_add_range(memblock, "reserved", r[1], r[2]),
                marks, reservations \cup Cells(r))
    /\ UNCHANGED <<phase, owned>>

(* The address that the limit-th page of memory ends at, or PHYS_ADDR_MAX *)
MaxAddrStep(x, r) ==
    IF x.max_addr # PHYS_ADDR_MAX THEN x
    ELSE IF x.limit <= r.size THEN [x EXCEPT !.max_addr = r.base + x.limit]
    ELSE [x EXCEPT !.limit = @ - r.size]
__find_max_addr(m, limit) ==
    LET s == m.memory.regions
        walk[i \in 0 .. Len(s)] ==
          IF i = 0 THEN [limit |-> limit, max_addr |-> PHYS_ADDR_MAX]
          ELSE MaxAddrStep(walk[i - 1], s[i])
    IN walk[Len(s)].max_addr

(* memory has been cut with result x; cut reserved too.  Failures are ignored. *)
CutReserved(x, y, max_addr, newmarks) ==
    /\ Commit(y.m)
    /\ marks' = IF x.ok THEN newmarks ELSE marks
    /\ reservations' = IF y.ok THEN {a \in reservations : a < max_addr} ELSE reservations
CutBoth(x, max_addr, newmarks) ==
    CutReserved(x, memblock_remove_range(x.m, "reserved", max_addr, PHYS_ADDR_MAX),
                max_addr, newmarks)

memblock_enforce_memory_limit(limit) ==
    LET max_addr == __find_max_addr(memblock, limit) IN
    /\ phase = "setup"
    /\ max_addr # PHYS_ADDR_MAX
    /\ CutBoth(memblock_remove_range(memblock, "memory", max_addr, PHYS_ADDR_MAX), max_addr,
               [a \in Addr |-> IF a >= max_addr THEN Absent ELSE marks[a]])
    /\ UNCHANGED <<phase, owned>>

(* memblock_cap_memory_range(0, end), once the array has grown to g: mapped memory
   beyond end goes, NOMAP memory stays. *)
CapMapped(m, s, end) ==
    Done(memblock_remove_region(m, "memory", s,
            {r \in Range(s) \ Within(s, 0, end) : ~memblock_is_nomap(r)}))
memblock_cap_memory_range(g, end) ==
    IF g.ok
    THEN CutBoth(CapMapped(g.m, Isolate(g.m.memory.regions, 0, end), end),
                 end,
                 [a \in Addr |-> IF a >= end /\ "NOMAP" \notin marks[a] THEN Absent
                                 ELSE marks[a]])
    ELSE Commit(g.m) /\ UNCHANGED <<marks, reservations>>

memblock_mem_limit_remove_map(limit) ==
    LET max_addr == __find_max_addr(memblock, limit) IN
    /\ phase = "setup"
    /\ max_addr # PHYS_ADDR_MAX
    /\ memblock_cap_memory_range(
          Grow(memblock, "memory", 2, 0, max_addr, memblock_double_array), max_addr)
    /\ UNCHANGED <<phase, owned>>

(* The regions s with a flag set or cleared between base and end *)
SetFlags(s, base, end, set, flag) ==
    [i \in DOMAIN s |->
       IF ~Overlaps(s[i], base, end) THEN s[i]
       ELSE [s[i] EXCEPT !.flags = IF set THEN @ \cup Bits(flag) ELSE @ \ Bits(flag)]]
Flagged(g, base, end, set, flag) ==
    IF ~g.ok THEN g
    ELSE Done([g.m EXCEPT !.memory.regions =
                 memblock_merge_regions(SetFlags(Isolate(@, base, end), base, end, set, flag))])

(* memblock_isolate_range makes room for two more regions, unless the range is empty. *)
IsolateRoom(m, base, size) ==
    IF size = 0 THEN Done(m) ELSE Grow(m, "memory", 2, base, size, memblock_double_array)

(* memblock_mark_* and memblock_clear_* *)
memblock_setclr_flag(r, set, flag) ==
    LET size == memblock_cap_size(r[1], r[2]) IN
    /\ phase # "setup"
    /\ Returned(Flagged(IsolateRoom(memblock, r[1], size), r[1], r[1] + size, set, flag),
                [a \in Addr |-> IF a \notin Cells(r) \/ marks[a] = Absent THEN marks[a]
                                ELSE IF set THEN marks[a] \cup {flag} ELSE marks[a] \ {flag}],
                reservations)
    /\ UNCHANGED <<phase, owned>>

(* __memblock_alloc_range: the address is 0 if there is no room, or none to note it *)
Reserved(found, x) == [m |-> x.m, addr |-> IF x.ok THEN found ELSE 0]
ReserveFound(m, found, size) ==
    IF found = 0 THEN [m |-> m, addr |-> 0]
    ELSE Reserved(found, memblock_add_range(m, "reserved", found, size))
__memblock_alloc_range(m, size, align, start, end) ==
    ReserveFound(m, __memblock_find_in_range(m, size, align, start, end), size)

Allocated(x, size) ==
    /\ Commit(x.m)
    /\ owned' = IF x.addr = 0 THEN owned ELSE owned \cup {<<x.addr, size>>}
    /\ UNCHANGED <<phase, marks, reservations>>

(* early_pgtable_alloc *)
memblock_phys_alloc(size, align) ==
    /\ phase # "setup" /\ Cardinality(owned) < MaxOwned
    /\ Allocated(__memblock_alloc_range(memblock, size, align, 0, 0), size)

(* memblock_alloc_try and its kin: first from min_addr on, then anywhere *)
TryAgain(x, size, align) ==
    IF x.addr # 0 THEN x ELSE __memblock_alloc_range(x.m, size, align, 0, 0)
memblock_alloc_internal(size, align, min_addr) ==
    /\ phase = "resize" /\ Cardinality(owned) < MaxOwned
    /\ Allocated(TryAgain(__memblock_alloc_range(memblock, size, align, min_addr, 0),
                          size, align), size)

(* A caller frees a block it was given; if that fails the block stays reserved. *)
Freed(b, x) ==
    /\ Commit(x.m)
    /\ reservations' = IF x.ok THEN reservations ELSE reservations \cup Range2(b[1], b[2])
memblock_free(b) ==
    /\ Freed(b, memblock_remove_range(memblock, "reserved", b[1], b[2]))
    /\ owned' = owned \ {b}
    /\ UNCHANGED <<phase, marks>>

memblock_set_current_limit(limit) ==
    /\ phase = "setup"
    /\ memblock' = [memblock EXCEPT !.current_limit = limit]
    /\ UNCHANGED <<phase, marks, reservations, owned>>

memblock_set_bottom_up ==
    /\ phase = "setup"
    /\ memblock' = [memblock EXCEPT !.bottom_up = TRUE]
    /\ UNCHANGED <<phase, marks, reservations, owned>>

(* setup_arch goes on to paging_init once the kernel image is reserved. *)
paging_init ==
    /\ phase = "setup" /\ Cells(InitPgDir) \subseteq reservations
    /\ phase' = "paging"
    /\ UNCHANGED <<memblock, marks, reservations, owned>>

(* It ends by freeing the first page tables, and from then on arrays may grow. *)
memblock_allow_resize ==
    /\ phase = "paging"
    /\ Returned(memblock_remove_range(memblock, "reserved", InitPgDir[1], InitPgDir[2]),
                marks, reservations \ Cells(InitPgDir))
    /\ phase' = "resize"
    /\ UNCHANGED owned

Type(max) == [regions |-> <<Dummy>>, max |-> max, total_size |-> 0, at |-> 0]
Init ==
    /\ memblock = [memory |-> Type(INIT_MEMBLOCK_REGIONS),
                   reserved |-> Type(INIT_MEMBLOCK_RESERVED_REGIONS),
                   bottom_up |-> FALSE, current_limit |-> PHYS_ADDR_MAX,
                   bug |-> FALSE, halted |-> FALSE]
    /\ phase = "setup"
    /\ marks = [a \in Addr |-> Absent]
    /\ reservations = {}
    /\ owned = {}

Next ==
    \/ \E r \in AddRanges : memblock_add(r) \/ memblock_remove(r)
    \/ \E r \in ReserveRanges : memblock_reserve(r)
    \/ \E limit \in Limits :
          \/ memblock_enforce_memory_limit(limit)
          \/ memblock_mem_limit_remove_map(limit)
          \/ memblock_set_current_limit(limit)
    \/ \E r \in FlagRanges, set \in BOOLEAN, flag \in Flags : memblock_setclr_flag(r, set, flag)
    \/ \E size \in Sizes, align \in Aligns :
          \/ memblock_phys_alloc(size, align)
          \/ \E min_addr \in Limits : memblock_alloc_internal(size, align, min_addr)
    \/ \E b \in owned : memblock_free(b)
    \/ memblock_set_bottom_up \/ paging_init \/ memblock_allow_resize

Spec == Init /\ [][Next]_vars

-----------------------------------------------------------------------------
(* Properties *)

(* Each array is sorted, its regions are nonempty, disjoint and merged as far as their flags
   allow, the dummy entry is there exactly when nothing else is, the array does not
   overflow, total_size is the sum, and no BUG_ON or WARN_ON has fired. *)
WellFormed ==
    /\ ~memblock.bug
    /\ \A T \in {"memory", "reserved"} :
          LET t == memblock[T]
              s == t.regions
          IN /\ Len(s) \in 1 .. t.max
             /\ s = <<Dummy>> \/ \A i \in DOMAIN s : s[i].size > 0
             /\ \A i \in 1 .. Len(s) - 1 :
                   \/ End(s[i]) < s[i + 1].base
                   \/ End(s[i]) = s[i + 1].base /\ s[i].flags # s[i + 1].flags
             /\ t.total_size = TotalSize(s)

(* memblock_is_memory, and the flags, say of every address what the calls so far made of
   it; a call that returned an error changed nothing. *)
MemoryExact ==
    \A a \in Addr :
       LET i == memblock_search(memblock.memory, a) IN
       /\ i = 0 <=> marks[a] = Absent
       /\ i # 0 => /\ memblock_is_nomap(memblock.memory.regions[i]) <=> "NOMAP" \in marks[a]
                   /\ 1 \in memblock.memory.regions[i].flags <=> "DMA" \in marks[a]

(* memblock_is_reserved holds of what callers reserved or hold and of the arrays in use,
   and of nothing else: arrays that were outgrown are given back. *)
ReservedExact ==
    \A a \in Addr : memblock_search(memblock.reserved, a) = 0 <=> Free(a)

(* Nobody is given memory that another holds, and neither are the arrays themselves: an
   array that grows in the middle of an allocation stays clear of it. *)
NoSharing ==
    /\ \A b, c \in owned : b = c \/ Range2(b[1], b[2]) \cap Range2(c[1], c[2]) = {}
    /\ (reservations \cup ArrayCells("memory") \cup ArrayCells("reserved")) \cap OwnedCells = {}
    /\ ArrayCells("memory") \cap ArrayCells("reserved") = {}
    /\ (ArrayCells("memory") \cup ArrayCells("reserved")) \cap reservations = {}

Usable(a) == a \in Addr /\ marks[a] # Absent /\ "NOMAP" \notin marks[a] /\ Free(a)
(* Both walks over the free ranges visit exactly the mapped memory that is free, one in
   the order opposite to the other. *)
FreeRangesExact ==
    LET up == __next_mem_range(memblock)
    IN /\ __next_mem_range_rev(memblock) = Reverse(up)
       /\ UNION {up[i][1] .. up[i][2] - 1 : i \in DOMAIN up} = {a \in Addr : Usable(a)}
       /\ \A i \in DOMAIN up : up[i][1] < up[i][2]
       /\ \A i \in 1 .. Len(up) - 1 : up[i][2] <= up[i + 1][1]

(* A search succeeds exactly when some aligned run of usable memory with equal flags lies
   between the first page and the limit, and what it finds is one. *)
FindExact ==
    \A size \in Sizes, align \in Aligns :
       LET Fits(c) == /\ c % align = 0 /\ c >= 1 /\ c + size <= memblock.current_limit
                      /\ \A a \in Range2(c, size) : Usable(a) /\ marks[a] = marks[c]
           c == __memblock_find_in_range(memblock, size, align, 0, 0)
       IN IF c = 0 THEN ~\E d \in Addr : Fits(d) ELSE Fits(c)
=============================================================================
