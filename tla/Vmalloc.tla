------------------------------- MODULE Vmalloc -------------------------------
(* The allocator of kernel virtual addresses, mm/vmalloc.c: vmalloc/vfree, the
   areas of ioremap, the congruent areas of the per-CPU allocator, and the lazy
   purge of freed areas.

   The unit is the page.  An area ("va") stays in vmap_area_root, a red-black tree
   (RbTree), and in the sorted vmap_area_list from its insertion until a purge has
   flushed the TLB; a freed area waits on the lock-less vmap_purge_list meanwhile.
   vmap_area_lock makes one action of each critical section.  vmap_purge_lock is a
   mutex, and this kernel's mutexes are empty stubs (include/linux/mutex.h): it
   excludes nobody, and several CPUs may be inside __purge_vmap_area_lazy at once.
   cond_resched_lock is a stub too, so a purge returns its areas in one go.

   Addresses stay far below 2^64 (VMALLOC_END is), so the wrap-around tests and
   the tests against vend take the same branch. *)
EXTENDS Integers, Sequences, FiniteSets, SequencesExt, FiniteSetsExt

CONSTANTS
    Cpu,
    MaxAreas,       \* struct vmap_area: how many the slab allocator has memory for
    NULL,
    VMALLOC_START, VMALLOC_END,
    Early,          \* <<start, end>> of the areas declared before vmalloc_init
    Request,        \* the calls of __get_vm_area_node that callers make
    Offsets, Sizes, \* the groups of pcpu_get_vm_areas
    PcpuAlign,
    lazy_max_pages

(* size includes the guard page; populate is TRUE for vmalloc, which allocates
   pages after the area. *)
RequestType == [size : Nat \ {0}, align : Nat \ {0}, start : Nat, end : Nat, populate : BOOLEAN]

(* An area is named by the page it starts at. *)
Va == VMALLOC_START..(VMALLOC_END - 1)

Groups == DOMAIN Offsets
LastArea == CHOOSE a \in Groups : \A b \in Groups : Offsets[b] <= Offsets[a]
LastEnd == Offsets[LastArea] + Sizes[LastArea]

AlignUp(x, a) == ((x + a - 1) \div a) * a
AlignDown(x, a) == (x \div a) * a

VmallocAssumption ==
    /\ VMALLOC_START \in Nat /\ VMALLOC_END \in Nat /\ lazy_max_pages \in Nat /\ MaxAreas \in Nat
    /\ Request \subseteq RequestType
    /\ \A r \in Request : VMALLOC_START <= r.start /\ r.end <= VMALLOC_END
    /\ \A i \in DOMAIN Early : VMALLOC_START <= Early[i][1] /\ Early[i][1] < Early[i][2] /\ Early[i][2] <= VMALLOC_END
    /\ \A i, j \in DOMAIN Early : i # j => Early[i][2] <= Early[j][1] \/ Early[j][2] <= Early[i][1]
    /\ \A a \in Groups : Offsets[a] % PcpuAlign = 0 /\ Sizes[a] % PcpuAlign = 0 /\ Sizes[a] > 0
    /\ \A a, b \in Groups : a # b =>
          Offsets[a] + Sizes[a] <= Offsets[b] \/ Offsets[b] + Sizes[b] <= Offsets[a]
    /\ LastEnd <= AlignDown(VMALLOC_END, PcpuAlign) - AlignUp(VMALLOC_START, PcpuAlign)

ASSUME VmallocAssumption

VARIABLES
    va,                     \* [end, vm] of every area; vm: a vm_struct is attached
    vmap_area_root, vmap_area_list,
    free_vmap_cache, cached_hole_size, cached_vstart, cached_align,
    vmap_area_pcpu_hole,
    vmap_purge_list, vmap_lazy_nr,
    th,                     \* per CPU: the call in progress
    owned,                  \* the areas callers own, one sequence for each call that returned them
    stale,                  \* pages unmapped since the last TLB flush that covered them
    bug                     \* a BUG_ON fired, a lookup missed its area, or two areas start at one page

search == <<free_vmap_cache, cached_hole_size, cached_vstart, cached_align>>
tree == <<va, vmap_area_root, vmap_area_list>>
lazy == <<vmap_purge_list, vmap_lazy_nr>>
vars == <<tree, search, vmap_area_pcpu_hole, lazy, th, owned, stale, bug>>

Rb == INSTANCE RbTree WITH Node <- Va, MaxNodes <- MaxAreas

NoRequest == [size |-> 0, align |-> 0, start |-> 0, end |-> 0, populate |-> FALSE]
NoArea == [end |-> 0, vm |-> FALSE]
Idle == [op |-> "none", pc |-> "idle", req |-> NoRequest, vas |-> <<>>, purged |-> FALSE, nr |-> 0, valist |-> <<>>]

Pages(v) == v..(va[v].end - 1)
InTree == {v \in Va : ~Rb!RB_EMPTY_NODE(vmap_area_root, v)}
AsMap == [va |-> va, root |-> vmap_area_root, list |-> vmap_area_list]

-----------------------------------------------------------------------------
(* The tree of areas.  m is the tree, the list and the areas together. *)

__find_vmap_area_end_inside(addr) ==
    LET Down(v) ==
            CASE v = NULL -> NULL
              [] v # NULL /\ addr < v -> vmap_area_root.child["left"][v]
              [] v # NULL /\ addr > va[v].end -> vmap_area_root.child["right"][v]
              [] OTHER -> v
    IN Rb!Repeat(Down, vmap_area_root.root)

__find_vmap_area(addr) ==
    LET Down(v) ==
            CASE v = NULL -> NULL
              [] v # NULL /\ addr < v -> vmap_area_root.child["left"][v]
              [] v # NULL /\ addr >= va[v].end -> vmap_area_root.child["right"][v]
              [] OTHER -> v
    IN Rb!Repeat(Down, vmap_area_root.root)

__insert_vmap_area(m, v, end) ==
    LET areas == [m.va EXCEPT ![v] = [end |-> end, vm |-> FALSE]]
        Down(x) ==
            LET s == IF v < areas[x.v].end THEN "left" ELSE "right"
            IN IF x.v = NULL THEN x ELSE [parent |-> x.v, side |-> s, v |-> m.root.child[s][x.v]]
        at == Rb!Repeat(Down, [parent |-> NULL, side |-> "left", v |-> m.root.root])
        root == Rb!rb_insert_color(Rb!rb_link_node(m.root, v, at.parent, at.side), v)
        prev == Rb!rb_prev(root, v)
        pos == IF prev = NULL THEN 1 ELSE CHOOSE i \in 2..(Len(m.list) + 1) : m.list[i - 1] = prev
    IN [va |-> areas, root |-> root, list |-> InsertAt(m.list, pos, v)]

SetMap(m) == va' = m.va /\ vmap_area_root' = m.root /\ vmap_area_list' = m.list

(* The cached area is freed and stays cached. *)
__free_vmap_area_keeps_cache(k, v) ==
    LET a == k.va[v]
    IN [va |-> [k.va EXCEPT ![v] = NoArea],
        root |-> Rb!rb_erase(k.root, v),
        list |-> SelectSeq(k.list, LAMBDA w : w # v),
        cache |-> IF k.cache # NULL /\ v < k.cache THEN Rb!rb_prev(k.root, v) ELSE k.cache,
        hole |-> Max({k.hole, a.end})]

(* One area goes back to the free address space.  k is the map with the search
   cache and the hint for the per-CPU areas. *)
__free_vmap_area(k, v) ==
    LET a == k.va[v]
        cache == CASE k.cache = NULL -> NULL
                   [] k.cache # NULL /\ a.end < cached_vstart -> NULL
                   [] k.cache # NULL /\ a.end >= cached_vstart /\ v <= k.cache ->
                        Rb!rb_prev(k.root, v)
                   [] OTHER -> k.cache
        inside == a.end > VMALLOC_START /\ a.end <= VMALLOC_END
    IN [va |-> [k.va EXCEPT ![v] = NoArea],
        root |-> Rb!rb_erase(k.root, v),
        list |-> SelectSeq(k.list, LAMBDA w : w # v),
        cache |-> cache,
        hole |-> IF inside THEN Max({k.hole, a.end}) ELSE k.hole]

-----------------------------------------------------------------------------
(* alloc_vmap_area. *)

StartingPoint_any_size(r) ==
    IF free_vmap_cache = NULL \/ r.start < cached_vstart \/ r.align < cached_align
       \/ AlignUp(va[free_vmap_cache].end, r.align) < r.start
    THEN NULL ELSE free_vmap_cache

(* The area the search starts behind, NULL when it starts at vstart. *)
StartingPoint(r) ==
    IF \/ free_vmap_cache = NULL
       \/ r.size < cached_hole_size
       \/ r.start < cached_vstart
       \/ r.align < cached_align
       \/ AlignUp(va[free_vmap_cache].end, r.align) < r.start
    THEN NULL ELSE free_vmap_cache

(* The first area that ends at or above addr. *)
FirstArea(addr) ==
    LET Down(x) ==
            LET a == va[x.v]
                s == IF a.end >= addr THEN "left" ELSE "right"
            IN IF x.v = NULL THEN x
               ELSE [first |-> IF a.end >= addr THEN x.v ELSE x.first,
                     v |-> IF x.v <= addr /\ addr <= a.end THEN NULL
                           ELSE vmap_area_root.child[s][x.v]]
    IN Rb!Repeat(Down, [first |-> NULL, v |-> vmap_area_root.root]).first

(* From first on, the walk past the areas that leave no room for r. *)
WalkAreas(r, first, addr, hole) ==
    LET from == IF first = NULL THEN Len(vmap_area_list) + 1
                ELSE CHOOSE i \in DOMAIN vmap_area_list : vmap_area_list[i] = first
        Walk(x, v) ==
            LET a == va[v]
            IN IF x.done \/ x.addr + r.size <= v \/ x.addr + r.size > r.end
               THEN [x EXCEPT !.done = TRUE]
               ELSE [addr |-> AlignUp(a.end, r.align),
                     hole |-> IF x.addr + x.hole < v THEN v - x.addr ELSE x.hole,
                     done |-> FALSE]
    IN FoldLeft(Walk, [addr |-> addr, hole |-> hole, done |-> FALSE],
                SubSeq(vmap_area_list, from, Len(vmap_area_list)))

(* What a search for r finds: the address, the cache it keeps and the largest hole
   it noticed on the way. *)
Search(r) ==
    LET cache == StartingPoint(r)
        addr == IF cache = NULL THEN AlignUp(r.start, r.align) ELSE AlignUp(va[cache].end, r.align)
        first == IF cache = NULL THEN FirstArea(addr) ELSE cache
        walk == WalkAreas(r, first, addr, IF cache = NULL THEN 0 ELSE cached_hole_size)
    IN [cache |-> cache, addr |-> walk.addr, hole |-> walk.hole]

(* Struct vmap_area is allocated before the search; a call starts only while there
   are structures for it and for the calls that wait to search again. *)
Structures(n) ==
    LET Wanted(c) == CASE th[c].op = "alloc" /\ th[c].vas = <<>> -> 1
                       [] th[c].op = "pcpu" /\ th[c].vas = <<>> -> Cardinality(Groups)
                       [] OTHER -> 0
    IN Cardinality(InTree) + n + MapThenSumSet(Wanted, Cpu) <= MaxAreas

(* What an exhausted search does: purge once and search again, then give up. *)
Overflow(t) == IF t.purged THEN Idle ELSE [t EXCEPT !.pc = "purge"]

(* The search of alloc_vmap_area, under vmap_area_lock. *)
alloc_vmap_area(c, t) ==
    LET r == t.req
        s == Search(r)
        fits == s.addr + r.size <= r.end
    IN /\ cached_vstart' = r.start
       /\ cached_align' = r.align
       /\ cached_hole_size' = s.hole
       /\ free_vmap_cache' = IF fits THEN s.addr ELSE s.cache
       /\ IF fits
          THEN /\ SetMap(__insert_vmap_area(AsMap, s.addr, s.addr + r.size))
               /\ th' = [th EXCEPT ![c] = [t EXCEPT !.pc = "setup", !.purged = FALSE, !.vas = <<s.addr>>]]
               /\ bug' = (bug \/ s.addr % r.align # 0 \/ s.addr < r.start \/ s.addr \in InTree)
          ELSE /\ th' = [th EXCEPT ![c] = Overflow(t)]
               /\ UNCHANGED <<tree, bug>>
       /\ UNCHANGED <<vmap_area_pcpu_hole, lazy, owned, stale>>

__get_vm_area_node(c, r) ==
    /\ th[c] = Idle
    /\ Structures(1)
    /\ alloc_vmap_area(c, [Idle EXCEPT !.op = "alloc", !.req = r])

alloc_vmap_area_retry(c) ==
    /\ th[c].pc = "alloc"
    /\ alloc_vmap_area(c, th[c])

(* The areas vs get their vm_structs. *)
setup_vmalloc_vm(vs) == [v \in Va |-> [va[v] EXCEPT !.vm = @ \/ v \in Range(vs)]]

(* The rest of the call.  vmalloc goes on to allocate the pages and the array that names
   them, and gives the area back when that fails half-way; everyone else has what they
   asked for. *)
__vmalloc_node_range(c) ==
    LET t == th[c]
    IN /\ t.pc = "setup"
       /\ va' = setup_vmalloc_vm(t.vas)
       /\ \/ /\ owned' = owned \cup {t.vas}
             /\ th' = [th EXCEPT ![c] = Idle]
          \/ /\ t.req.populate
             /\ th' = [th EXCEPT ![c] = [Idle EXCEPT !.op = "free", !.pc = "remove", !.vas = t.vas]]
             /\ UNCHANGED owned
       /\ UNCHANGED <<vmap_area_root, vmap_area_list, search, vmap_area_pcpu_hole, lazy, stale, bug>>

-----------------------------------------------------------------------------
(* Freeing.  The area is looked up by its address, loses its vm_struct and is
   unmapped (remove_vm_area), and its pages are added to the counter before it is
   added to the list (free_vmap_area_noflush): nothing another CPU sees lies between
   the two. *)
(* atomic_fetch_add instead of atomic_add_return. *)
nr_lazy_before(n) == vmap_lazy_nr

nr_lazy(n) == vmap_lazy_nr + n

remove_vm_area(c, vs) ==
    LET v == Head(vs)
    IN /\ bug' = (bug \/ __find_vmap_area(v) # v \/ ~va[v].vm)
       /\ va' = [va EXCEPT ![v].vm = FALSE]
       /\ stale' = stale \cup Pages(v)
       /\ vmap_lazy_nr' = vmap_lazy_nr + Cardinality(Pages(v))
       /\ th' = [th EXCEPT ![c] = [Idle EXCEPT !.op = "free", !.pc = "llist_add", !.vas = vs,
                                               !.nr = nr_lazy(Cardinality(Pages(v)))]]
       /\ UNCHANGED <<vmap_area_root, vmap_area_list, search, vmap_area_pcpu_hole, vmap_purge_list>>

(* vfree, vunmap, free_vm_area, and pcpu_free_vm_areas for the first of its areas.
   The caller owns the areas and gives them up. *)
vfree(c, vs) ==
    /\ th[c] = Idle
    /\ vs \in owned
    /\ owned' = owned \ {vs}
    /\ remove_vm_area(c, vs)

(* The next area of pcpu_free_vm_areas, and an area whose pages are missing. *)
vfree_next(c) ==
    /\ th[c].pc = "remove"
    /\ remove_vm_area(c, th[c].vas)
    /\ UNCHANGED owned

(* Where a call goes on after a purge, or when none is needed. *)
Return(t) ==
    CASE t.op \in {"alloc", "pcpu"} -> [t EXCEPT !.pc = t.op, !.purged = TRUE, !.valist = <<>>]
      [] t.op = "free" /\ t.vas # <<>> -> [t EXCEPT !.pc = "remove", !.nr = 0, !.valist = <<>>]
      [] OTHER -> Idle

llist_add(c) ==
    LET t == [th[c] EXCEPT !.vas = Tail(@)]
    IN /\ th[c].pc = "llist_add"
       /\ vmap_purge_list' = <<Head(th[c].vas)>> \o vmap_purge_list
       /\ th' = [th EXCEPT ![c] = IF t.nr > lazy_max_pages THEN [t EXCEPT !.pc = "purge"] ELSE Return(t)]
       /\ UNCHANGED <<tree, search, vmap_area_pcpu_hole, vmap_lazy_nr, owned, stale, bug>>

-----------------------------------------------------------------------------
(* __purge_vmap_area_lazy, from try_purge_vmap_area_lazy and
   purge_vmap_area_lazy: take the whole list and flush, then free. *)

(* The end of the area added first, not the highest end. *)
FlushRange_last_end(vs) == Min(Range(vs))..(va[vs[Len(vs)]].end - 1)

FlushRange(vs) == Min(Range(vs))..(Max({va[v].end : v \in Range(vs)}) - 1)

llist_del_all(c) ==
    /\ th[c].pc = "purge"
    /\ vmap_purge_list' = <<>>
    /\ IF vmap_purge_list = <<>>
       THEN th' = [th EXCEPT ![c] = Return(@)] /\ UNCHANGED stale
       ELSE /\ th' = [th EXCEPT ![c] = [@ EXCEPT !.pc = "free", !.valist = vmap_purge_list]]
            /\ stale' = stale \ FlushRange(vmap_purge_list)
    /\ UNCHANGED <<tree, search, vmap_area_pcpu_hole, vmap_lazy_nr, owned, bug>>

__purge_vmap_area_lazy(c) ==
    LET before == [va |-> va, root |-> vmap_area_root, list |-> vmap_area_list,
                   cache |-> free_vmap_cache, hole |-> vmap_area_pcpu_hole]
        after == FoldLeft(__free_vmap_area, before, th[c].valist)
        nr == MapThenSumSet(LAMBDA v : Cardinality(Pages(v)), Range(th[c].valist))
    IN /\ th[c].pc = "free"
       /\ SetMap(after)
       /\ free_vmap_cache' = after.cache
       /\ vmap_area_pcpu_hole' = after.hole
       /\ vmap_lazy_nr' = vmap_lazy_nr - nr
       /\ bug' = (bug \/ ~(Range(th[c].valist) \subseteq InTree))
       /\ th' = [th EXCEPT ![c] = Return(@)]
       /\ UNCHANGED <<cached_hole_size, cached_vstart, cached_align, vmap_purge_list, owned, stale>>
-----------------------------------------------------------------------------
(* pcpu_get_vm_areas: areas at fixed offsets from a base that is lowered from the
   top until all of them fit. *)

(* The areas whose ends enclose end. *)
pvm_find_next_prev(end) ==
    LET Down(x) ==
            LET s == IF end < va[x.v].end THEN "left" ELSE "right"
            IN IF x.v = NULL THEN x
               ELSE [last |-> x.v, v |-> IF end = va[x.v].end THEN NULL ELSE vmap_area_root.child[s][x.v]]
        at == Rb!Repeat(Down, [last |-> NULL, v |-> vmap_area_root.root]).last
    IN CASE at = NULL -> [next |-> NULL, prev |-> NULL]
         [] at # NULL /\ va[at].end > end -> [next |-> at, prev |-> Rb!rb_prev(vmap_area_root, at)]
         [] OTHER -> [next |-> Rb!rb_next(vmap_area_root, at), prev |-> at]

(* The highest aligned address below next, and the areas around it. *)
pvm_determine_end(np) ==
    LET top == AlignDown(VMALLOC_END, PcpuAlign)
        addr == IF np.next = NULL THEN top ELSE Min({AlignDown(np.next, PcpuAlign), top})
        Shift(x) == IF x.prev # NULL /\ va[x.prev].end > addr
                    THEN [next |-> x.prev, prev |-> Rb!rb_prev(vmap_area_root, x.prev)] ELSE x
        around == Rb!Repeat(Shift, np)
    IN [next |-> around.next, prev |-> around.prev, addr |-> addr]

EndOf(a) == Offsets[a] + Sizes[a]

(* The areas that fitted at the old base are not checked again at the new one. *)
Lower_keep_term(x, np) ==
    LET d == pvm_determine_end(np)
    IN [x EXCEPT !.base = d.addr - EndOf(x.area), !.next = d.next, !.prev = d.prev]

(* base is lowered so that area x.area ends right below np.next. *)
Lower(x, np) ==
    LET d == pvm_determine_end(np)
    IN [x EXCEPT !.base = d.addr - EndOf(x.area), !.next = d.next, !.prev = d.prev, !.term = x.area]

ScanStep(x) ==
    LET end == x.base + EndOf(x.area)
        start == x.base + Offsets[x.area]
        before == IF x.area = 1 THEN Len(Offsets) ELSE x.area - 1
        np == pvm_find_next_prev(x.base + EndOf(before))
    IN CASE x.out # "scan" -> x
         [] x.out = "scan" /\ (\/ x.next # NULL /\ va[x.next].end <= end
                               \/ x.prev # NULL /\ va[x.prev].end > end) -> [x EXCEPT !.out = "bug"]
         [] OTHER ->
              IF x.base < AlignUp(VMALLOC_START, PcpuAlign) THEN [x EXCEPT !.out = "overflow"]
              ELSE IF x.next # NULL /\ x.next < end
                   THEN Lower(x, [next |-> x.next, prev |-> x.prev])
              ELSE IF x.prev # NULL /\ va[x.prev].end > start
                   THEN Lower(x, [next |-> x.prev, prev |-> Rb!rb_prev(vmap_area_root, x.prev)])
              ELSE IF before = x.term THEN [x EXCEPT !.out = "found"]
              ELSE [x EXCEPT !.area = before, !.next = np.next, !.prev = np.prev]

(* Twice as many steps as there can be areas are enough for the scan to end. *)
PcpuScan ==
    LET from == [area |-> LastArea, term |-> LastArea, base |-> 0, next |-> NULL, prev |-> NULL, out |-> "scan"]
    IN IF vmap_area_list = <<>>
       THEN [from EXCEPT !.base = AlignDown(VMALLOC_END, PcpuAlign) - LastEnd, !.out = "found"]
       ELSE Rb!Repeat(ScanStep, Rb!Repeat(ScanStep, Lower(from, pvm_find_next_prev(vmap_area_pcpu_hole))))

pcpu_place_vm_areas(c, t) ==
    LET s == PcpuScan
        Insert(m, a) == __insert_vmap_area(m, s.base + Offsets[a], s.base + EndOf(a))
    IN /\ IF s.out = "found"
          THEN /\ SetMap(FoldLeft(Insert, AsMap, [a \in Groups |-> a]))
               /\ vmap_area_pcpu_hole' = s.base + Offsets[LastArea]
               /\ th' = [th EXCEPT ![c] = [t EXCEPT !.pc = "setup", !.purged = FALSE,
                                                    !.vas = [a \in Groups |-> s.base + Offsets[a]]]]
          ELSE /\ th' = [th EXCEPT ![c] = Overflow(t)]
               /\ UNCHANGED <<tree, vmap_area_pcpu_hole>>
       /\ bug' = \/ bug
                 \/ s.out \in {"bug", "scan"}
                 \/ s.out = "found" /\ \E a \in Groups : s.base + Offsets[a] \in InTree
       /\ UNCHANGED <<search, lazy, owned, stale>>

pcpu_get_vm_areas(c) ==
    /\ th[c] = Idle
    /\ Structures(Len(Offsets))
    /\ pcpu_place_vm_areas(c, [Idle EXCEPT !.op = "pcpu"])

pcpu_get_vm_areas_retry(c) ==
    /\ th[c].pc = "pcpu"
    /\ pcpu_place_vm_areas(c, th[c])

-----------------------------------------------------------------------------
(* vm_area_add_early keeps vmlist sorted; vmalloc_init imports it. *)
vmlist == SortSeq(Early, LAMBDA a, b : a[1] < b[1])

vmalloc_init ==
    LET empty == [va |-> [v \in Va |-> NoArea], root |-> Rb!RB_ROOT, list |-> <<>>]
        Import(m, e) ==
            [__insert_vmap_area(m, e[1], e[2]) EXCEPT !.va[e[1]].vm = TRUE]
    IN FoldLeft(Import, empty, vmlist)

Init ==
    /\ va = vmalloc_init.va
    /\ vmap_area_root = vmalloc_init.root
    /\ vmap_area_list = vmalloc_init.list
    /\ free_vmap_cache = NULL
    /\ cached_hole_size = 0 /\ cached_vstart = 0 /\ cached_align = 0
    /\ vmap_area_pcpu_hole = VMALLOC_END
    /\ vmap_purge_list = <<>> /\ vmap_lazy_nr = 0
    /\ th = [c \in Cpu |-> Idle]
    /\ owned = {}
    /\ stale = {}
    /\ bug = FALSE

Next ==
    \E c \in Cpu :
        \/ \E r \in Request : __get_vm_area_node(c, r)
        \/ alloc_vmap_area_retry(c)
        \/ __vmalloc_node_range(c)
        \/ \E vs \in owned : vfree(c, vs)
        \/ vfree_next(c)
        \/ llist_add(c)
        \/ llist_del_all(c)
        \/ __purge_vmap_area_lazy(c)
        \/ pcpu_get_vm_areas(c)
        \/ pcpu_get_vm_areas_retry(c)

Spec == Init /\ [][Next]_vars

-----------------------------------------------------------------------------
(* Properties. *)

(* The search cache and the calls in progress name areas that are in the tree
   (__free_vmap_area moves free_vmap_cache before an area goes), and the counters
   stay in range. *)
TypeOK ==
    /\ va \in [Va -> [end : VMALLOC_START..VMALLOC_END, vm : BOOLEAN] \cup {NoArea}]
    /\ vmap_area_root \in Rb!Tree
    /\ free_vmap_cache \in InTree \cup {NULL}
    /\ \A v \in Range(vmap_area_list) : v \in InTree
    /\ cached_hole_size \in Nat /\ vmap_lazy_nr \in Nat
    /\ vmap_area_pcpu_hole \in VMALLOC_START..VMALLOC_END
    /\ stale \subseteq VMALLOC_START..(VMALLOC_END - 1)
    /\ \A c \in Cpu : th[c].req \in Request \cup {NoRequest} /\ Range(th[c].vas) \subseteq InTree

(* The areas of the list are sorted and not empty, no two share a page, a lazily freed
   one included, and the tree holds the same areas in the same order: walks that start in
   one and go on in the other see the same areas. (alloc_vmap_area, pcpu_get_vm_areas,
   __insert_vmap_area, __free_vmap_area) *)
SortedDisjoint ==
    /\ \A i, j \in DOMAIN vmap_area_list :
          i < j => va[vmap_area_list[i]].end <= vmap_area_list[j]
    /\ \A v \in InTree : v < va[v].end
    /\ InTree = Range(vmap_area_list)
    /\ Rb!InOrder(vmap_area_root) = vmap_area_list

(* The areas somebody uses or is about to: not yet handed to the lazy free. *)
Live ==
    InTree \ (Range(vmap_purge_list) \cup UNION {Range(th[c].valist) : c \in Cpu}
               \cup {Head(th[c].vas) : c \in {d \in Cpu : th[d].pc = "llist_add"}})

(* An address is handed out again only after the TLB flush that followed its
   unmapping. (__purge_vmap_area_lazy) *)
NoStaleTranslation == \A v \in Live : Pages(v) \cap stale = {}

(* vmap_lazy_nr counts exactly the pages that are lazily freed and not yet returned,
   and once no call is in progress there are at most lazy_max_pages of them.
   (free_vmap_area_noflush, __purge_vmap_area_lazy) *)
LazyAccounted ==
    /\ vmap_lazy_nr = MapThenSumSet(LAMBDA v : Cardinality(Pages(v)),
                          InTree \ Live)
    /\ (\A c \in Cpu : th[c] = Idle) => vmap_lazy_nr <= lazy_max_pages

(* No page of base .. base + size - 1 belongs to an area. *)
Free(base, size) == \A v \in InTree : va[v].end <= base \/ base + size <= v

(* alloc_vmap_area gives up only when no aligned hole in its range is larger than the
   request (a hole of exactly its size below the cached area is overlooked: the code
   compares size < cached_hole_size), and pcpu_get_vm_areas only when no base fits,
   whatever the search cache and vmap_area_pcpu_hole remember. *)
FailsOnlyWhenFull ==
    [][\A c \in Cpu :
         th[c].purged /\ th'[c] = Idle =>
            /\ th[c].pc = "alloc" =>
                  \A addr \in th[c].req.start..(th[c].req.end - th[c].req.size - 1) :
                      addr % th[c].req.align = 0 => ~Free(addr, th[c].req.size + 1)
            /\ th[c].pc = "pcpu" =>
                  \A base \in VMALLOC_START..(VMALLOC_END - LastEnd) :
                      base % PcpuAlign = 0 => \E a \in Groups : ~Free(base + Offsets[a], Sizes[a])]_vars

(* No BUG_ON of alloc_vmap_area, pcpu_get_vm_areas or __free_vmap_area fires, the scan
   for per-CPU areas ends, and an area that is freed is found by its address. *)
NoBug == ~bug
=============================================================================
