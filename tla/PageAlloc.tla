----------------------------- MODULE PageAlloc -----------------------------
(***************************************************************************)
(* The page allocator, mm/page_alloc.c: the buddy lists of the zones, the  *)
(* per-CPU page lists in front of them, the reference counts, and the      *)
(* hand-over from the boot pagesets to the real ones.                      *)
(*                                                                         *)
(* Tasks interleave between the sections that zone->lock (for the buddy    *)
(* lists) and local_irq_save (for a CPU's page list) make atomic.          *)
(***************************************************************************)
EXTENDS Integers, Sequences, FiniteSets, FiniteSetsExt

CONSTANTS
    MAX_ORDER,     \* number of block orders (11)
    Pfns,          \* the page frames that are memory: pfn_valid
    Zones,         \* populated zones
    page_zone_id,  \* zone of each page frame
    BootBlocks,    \* the free blocks that boot code hands over, as <<pfn, order>>
    Tasks,         \* callers
    Boot,          \* the task that runs start_kernel
    Cpu,           \* CPU of each task
    zone_batchsize,\* pages moved between a page list and the buddy lists at once
    HighBatches,   \* a page list holds up to this many batches (6)
    MaxHeld        \* bound: blocks a task holds at once

ASSUME PfnsAssumption == Pfns \subseteq Nat /\ page_zone_id \in [Pfns -> Zones]
ASSUME TasksAssumption == Boot \in Tasks /\ DOMAIN Cpu = Tasks /\ IsFiniteSet(Tasks)
ASSUME SizesAssumption ==
    MAX_ORDER \in Nat \ {0} /\ zone_batchsize \in Nat /\ HighBatches \in Nat \ {0}

VARIABLES
    page,       \* struct page of each frame
    free_area,  \* per zone and order: free_list, in list order
    nr_free,    \* per zone and order: the counter beside the list
    pcp,        \* per pageset: lists and count
    pageset,    \* per zone: FALSE = the boot pageset, TRUE = its own
    pc,         \* per task: what remains of its call
    cur,        \* per task: the block the call is about
    held,       \* per task: the blocks it has a reference to
    toboot,     \* BootBlocks not handed over yet
    bug         \* the last step ran into a BUG_ON or a bad_page check

zonevars == <<free_area, nr_free>>
vars == <<page, free_area, nr_free, pcp, pageset, pc, cur, held, toboot, bug>>

Orders == 0 .. MAX_ORDER - 1
Blocks == Pfns \X Orders
NoPage == -1
NoBlock == <<NoPage, 0>>
(* 1 << order, the number of pages of a block *)
Pow2[k \in 0 .. MAX_ORDER] == IF k = 0 THEN 1 ELSE 2 * Pow2[k - 1]
Frames(b) == b[1] .. b[1] + Pow2[b[2]] - 1

(* A block of a zone: aligned to its size, all memory, all in the one zone. *)
IsBlock(b) ==
    /\ b \in Blocks /\ b[1] % Pow2[b[2]] = 0
    /\ \A p \in Frames(b) : p \in Pfns /\ page_zone_id[p] = page_zone_id[b[1]]

(* What memblock_free_pages, which has no caller yet, must be given: blocks that
   __free_one_page accepts, and no page twice. *)
ASSUME BootAssumption ==
    /\ "boot" \notin Zones
    /\ \A b \in BootBlocks : IsBlock(b)
    /\ \A b, c \in BootBlocks : Frames(b) \cap Frames(c) # {} => b = c

(* The pagesets: boot_pageset has one entry per CPU, for all zones together. *)
Pagesets == (Zones \cup {"boot"}) \X {Cpu[t] : t \in Tasks}
MyPageset(t, z) == <<IF pageset[z] THEN z ELSE "boot", Cpu[t]>>

(* pageset_set_batch, with batch 0 for the boot pagesets *)
high_also_at_boot(s) == HighBatches * zone_batchsize
high(s) == IF s[1] = "boot" THEN 0 ELSE HighBatches * zone_batchsize
batch(s) == IF s[1] = "boot" THEN 1 ELSE Max({1, zone_batchsize})

-----------------------------------------------------------------------------
(* Buddies: pure operators on a view v of one zone, [page, area, free] *)

View(z) == [page |-> page, area |-> free_area[z], free |-> nr_free[z]]

Align(pfn, order) == pfn - (pfn % Pow2[order])
(* pfn ^ (1 << order) *)
__find_buddy_pfn(pfn, order) ==
    IF (pfn \div Pow2[order]) % 2 = 0 THEN pfn + Pow2[order] ELSE pfn - Pow2[order]

page_is_buddy_of_any_zone(v, p, b, order) ==
    b \in Pfns /\ v.page[b].buddy /\ v.page[b].private = order
(* pfn_valid_within(b), then page_is_buddy *)
page_is_buddy(v, p, b, order) ==
    /\ b \in Pfns
    /\ v.page[b].buddy /\ v.page[b].private = order
    /\ page_zone_id[p] = page_zone_id[b]

(* BUG_ON(page_count(buddy) != 0) *)
page_is_buddy_BUG(v, p, order) ==
    LET b == __find_buddy_pfn(p, order)
    IN page_is_buddy(v, p, b, order) /\ v.page[b].count # 0

MergedOrder_stops_early(v, pfn, order) ==
    LET p == Align(pfn, order)
    IN IF order < MAX_ORDER - 1 /\ page_is_buddy(v, p, __find_buddy_pfn(p, order), order)
       THEN order + 1 ELSE order
(* How far the merging loop gets: it stops at the first order whose buddy is
   not free as a whole. *)
MergedOrder(v, pfn, order) ==
    Max({n \in order .. MAX_ORDER - 1 :
           \A k \in order .. n - 1 :
              LET p == Align(pfn, k) IN page_is_buddy(v, p, __find_buddy_pfn(p, k), k)})

(* The block may soon grow again: its neighbour at the next order is free. *)
MaySoonMerge(v, pfn, order) ==
    /\ order < MAX_ORDER - 2
    /\ __find_buddy_pfn(pfn, order) \in Pfns
    /\ LET p == Align(pfn, order + 1)
       IN page_is_buddy(v, p, __find_buddy_pfn(p, order + 1), order + 1)

(* list_del of a list without duplicates *)
Without(list, p) ==
    LET at == {i \in DOMAIN list : list[i] = p}
        i == CHOOSE i \in at : TRUE
    IN IF at = {} THEN list
       ELSE [j \in 1 .. Len(list) - 1 |-> IF j < i THEN list[j] ELSE list[j + 1]]

__free_one_page(v, pfn, order) ==
    LET n == MergedOrder(v, pfn, order)
        base == Align(pfn, n)
        buddy(k) == __find_buddy_pfn(Align(pfn, k), k)
        merged == {buddy(k) : k \in order .. n - 1}
        pages == [p \in Pfns |->
                    IF p = base THEN [v.page[p] EXCEPT !.buddy = TRUE, !.private = n]
                    ELSE IF p \in merged
                    THEN [v.page[p] EXCEPT !.buddy = FALSE, !.private = 0]
                    ELSE v.page[p]]
    IN [page |-> pages,
        area |-> [k \in Orders |->
                    IF k \in order .. n - 1 THEN Without(v.area[k], buddy(k))
                    ELSE IF k # n THEN v.area[k]
                    ELSE IF MaySoonMerge([v EXCEPT !.page = pages], base, n)
                    THEN Append(v.area[k], base) ELSE <<base>> \o v.area[k]],
        free |-> [k \in Orders |->
                    IF k \in order .. n - 1 THEN v.free[k] - 1
                    ELSE IF k = n THEN v.free[k] + 1 ELSE v.free[k]]]

(* The BUG_ONs on the way: the page still has flags, pfn is not aligned, or a buddy that is
   about to be merged, or the neighbour at the next order, has references.  (That the zone is
   initialized is a matter of zone setup.) *)
__free_one_page_BUG(v, pfn, order) ==
    LET n == MergedOrder(v, pfn, order)
    IN \/ v.page[pfn].head \/ v.page[pfn].buddy
       \/ pfn % Pow2[order] # 0
       \/ \E k \in order .. n - 1 : page_is_buddy_BUG(v, Align(pfn, k), k)
       \/ MaySoonMerge(v, Align(pfn, n), n) /\ page_is_buddy_BUG(v, Align(pfn, n + 1), n + 1)

expand_sets_no_order(v, pfn, low, hi) ==
    [page |-> [p \in Pfns |-> IF \E k \in low .. hi - 1 : p = pfn + Pow2[k]
                              THEN [v.page[p] EXCEPT !.buddy = TRUE] ELSE v.page[p]],
     area |-> [k \in Orders |->
                 IF k \in low .. hi - 1 THEN <<pfn + Pow2[k]>> \o v.area[k] ELSE v.area[k]],
     free |-> [k \in Orders |->
                 IF k \in low .. hi - 1 THEN v.free[k] + 1 ELSE v.free[k]]]
(* expand: the upper halves of a block of order high go back, down to low. *)
expand(v, pfn, low, hi) ==
    [page |-> [p \in Pfns |->
                 IF \E k \in low .. hi - 1 : p = pfn + Pow2[k]
                 THEN [v.page[p] EXCEPT !.buddy = TRUE,
                          !.private = CHOOSE k \in low .. hi - 1 : p = pfn + Pow2[k]]
                 ELSE v.page[p]],
     area |-> [k \in Orders |->
                 IF k \in low .. hi - 1 THEN <<pfn + Pow2[k]>> \o v.area[k] ELSE v.area[k]],
     free |-> [k \in Orders |->
                 IF k \in low .. hi - 1 THEN v.free[k] + 1 ELSE v.free[k]]]

(* The view afterwards and the page, or NoPage. *)
__rmqueue_smallest(v, order) ==
    LET S == {k \in order .. MAX_ORDER - 1 : v.area[k] # <<>>}
        k == Min(S)
        p == Head(v.area[k])
        taken == [page |-> [v.page EXCEPT ![p].buddy = FALSE, ![p].private = 0],
                  area |-> [v.area EXCEPT ![k] = Tail(@)],
                  free |-> [v.free EXCEPT ![k] = @ - 1]]
    IN IF S = {} THEN [v |-> v, pfn |-> NoPage]
       ELSE [v |-> expand(taken, p, order, k), pfn |-> p]

(* rmqueue_bulk: up to count pages, in the order they come. *)
rmqueue_bulk(v, count) ==
    LET bulk[i \in 0 .. count] ==
          IF i = 0 THEN [v |-> v, list |-> <<>>]
          ELSE LET r == __rmqueue_smallest(bulk[i - 1].v, 0)
               IN [v |-> r.v,
                   list |-> bulk[i - 1].list \o
                              (IF r.pfn = NoPage THEN <<>> ELSE <<r.pfn>>)]
    IN bulk[count]

(* free_pcppages_bulk: the last count pages of the list go back, last first. *)
free_pcppages_bulk(v, list, count) ==
    LET bulk[i \in 0 .. count] ==
          IF i = 0 THEN v ELSE __free_one_page(bulk[i - 1], list[Len(list) + 1 - i], 0)
    IN bulk[count]

SetZone(z, v) ==
    /\ page' = v.page
    /\ free_area' = [free_area EXCEPT ![z] = v.area]
    /\ nr_free' = [nr_free EXCEPT ![z] = v.free]

(* page_expected_state of a page that is about to be given out or taken back *)
check_new_page(v, p) == v.page[p].count = 0 /\ ~v.page[p].buddy /\ ~v.page[p].head

Call(t, label, b) ==
    pc' = [pc EXCEPT ![t] = label] /\ cur' = [cur EXCEPT ![t] = b]

(* A task may start a call: the others run once boot has set up the pagesets. *)
MayCall(t) == pc[t] = "idle" /\ (t = Boot \/ \A z \in Zones : pageset[z])

-----------------------------------------------------------------------------
(* Allocation *)

(* rmqueue_pcplist: refill an empty list with a batch, then take its first page.
   A failure changes nothing. *)
rmqueue_pcplist(t, z) ==
    LET s == MyPageset(t, z)
        r == IF pcp[s].list = <<>> THEN rmqueue_bulk(View(z), batch(s))
             ELSE [v |-> View(z), list |-> <<>>]
        list == pcp[s].list \o r.list
    IN /\ list # <<>>
       /\ SetZone(z, r.v)
       /\ pcp' = [pcp EXCEPT ![s] = [list |-> Tail(list), count |-> @.count + Len(r.list) - 1]]
       /\ Call(t, "prep", <<Head(list), 0>>)
       /\ bug' = \E i \in DOMAIN r.list : ~check_new_page(r.v, r.list[i])

rmqueue(t, z, order) ==
    LET r == __rmqueue_smallest(View(z), order)
    IN /\ r.pfn # NoPage
       /\ SetZone(z, r.v)
       /\ Call(t, "prep", <<r.pfn, order>>)
       /\ bug' = \E p \in Frames(<<r.pfn, order>>) : ~check_new_page(r.v, p)
       /\ UNCHANGED pcp

(* __alloc_pages, up to the page in hand. *)
__alloc_pages(t, z, order) ==
    /\ MayCall(t) /\ Cardinality(held[t]) < MaxHeld
    /\ IF order = 0 THEN rmqueue_pcplist(t, z) ELSE rmqueue(t, z, order)
    /\ UNCHANGED <<pageset, held, toboot>>

(* prep_new_page: post_alloc_hook and prep_compound_page *)
prep_new_page(t) ==
    LET b == cur[t] IN
    /\ pc[t] = "prep"
    /\ page' = [p \in Pfns |->
                  IF p = b[1]
                  THEN [page[p] EXCEPT !.private = 0, !.count = 1,
                                       !.head = b[2] > 0, !.corder = b[2]]
                  ELSE IF p \in Frames(b)
                  THEN [page[p] EXCEPT !.count = 0, !.tail = b[1]]
                  ELSE page[p]]
    /\ bug' = (page[b[1]].tail # NoPage \/ page[b[1]].count # 0)
    /\ held' = [held EXCEPT ![t] = @ \cup {b}]
    /\ Call(t, "idle", NoBlock)
    /\ UNCHANGED <<zonevars, pcp, pageset, toboot>>

-----------------------------------------------------------------------------
(* References and freeing *)

(* get_page by a holder, for another task *)
get_page(t, u, b) ==
    /\ MayCall(t) /\ b \in held[t] /\ b \notin held[u]
    /\ Cardinality(held[u]) < MaxHeld
    /\ page' = [page EXCEPT ![b[1]].count = @ + 1]
    /\ bug' = (page[b[1]].count <= 0)
    /\ held' = [held EXCEPT ![u] = @ \cup {b}]
    /\ UNCHANGED <<zonevars, pcp, pageset, pc, cur, toboot>>

(* free_pages_prepare: the checks, and the pages with flags and tail marks cleared.
   The head of a page that goes to a page list is checked only when it leaves that
   list.  (compound_order dies with the head flag.) *)
PrepareBad(pages, b) ==
    LET h == pages[b[1]]
    IN \/ h.tail # NoPage
       \/ b[2] > 0 /\ (h.count # 0 \/ (h.head /\ h.corder # b[2]))
       \/ \E p \in Frames(b) \ {b[1]} :
             pages[p].count # 0 \/ (h.head /\ pages[p].tail # b[1])
free_pages_prepare_keeps_tails(pages, b) ==
    [p \in Pfns |->
       IF p \notin Frames(b) THEN pages[p]
       ELSE [pages[p] EXCEPT !.head = FALSE, !.buddy = FALSE, !.corder = 0]]
free_pages_prepare(pages, b) ==
    [p \in Pfns |->
       IF p \notin Frames(b) THEN pages[p]
       ELSE [pages[p] EXCEPT !.head = FALSE, !.buddy = FALSE, !.corder = 0,
                !.tail = IF p # b[1] /\ pages[b[1]].head THEN NoPage ELSE @]]

(* put_page_testzero on the head of b; the last reference makes the block private
   and prepares it for freeing. *)
PutTestZero(t, b) ==
    LET put == [page EXCEPT ![b[1]].count = @ - 1]
        last == put[b[1]].count = 0
    IN /\ page' = IF last THEN free_pages_prepare(put, b) ELSE put
       /\ bug' = (page[b[1]].count = 0 \/ (last /\ PrepareBad(put, b)))
       /\ IF last THEN Call(t, "free", b) ELSE Call(t, "idle", NoBlock)

(* __free_pages, also through free_pages *)
__free_pages(t, b) ==
    /\ MayCall(t) /\ b \in held[t]
    /\ PutTestZero(t, b)
    /\ held' = [held EXCEPT ![t] = @ \ {b}]
    /\ UNCHANGED <<zonevars, pcp, pageset, toboot>>

(* page_frag_free of an address in frame p: the head and the order come from the
   struct page. *)
page_frag_free(t, p) ==
    LET h == IF page[p].tail # NoPage THEN page[p].tail ELSE p
        b == <<h, IF page[h].head THEN page[h].corder ELSE 0>>
    IN /\ MayCall(t) /\ \E a \in held[t] : p \in Frames(a)
       /\ PutTestZero(t, b)
       /\ held' = [held EXCEPT ![t] = {a \in @ : p \notin Frames(a)}]
       /\ UNCHANGED <<zonevars, pcp, pageset, toboot>>

(* free_unref_page_commit *)
FreeUnrefPage(t, p) ==
    LET z == page_zone_id[p]
        s == MyPageset(t, z)
        list == <<p>> \o pcp[s].list
        want == IF pcp[s].count + 1 >= high(s) THEN batch(s) ELSE 0
        n == Min({want, Len(list)})
    IN /\ SetZone(z, free_pcppages_bulk(View(z), list, n))
       /\ pcp' = [pcp EXCEPT ![s] = [list |-> SubSeq(list, 1, Len(list) - n),
                                     count |-> @.count + 1 - n]]
       /\ bug' = \/ want > Len(list)      \* the loop would look for a page for ever
                 \/ \E i \in Len(list) - n + 1 .. Len(list) : page[list[i]].count # 0
                 \/ \E i \in 1 .. n : __free_one_page_BUG(free_pcppages_bulk(View(z), list, i - 1),
                                                        list[Len(list) + 1 - i], 0)

(* free_the_page, from local_irq_save on *)
free_the_page(t) ==
    LET b == cur[t]
        z == page_zone_id[b[1]]
    IN /\ pc[t] = "free"
       /\ IF b[2] = 0 THEN FreeUnrefPage(t, b[1])
          ELSE /\ SetZone(z, __free_one_page(View(z), b[1], b[2]))
               /\ bug' = __free_one_page_BUG(View(z), b[1], b[2])
               /\ UNCHANGED pcp
       /\ Call(t, "idle", NoBlock)
       /\ UNCHANGED <<pageset, held, toboot>>

-----------------------------------------------------------------------------
(* Boot *)

(* memblock_free_pages: __free_pages_boot_core, block by block upwards *)
memblock_free_pages(b) ==
    /\ pc[Boot] = "idle" /\ b \in toboot /\ \A a \in toboot : b[1] <= a[1]
    /\ LET cleared == [p \in Pfns |-> IF p \in Frames(b) THEN [page[p] EXCEPT !.count = 0]
                                      ELSE page[p]]
       IN /\ page' = free_pages_prepare(cleared, b)    \* the one reference is put at once
          /\ bug' = PrepareBad(cleared, b)
    /\ toboot' = toboot \ {b}
    /\ Call(Boot, "free", b)
    /\ UNCHANGED <<zonevars, pcp, pageset, held>>

(* setup_per_cpu_pageset gives a zone its own empty pagesets, one zone after the other;
   alloc_percpu may call the allocator in between. *)
setup_zone_pageset(z) ==
    /\ pc[Boot] = "idle" /\ ~pageset[z]
    /\ pageset' = [pageset EXCEPT ![z] = TRUE]
    /\ UNCHANGED <<page, zonevars, pcp, pc, cur, held, toboot, bug>>

Init ==
    /\ page = [p \in Pfns |-> [buddy |-> FALSE, private |-> 0, count |-> 1,
                               head |-> FALSE, corder |-> 0, tail |-> NoPage]]
    /\ free_area = [z \in Zones |-> [k \in Orders |-> <<>>]]
    /\ nr_free = [z \in Zones |-> [k \in Orders |-> 0]]
    /\ pcp = [s \in Pagesets |-> [list |-> <<>>, count |-> 0]]
    /\ pageset = [z \in Zones |-> FALSE]
    /\ pc = [t \in Tasks |-> "idle"]
    /\ cur = [t \in Tasks |-> NoBlock]
    /\ held = [t \in Tasks |-> {}]
    /\ toboot = BootBlocks
    /\ bug = FALSE

Next ==
    \/ \E b \in BootBlocks : memblock_free_pages(b)
    \/ \E z \in Zones : setup_zone_pageset(z)
    \/ \E t \in Tasks :
         \/ \E z \in Zones, order \in Orders : __alloc_pages(t, z, order)
         \/ prep_new_page(t)
         \/ \E b \in held[t] : __free_pages(t, b)
         \/ \E u \in Tasks \ {t}, b \in held[t] : get_page(t, u, b)
         \/ \E p \in Pfns : page_frag_free(t, p)
         \/ free_the_page(t)

Spec == Init /\ [][Next]_vars

-----------------------------------------------------------------------------
(* Properties *)

SeqRange(s) == {s[i] : i \in DOMAIN s}
FreeBlocks(z) == UNION {{<<p, k>> : p \in SeqRange(free_area[z][k])} : k \in Orders}
AllFree == UNION {FreeBlocks(z) : z \in Zones}
(* The lists in use: the boot lists no longer count once they are replaced. *)
LivePagesets == {s \in Pagesets : s[1] # "boot" \/ \E z \in Zones : ~pageset[z]}

(* The places where page frame q is: in a free block, at an index of a page list, in the
   hands of a call, in a block that somebody holds, or not handed over yet. *)
InFree(q) ==
    UNION {{<<z, k, i>> : i \in {j \in DOMAIN free_area[z][k] :
                                    q \in Frames(<<free_area[z][k][j], k>>)}} :
              z \in Zones, k \in Orders}
InPcp(q) == UNION {{<<s, i>> : i \in {j \in DOMAIN pcp[s].list : pcp[s].list[j] = q}} :
                      s \in LivePagesets}
InCalls(q) == {t \in Tasks : cur[t] # NoBlock /\ q \in Frames(cur[t])}
InHeld(q) == {b \in UNION {held[t] : t \in Tasks} : q \in Frames(b)}
InBoot(q) == {b \in toboot : q \in Frames(b)}

(* Every page handed over at boot is in exactly one place: none is lost when the boot
   pagesets are replaced, none is given out twice, no two blocks overlap, and nobody
   owns a page that boot did not hand over. *)
NoPageLostOrShared ==
    \A q \in Pfns :
       Cardinality(InFree(q)) + Cardinality(InPcp(q)) + Cardinality(InCalls(q))
          + Cardinality(InHeld(q)) + Cardinality(InBoot(q))
       = IF \E b \in BootBlocks : q \in Frames(b) THEN 1 ELSE 0

(* Merging is complete: no two free blocks are buddies that could be one. *)
Coalesced ==
    \A b \in AllFree :
       b[2] < MAX_ORDER - 1 /\ __find_buddy_pfn(b[1], b[2]) \in Pfns =>
          page_zone_id[b[1]] # page_zone_id[__find_buddy_pfn(b[1], b[2])]
             \/ <<__find_buddy_pfn(b[1], b[2]), b[2]>> \notin AllFree

(* A free block lies in its own zone and is aligned to its size; its first page says
   so (PageBuddy, page_order), no other page does, and the counters agree. *)
ZonesConsistent ==
    /\ \A z \in Zones : \A b \in FreeBlocks(z) :
          b[1] % Pow2[b[2]] = 0 /\ \A p \in Frames(b) : p \in Pfns /\ page_zone_id[p] = z
    /\ \A p \in Pfns : page[p].buddy <=> <<p, page[p].private>> \in AllFree
    /\ \A z \in Zones, k \in Orders : nr_free[z][k] = Len(free_area[z][k])
    /\ \A s \in Pagesets : pcp[s].count = Len(pcp[s].list)

(* No BUG_ON of allocation, references and freeing fires and no check calls a page bad:
   counts, flags and tail marks are clean whenever a page changes hands, and a free block
   that is merged has no references. (__free_one_page, page_is_buddy, check_new_page,
   free_pages_prepare, put_page_testzero) *)
NoBug == ~bug

(* is_free_buddy_page, a scan of the heads a page could have, finds exactly the pages
   of the free blocks.  (h may lie in a hole of the memory map; the struct pages of holes
   have no marks.) *)
is_free_buddy_page(p) ==
    \E k \in Orders : LET h == Align(p, k) IN
       h \in Pfns /\ page[h].buddy /\ page[h].private >= k
FreeBuddyExact ==
    \A p \in Pfns : is_free_buddy_page(p) <=> \E b \in AllFree : p \in Frames(b)
=============================================================================
