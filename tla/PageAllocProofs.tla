-------------------------- MODULE PageAllocProofs --------------------------
(***************************************************************************)
(* The page allocator keeps its books: theorems about PageAlloc for every  *)
(* set of page frames and zones, every number of orders, every layout of   *)
(* the memory handed over at boot, and every set of tasks.                 *)
(*                                                                         *)
(* The invariant says who owns each page frame: a function own from frames *)
(* to owners accounts for the free lists, the page lists, the calls under  *)
(* way, the blocks that are held and those still at boot, all at once.     *)
(***************************************************************************)
EXTENDS BuddyLemmas

(* The owners of a frame beside the free blocks, FreeIn *)
Pcp(s) == <<"pcp", s>>
InCall(t) == <<"call", t>>
Held(b) == <<"held", b>>
AtBoot(b) == <<"boot", b>>
Outside == <<"outside", 0>>

(* Frames that the allocator or one call has for itself *)
Pool == FreeOwners \cup {Pcp(s) : s \in Pagesets} \cup {InCall(t) : t \in Tasks}
Owners == Pool \cup {Held(b) : b \in Blocks} \cup {AtBoot(b) : b \in BootBlocks} \cup {Outside}

Same(own, own2, o) == \A q \in Pfns : own2[q] = o <=> own[q] = o

InvOwners(own) ==
    \A q \in Pfns : own[q] \in Owners /\ (own[q] = Outside <=> \A b \in BootBlocks : q \notin Frames(b))

InvZones(own) ==
    /\ page \in [Pfns -> PageRec]
    /\ free_area = [z \in Zones |-> free_area[z]] /\ nr_free = [z \in Zones |-> nr_free[z]]
    /\ \A z \in Zones : ZoneInv(View(z), z, own)

InvPcp(own) ==
    /\ pcp = [s \in Pagesets |-> pcp[s]] /\ pageset \in [Zones -> BOOLEAN]
    /\ \A s \in Pagesets :
          /\ IsList(pcp[s].list) /\ pcp[s].count = Len(pcp[s].list)
          /\ s[1] = "boot" => pcp[s].list = <<>>
          /\ \A q \in SeqRange(pcp[s].list) : page_zone_id[q] = s[1]
          /\ \A q \in Pfns : own[q] = Pcp(s) <=> q \in SeqRange(pcp[s].list)

InvCalls(own) ==
    /\ pc \in [Tasks -> {"idle", "prep", "free"}] /\ cur = [t \in Tasks |-> cur[t]]
    /\ \A t \in Tasks :
          /\ pc[t] = "idle" => cur[t] = NoBlock
          /\ pc[t] # "idle" => IsBlock(cur[t])
          /\ \A q \in Pfns : own[q] = InCall(t) <=> pc[t] # "idle" /\ q \in Frames(cur[t])

Holders(b) == {t \in Tasks : b \in held[t]}

InvHeld(own) ==
    /\ held \in [Tasks -> SUBSET Blocks]
    /\ \A b \in Blocks : Holders(b) # {} => IsBlock(b)
    /\ \A b \in Blocks, q \in Pfns : own[q] = Held(b) <=> Holders(b) # {} /\ q \in Frames(b)

InvBoot(own) ==
    /\ toboot \subseteq BootBlocks
    /\ \A b \in BootBlocks, q \in Pfns : own[q] = AtBoot(b) <=> b \in toboot /\ q \in Frames(b)

(* What the struct page of a frame says, by owner *)
NoMarks(pg) == ~ pg.head /\ pg.tail = NoPage
HeldPage(pg, q, b, n) ==
    IF q = b[1]
    THEN pg.count = n /\ pg.head = (b[2] > 0) /\ pg.corder = b[2] /\ pg.tail = NoPage
    ELSE pg.count = 0 /\ ~ pg.head /\ pg.tail = b[1]

InvPool(own) == \A q \in Pfns : own[q] \in Pool => page[q].count = 0 /\ NoMarks(page[q])
InvBootPages(own) == \A b \in BootBlocks, q \in Pfns : own[q] = AtBoot(b) => NoMarks(page[q])
InvRefs(own) ==
    \A b \in Blocks, q \in Pfns :
       own[q] = Held(b) => HeldPage(page[q], q, b, Cardinality(Holders(b)))

Inv(own) ==
    /\ InvOwners(own) /\ InvZones(own) /\ InvPcp(own) /\ InvCalls(own) /\ InvHeld(own)
    /\ InvBoot(own) /\ InvPool(own) /\ InvBootPages(own) /\ InvRefs(own) /\ bug = FALSE

(* The inductive invariant *)
IInv == \E own : Inv(own)

LEMMA OwnersDiffer ==
    /\ \A s : Pcp(s) \notin FreeOwners
    /\ \A t : InCall(t) \notin FreeOwners
    /\ \A b : Held(b) \notin FreeOwners /\ AtBoot(b) \notin FreeOwners
    /\ Outside \notin FreeOwners
    /\ \A s, t, b, c : /\ Pcp(s) # InCall(t) /\ Pcp(s) # Held(b) /\ Pcp(s) # AtBoot(c) /\ Pcp(s) # Outside
                       /\ InCall(t) # Held(b) /\ InCall(t) # AtBoot(c) /\ InCall(t) # Outside
                       /\ Held(b) # AtBoot(c) /\ Held(b) # Outside /\ AtBoot(c) # Outside
    /\ \A x, y : /\ Pcp(x) = Pcp(y) => x = y
                 /\ InCall(x) = InCall(y) => x = y
                 /\ Held(x) = Held(y) => x = y
                 /\ AtBoot(x) = AtBoot(y) => x = y
BY DEF Pcp, InCall, Held, AtBoot, Outside, FreeOwners, FreeIn

(* The pagesets *)
LEMMA PagesetFacts ==
    ASSUME NEW t \in Tasks, NEW z \in Zones
    PROVE  /\ MyPageset(t, z) \in Pagesets
           /\ MyPageset(t, z)[1] = IF pageset[z] THEN z ELSE "boot"
           /\ z # "boot"
BY BootAssumption DEF MyPageset, Pagesets

LEMMA PoolFacts ==
    /\ Pool \subseteq Owners /\ FreeOwners \subseteq Pool
    /\ \A s \in Pagesets : Pcp(s) \in Pool
    /\ \A t \in Tasks : InCall(t) \in Pool
    /\ \A b \in Blocks : Held(b) \in Owners /\ Held(b) \notin Pool
    /\ \A b \in BootBlocks : AtBoot(b) \in Owners /\ AtBoot(b) \notin Pool
    /\ Outside \in Owners /\ Outside \notin Pool
BY OwnersDiffer DEF Pool, Owners

-----------------------------------------------------------------------------
(* What does not change *)

LEMMA CallsKept ==
    ASSUME NEW own, NEW own2, InvCalls(own), UNCHANGED <<pc, cur>>,
           \A t \in Tasks : Same(own, own2, InCall(t))
    PROVE  InvCalls(own2)'
BY DEF InvCalls, Same

LEMMA HeldKept ==
    ASSUME NEW own, NEW own2, InvHeld(own), UNCHANGED held,
           \A b \in Blocks : Same(own, own2, Held(b))
    PROVE  InvHeld(own2)'
BY DEF InvHeld, Holders, Same

LEMMA BootKept ==
    ASSUME NEW own, NEW own2, InvBoot(own), UNCHANGED toboot,
           \A b \in BootBlocks : Same(own, own2, AtBoot(b))
    PROVE  InvBoot(own2)'
BY DEF InvBoot, Same

LEMMA PcpKept ==
    ASSUME NEW own, NEW own2, InvPcp(own), UNCHANGED <<pcp, pageset>>,
           \A s \in Pagesets : Same(own, own2, Pcp(s))
    PROVE  InvPcp(own2)'
BY DEF InvPcp, Same

LEMMA OwnersKept ==
    ASSUME NEW own, NEW own2, InvOwners(own),
           \A q \in Pfns : own2[q] = own[q] \/ (own2[q] \in Owners \ {Outside} /\ own[q] # Outside)
    PROVE  InvOwners(own2)
BY DEF InvOwners

(* A call starts, and has a block for itself. *)
LEMMA CallStarts ==
    ASSUME NEW own, NEW own2, InvCalls(own), NEW t \in Tasks, pc[t] = "idle",
           NEW l \in {"prep", "free"}, NEW b, Call(t, l, b), IsBlock(b),
           \A q \in Pfns : own2[q] = InCall(t) <=> q \in Frames(b),
           \A u \in Tasks \ {t} : Same(own, own2, InCall(u))
    PROVE  InvCalls(own2)'
<1>1. pc' = [pc EXCEPT ![t] = l] /\ cur' = [cur EXCEPT ![t] = b]
  BY DEF Call
<1>2. pc' \in [Tasks -> {"idle", "prep", "free"}] /\ cur' = [u \in Tasks |-> cur'[u]]
      /\ pc'[t] = l /\ cur'[t] = b /\ l # "idle"
      /\ \A u \in Tasks \ {t} : pc'[u] = pc[u] /\ cur'[u] = cur[u]
  BY <1>1 DEF InvCalls
<1>3. ASSUME NEW u \in Tasks
      PROVE  /\ pc'[u] = "idle" => cur'[u] = NoBlock
             /\ pc'[u] # "idle" => IsBlock(cur'[u])
             /\ \A q \in Pfns : own2[q] = InCall(u) <=> pc'[u] # "idle" /\ q \in Frames(cur'[u])
  <2>1. CASE u = t
    BY <1>2, <2>1
  <2>2. CASE u # t
    BY <1>2, <2>2 DEF InvCalls, Same
  <2> QED BY <2>1, <2>2
<1> QED BY <1>2, <1>3 DEF InvCalls, IsBlock

(* A call ends. *)
LEMMA CallEnds ==
    ASSUME NEW own, NEW own2, InvCalls(own), NEW t \in Tasks, Call(t, "idle", NoBlock),
           \A q \in Pfns : own2[q] # InCall(t),
           \A u \in Tasks \ {t} : Same(own, own2, InCall(u))
    PROVE  InvCalls(own2)'
<1>1. pc' = [pc EXCEPT ![t] = "idle"] /\ cur' = [cur EXCEPT ![t] = NoBlock]
  BY DEF Call
<1>2. pc' \in [Tasks -> {"idle", "prep", "free"}] /\ cur' = [u \in Tasks |-> cur'[u]]
      /\ pc'[t] = "idle" /\ cur'[t] = NoBlock
      /\ \A u \in Tasks \ {t} : pc'[u] = pc[u] /\ cur'[u] = cur[u]
  BY <1>1 DEF InvCalls
<1>3. ASSUME NEW u \in Tasks
      PROVE  /\ pc'[u] = "idle" => cur'[u] = NoBlock
             /\ pc'[u] # "idle" => IsBlock(cur'[u])
             /\ \A q \in Pfns : own2[q] = InCall(u) <=> pc'[u] # "idle" /\ q \in Frames(cur'[u])
  <2>1. CASE u = t
    BY <1>2, <2>1
  <2>2. CASE u # t
    BY <1>2, <2>2 DEF InvCalls, Same
  <2> QED BY <2>1, <2>2
<1> QED BY <1>2, <1>3 DEF InvCalls, IsBlock

(* A zone's free lists stay as they are when its free frames, and the buddy marks of its
   pages, do. *)
LEMMA FreeSetsKept ==
    ASSUME NEW pg, NEW pg2, NEW R, NEW z, NEW own, NEW own2, FreeSets(pg, R, z, own),
           pg2 \in [Pfns -> PageRec],
           \A q \in Pfns : page_zone_id[q] = z =>
              /\ pg2[q].buddy = pg[q].buddy /\ (pg[q].buddy => pg2[q].private = pg[q].private)
              /\ own2[q] = own[q] \/ (own[q] \notin FreeOwners /\ own2[q] \notin FreeOwners)
    PROVE  FreeSets(pg2, R, z, own2)
<1>1. /\ R \in [Orders -> SUBSET Pfns] /\ BlocksOwned(R, z, own) /\ OwnedInBlocks(R, z, own)
      /\ FlagsSay(pg, R, z) /\ NoBuddies(R)
  BY DEF FreeSets
<1>2. \A p \in Pfns, k \in Orders : FreeIn(p, k) \in FreeOwners
  BY DEF FreeOwners
<1>3. BlocksOwned(R, z, own2)
  <2> SUFFICES ASSUME NEW k \in Orders, NEW p \in R[k]
               PROVE  /\ IsBlock(<<p, k>>) /\ page_zone_id[p] = z
                      /\ \A q \in Frames(<<p, k>>) : own2[q] = FreeIn(p, k)
    BY DEF BlocksOwned
  <2>1. /\ IsBlock(<<p, k>>) /\ page_zone_id[p] = z /\ p \in Pfns
        /\ \A q \in Frames(<<p, k>>) : own[q] = FreeIn(p, k)
    BY <1>1 DEF BlocksOwned
  <2>2. \A q \in Frames(<<p, k>>) : q \in Pfns /\ page_zone_id[q] = z
    BY <2>1, BlockFacts
  <2> QED BY <1>2, <2>1, <2>2
<1>4. OwnedInBlocks(R, z, own2)
  BY <1>1, <1>2 DEF OwnedInBlocks
<1>5. FlagsSay(pg2, R, z)
  BY <1>1 DEF FlagsSay
<1> QED BY <1>1, <1>3, <1>4, <1>5 DEF FreeSets

LEMMA ZonesKept ==
    ASSUME NEW own, NEW own2, InvZones(own), UNCHANGED zonevars, page' \in [Pfns -> PageRec],
           \A q \in Pfns :
              /\ page'[q].buddy = page[q].buddy /\ (page[q].buddy => page'[q].private = page[q].private)
              /\ own2[q] = own[q] \/ (own[q] \notin FreeOwners /\ own2[q] \notin FreeOwners)
    PROVE  InvZones(own2)'
<1>1. free_area' = free_area /\ nr_free' = nr_free
  BY DEF zonevars
<1>2. ASSUME NEW z \in Zones PROVE ZoneInv(View(z), z, own2)'
  <2> DEFINE R == Sets(free_area[z])
             pg2 == page'
  <2>1. /\ DOMAIN free_area[z] = Orders /\ DOMAIN nr_free[z] = Orders
        /\ \A k \in Orders : IsList(free_area[z][k]) /\ nr_free[z][k] = Len(free_area[z][k])
        /\ FreeSets(page, R, z, own)
    BY DEF InvZones, ZoneInv, View
  <2> HIDE DEF R
  <2>2. FreeSets(pg2, R, z, own2)
    BY <2>1, FreeSetsKept
  <2> QED BY <1>1, <2>1, <2>2 DEF ZoneInv, View, R
<1> QED BY <1>1, <1>2 DEF InvZones

(* A step on the lists of one zone *)
LEMMA ZoneSet ==
    ASSUME NEW own, NEW own2, InvZones(own), NEW z \in Zones, NEW w, SetZone(z, w),
           ZoneInv(w, z, own2), MarksOnly(page, w.page, z),
           \A q \in Pfns : page_zone_id[q] # z =>
              own2[q] = own[q] \/ (own[q] \notin FreeOwners /\ own2[q] \notin FreeOwners)
    PROVE  InvZones(own2)'
<1>1. /\ page' = w.page /\ free_area' = [free_area EXCEPT ![z] = w.area]
      /\ nr_free' = [nr_free EXCEPT ![z] = w.free]
  BY DEF SetZone
<1> DEFINE pg2 == page'
<1>2. /\ page' \in [Pfns -> PageRec] /\ MarksOnly(page, pg2, z)
  BY <1>1 DEF ZoneInv, FreeSets
<1>3. /\ free_area' = [x \in Zones |-> free_area'[x]] /\ nr_free' = [x \in Zones |-> nr_free'[x]]
      /\ free_area'[z] = w.area /\ nr_free'[z] = w.free
      /\ \A x \in Zones \ {z} : free_area'[x] = free_area[x] /\ nr_free'[x] = nr_free[x]
  BY <1>1 DEF InvZones
<1>4. ASSUME NEW x \in Zones PROVE ZoneInv(View(x), x, own2)'
  <2>1. CASE x = z
    BY <1>1, <1>3, <2>1 DEF ZoneInv, View
  <2>2. CASE x # z
    <3> DEFINE R == Sets(free_area[x])
    <3>1. /\ DOMAIN free_area[x] = Orders /\ DOMAIN nr_free[x] = Orders
          /\ \A k \in Orders : IsList(free_area[x][k]) /\ nr_free[x][k] = Len(free_area[x][k])
          /\ FreeSets(page, R, x, own)
      BY DEF InvZones, ZoneInv, View
    <3>2. \A q \in Pfns : page_zone_id[q] = x =>
              /\ pg2[q] = page[q]
              /\ own2[q] = own[q] \/ (own[q] \notin FreeOwners /\ own2[q] \notin FreeOwners)
      BY <1>2, <2>2 DEF MarksOnly
    <3> HIDE DEF R
    <3>3. FreeSets(pg2, R, x, own2)
      BY <1>2, <3>1, <3>2, FreeSetsKept
    <3> QED BY <1>3, <2>2, <3>1, <3>3 DEF ZoneInv, View, R
  <2> QED BY <2>1, <2>2
<1> QED BY <1>2, <1>3, <1>4 DEF InvZones

(* What the pages say stays true when only buddy marks change. *)
LEMMA PagesKept ==
    ASSUME NEW own, NEW own2, InvPool(own), InvBootPages(own), InvRefs(own), UNCHANGED held,
           NEW z, MarksOnly(page, page', z),
           \A q \in Pfns : own2[q] \in Pool => own[q] \in Pool,
           \A b \in BootBlocks : Same(own, own2, AtBoot(b)),
           \A b \in Blocks : Same(own, own2, Held(b))
    PROVE  InvPool(own2)' /\ InvBootPages(own2)' /\ InvRefs(own2)'
<1>1. \A q \in Pfns : /\ page'[q].count = page[q].count /\ page'[q].head = page[q].head
                      /\ page'[q].corder = page[q].corder /\ page'[q].tail = page[q].tail
  BY DEF MarksOnly
<1>2. InvPool(own2)'
  BY <1>1 DEF InvPool, NoMarks
<1>3. InvBootPages(own2)'
  BY <1>1 DEF InvBootPages, NoMarks, Same
<1>4. InvRefs(own2)'
  <2>1. \A b : Holders(b)' = Holders(b)
    BY DEF Holders
  <2> SUFFICES ASSUME NEW b \in Blocks, NEW q \in Pfns, own2[q] = Held(b)
               PROVE  HeldPage(page'[q], q, b, Cardinality(Holders(b)'))
    BY DEF InvRefs
  <2>2. HeldPage(page[q], q, b, Cardinality(Holders(b)))
    BY DEF InvRefs, Same
  <2> QED BY <1>1, <2>1, <2>2 DEF HeldPage
<1> QED BY <1>2, <1>3, <1>4

-----------------------------------------------------------------------------
(* The initial state *)

LEMMA InitInv == Init => IInv
<1> SUFFICES ASSUME Init PROVE IInv
  OBVIOUS
<1> USE DEF Init
<1> DEFINE Of(q) == CHOOSE b \in BootBlocks : q \in Frames(b)
           own == [q \in Pfns |-> IF \E b \in BootBlocks : q \in Frames(b) THEN AtBoot(Of(q)) ELSE Outside]
<1>1. \A q \in Pfns : \A b \in BootBlocks : q \in Frames(b) => own[q] = AtBoot(b)
  <2> SUFFICES ASSUME NEW q \in Pfns, NEW b \in BootBlocks, q \in Frames(b) PROVE own[q] = AtBoot(b)
    OBVIOUS
  <2>1. Of(q) \in BootBlocks /\ q \in Frames(Of(q))
    OBVIOUS
  <2> HIDE DEF Of
  <2>2. Of(q) = b
    BY <2>1, BootAssumption
  <2> QED BY <2>2
<1>2. \A q \in Pfns : (\A b \in BootBlocks : q \notin Frames(b)) => own[q] = Outside
  OBVIOUS
<1> HIDE DEF own
<1>3. \A q \in Pfns : \/ own[q] = Outside /\ \A b \in BootBlocks : q \notin Frames(b)
                      \/ \E b \in BootBlocks : q \in Frames(b) /\ own[q] = AtBoot(b)
  BY <1>1, <1>2
<1>4. \A q \in Pfns : own[q] \notin Pool /\ own[q] \notin FreeOwners /\ own[q] \in Owners
                      /\ \A b : own[q] # Held(b)
  BY <1>3, PoolFacts, OwnersDiffer
<1>5. InvOwners(own)
  BY <1>3, <1>4, OwnersDiffer DEF InvOwners
<1>6. InvZones(own)
  <2>1. page \in [Pfns -> PageRec] /\ \A q \in Pfns : page[q].buddy = FALSE
    <3>1. 0 \in Orders
      BY OrdersFacts
    <3> QED BY <3>1 DEF PageRec
  <2>2. IsList(<<>>) /\ SeqRange(<<>>) = {} /\ Len(<<>>) = 0
    BY DEF IsList, SeqRange
  <2>3. ASSUME NEW z \in Zones PROVE ZoneInv(View(z), z, own)
    <3>1. \A k \in Orders : free_area[z][k] = <<>> /\ nr_free[z][k] = 0
      OBVIOUS
    <3>2. DOMAIN free_area[z] = Orders /\ DOMAIN nr_free[z] = Orders
      OBVIOUS
    <3>3. Sets(free_area[z]) = [k \in Orders |-> {}]
      BY <2>2, <3>1 DEF Sets
    <3>4. FreeSets(page, [k \in Orders |-> {}], z, own)
      <4> DEFINE R == [k \in Orders |-> {}]
      <4>1. R \in [Orders -> SUBSET Pfns] /\ \A k \in Orders : R[k] = {}
        OBVIOUS
      <4> HIDE DEF R
      <4>2. BlocksOwned(R, z, own) /\ FlagsSay(page, R, z)
        BY <2>1, <4>1 DEF BlocksOwned, FlagsSay
      <4>3. OwnedInBlocks(R, z, own)
        BY <1>4 DEF OwnedInBlocks, FreeOwners
      <4>4. NoBuddies(R)
        <5>1. \A k \in 0 .. MAX_ORDER - 2 : k \in Orders
          BY SizesAssumption DEF Orders
        <5> QED BY <4>1, <5>1 DEF NoBuddies
      <4> QED BY <2>1, <4>1, <4>2, <4>3, <4>4 DEF FreeSets, R
    <3> QED BY <2>2, <3>1, <3>2, <3>3, <3>4 DEF ZoneInv, View
  <2> QED BY <2>1, <2>3 DEF InvZones
<1>7. InvPcp(own)
  <2>1. IsList(<<>>) /\ SeqRange(<<>>) = {} /\ Len(<<>>) = 0
    BY DEF IsList, SeqRange
  <2>2. \A s \in Pagesets : pcp[s].list = <<>> /\ pcp[s].count = 0
    OBVIOUS
  <2>3. \A s \in Pagesets : \A q \in Pfns : own[q] # Pcp(s)
    BY <1>4, PoolFacts
  <2>4. pcp = [s \in Pagesets |-> pcp[s]] /\ pageset \in [Zones -> BOOLEAN]
    OBVIOUS
  <2> QED BY <2>1, <2>2, <2>3, <2>4 DEF InvPcp
<1>8. InvCalls(own)
  BY <1>4, PoolFacts DEF InvCalls
<1>9. InvHeld(own)
  BY <1>4 DEF InvHeld, Holders
<1>10. InvBoot(own)
  BY <1>1, <1>3, OwnersDiffer DEF InvBoot
<1>11. InvPool(own) /\ InvBootPages(own) /\ InvRefs(own)
  BY <1>4 DEF InvPool, InvBootPages, InvRefs, NoMarks
<1> QED BY <1>5, <1>6, <1>7, <1>8, <1>9, <1>10, <1>11 DEF IInv, Inv

-----------------------------------------------------------------------------
(* A block changes hands *)

LEMMA BlockParts ==
    ASSUME NEW b, IsBlock(b)
    PROVE  /\ b \in Blocks /\ b = <<b[1], b[2]>> /\ b[1] \in Pfns /\ b[2] \in Orders /\ b[2] \in Nat
           /\ b[1] \in Frames(b) /\ b # NoBlock
           /\ \A q \in Frames(b) : q \in Pfns /\ page_zone_id[q] = page_zone_id[b[1]]
<1>1. b \in Blocks /\ \A q \in Frames(b) : q \in Pfns /\ page_zone_id[q] = page_zone_id[b[1]]
  BY DEF IsBlock
<1>2. b = <<b[1], b[2]>> /\ b[1] \in Pfns /\ b[2] \in Orders
  BY <1>1 DEF Blocks
<1>3. IsBlock(<<b[1], b[2]>>)
  BY <1>2
<1>4. b[1] \in Frames(<<b[1], b[2]>>)
  BY <1>3, BlockFacts
<1>5. b[1] \in Frames(b)
  BY <1>2, <1>4
<1>6. b[1] # NoPage
  BY <1>2, PfnsAssumption DEF NoPage
<1>7. b # NoBlock
  BY <1>6 DEF NoBlock
<1>8. b[2] \in Nat
  BY <1>2, OrdersFacts
<1> QED BY <1>1, <1>2, <1>5, <1>7, <1>8

LEMMA NoBuddyMark ==
    ASSUME NEW own, InvZones(own), NEW q \in Pfns, own[q] \notin FreeOwners
    PROVE  page[q].buddy = FALSE
<1> DEFINE z == page_zone_id[q]
           R == Sets(free_area[z])
<1>1. z \in Zones
  BY PfnsAssumption
<1>2. FreeSets(page, R, z, own)
  BY <1>1 DEF InvZones, ZoneInv, View
<1> HIDE DEF R
<1> QED BY <1>2, NotFreeNoMark

Retag(own, B, y) == [q \in Pfns |-> IF q \in B THEN y ELSE own[q]]

(* The frames of b go from x to y, which had none. *)
HandOver(own, b, x, y) ==
    /\ IsBlock(b) /\ \A q \in Pfns : own[q] = x <=> q \in Frames(b)
    /\ x \notin FreeOwners /\ y \in Owners /\ y \notin FreeOwners
    /\ x # y /\ x # Outside /\ y # Outside /\ \A q \in Pfns : own[q] # y

HandedOver(own, own2, b, x, y) ==
    /\ \A q \in Frames(b) : own[q] = x /\ own2[q] = y
    /\ \A q \in Pfns \ Frames(b) : own2[q] = own[q] /\ own[q] # x /\ own[q] # y
    /\ \A q \in Pfns : own2[q] = y <=> q \in Frames(b)
    /\ \A q \in Pfns : own2[q] # x
    /\ \A o : o # x /\ o # y => Same(own, own2, o)
    /\ \A q \in Pfns : own2[q] = own[q] \/ (own[q] \notin FreeOwners /\ own2[q] \notin FreeOwners)
    /\ InvOwners(own2)

LEMMA HandsOver ==
    ASSUME NEW own, NEW b, NEW x, NEW y, InvOwners(own), HandOver(own, b, x, y)
    PROVE  HandedOver(own, Retag(own, Frames(b), y), b, x, y)
<1> DEFINE own2 == Retag(own, Frames(b), y)
<1>1. \A q \in Frames(b) : q \in Pfns
  BY BlockParts DEF HandOver
<1>2. \A q \in Frames(b) : own[q] = x /\ own2[q] = y
  BY <1>1 DEF Retag, HandOver
<1>3. \A q \in Pfns \ Frames(b) : own2[q] = own[q] /\ own[q] # x /\ own[q] # y
  BY DEF Retag, HandOver
<1> HIDE DEF own2
<1>4. \A q \in Pfns : own2[q] = y <=> q \in Frames(b)
  BY <1>2, <1>3
<1>5. \A q \in Pfns : own2[q] # x
  BY <1>2, <1>3 DEF HandOver
<1>6. \A o : o # x /\ o # y => Same(own, own2, o)
  BY <1>2, <1>3 DEF Same
<1>7. \A q \in Pfns : own2[q] = own[q] \/ (own[q] \notin FreeOwners /\ own2[q] \notin FreeOwners)
  BY <1>2, <1>3 DEF HandOver
<1>8. InvOwners(own2)
  BY <1>2, <1>3, OwnersKept DEF HandOver
<1> QED BY <1>2, <1>3, <1>4, <1>5, <1>6, <1>7, <1>8 DEF HandedOver, own2

(* The zones do not notice when a block without buddy marks changes hands. *)
LEMMA ZonesHandOver ==
    ASSUME NEW own, NEW own2, NEW b, NEW x, NEW y, InvZones(own), HandOver(own, b, x, y),
           HandedOver(own, own2, b, x, y), UNCHANGED zonevars, page' \in [Pfns -> PageRec],
           \A q \in Frames(b) : page'[q].buddy = FALSE,
           \A q \in Pfns \ Frames(b) : page'[q] = page[q]
    PROVE  InvZones(own2)'
<1>1. \A q \in Pfns : q \in Frames(b) => page[q].buddy = FALSE
  BY NoBuddyMark DEF HandOver
<1>2. \A q \in Pfns :
              /\ page'[q].buddy = page[q].buddy /\ (page[q].buddy => page'[q].private = page[q].private)
              /\ own2[q] = own[q] \/ (own[q] \notin FreeOwners /\ own2[q] \notin FreeOwners)
  BY <1>1 DEF HandedOver
<1> QED BY <1>2, ZonesKept

-----------------------------------------------------------------------------
(* References *)

LEMMA HoldersFacts ==
    ASSUME NEW b
    PROVE  IsFiniteSet(Holders(b)) /\ Cardinality(Holders(b)) \in Nat
           /\ (Holders(b) = {} <=> Cardinality(Holders(b)) = 0)
<1>1. Holders(b) \subseteq Tasks /\ IsFiniteSet(Tasks)
  BY TasksAssumption DEF Holders
<1>2. IsFiniteSet(Holders(b))
  BY <1>1, FS_Subset
<1> QED BY <1>2, FS_CardinalityType, FS_EmptySet

(* What is known about a held block *)
LEMMA HeldFacts ==
    ASSUME NEW own, Inv(own), NEW t \in Tasks, NEW b \in held[t]
    PROVE  /\ IsBlock(b) /\ b \in Blocks /\ t \in Holders(b) /\ Holders(b) # {}
           /\ \A q \in Pfns : own[q] = Held(b) <=> q \in Frames(b)
           /\ \A q \in Frames(b) : q \in Pfns /\ HeldPage(page[q], q, b, Cardinality(Holders(b)))
           /\ Cardinality(Holders(b)) \in Nat \ {0}
<1>1. InvHeld(own) /\ InvRefs(own)
  BY DEF Inv
<1>2. b \in Blocks /\ t \in Holders(b)
  BY <1>1 DEF InvHeld, Holders
<1>3. IsBlock(b) /\ \A q \in Pfns : own[q] = Held(b) <=> q \in Frames(b)
  BY <1>1, <1>2 DEF InvHeld
<1>4. \A q \in Frames(b) : q \in Pfns /\ HeldPage(page[q], q, b, Cardinality(Holders(b)))
  BY <1>1, <1>2, <1>3, BlockParts DEF InvRefs
<1>5. Cardinality(Holders(b)) \in Nat \ {0}
  BY <1>2, HoldersFacts
<1> QED BY <1>2, <1>3, <1>4, <1>5

LEMMA GetPage ==
    ASSUME NEW own, Inv(own), NEW t \in Tasks, NEW u \in Tasks, NEW b \in held[t], get_page(t, u, b)
    PROVE  Inv(own)'
<1> DEFINE n == Cardinality(Holders(b))
<1>1. /\ IsBlock(b) /\ b \in Blocks /\ t \in Holders(b) /\ Holders(b) # {}
      /\ \A q \in Pfns : own[q] = Held(b) <=> q \in Frames(b)
      /\ \A q \in Frames(b) : q \in Pfns /\ HeldPage(page[q], q, b, n)
      /\ n \in Nat \ {0}
  BY HeldFacts
<1>2. /\ page' = [page EXCEPT ![b[1]].count = @ + 1] /\ bug' = (page[b[1]].count <= 0)
      /\ held' = [held EXCEPT ![u] = @ \cup {b}] /\ b \notin held[u]
      /\ UNCHANGED <<free_area, nr_free, pcp, pageset, pc, cur, toboot>>
  BY DEF get_page, zonevars
<1>3. /\ InvOwners(own) /\ InvZones(own) /\ InvPcp(own) /\ InvCalls(own) /\ InvHeld(own)
      /\ InvBoot(own) /\ InvPool(own) /\ InvBootPages(own) /\ InvRefs(own)
  BY DEF Inv
<1>4. b[1] \in Pfns /\ b[1] \in Frames(b) /\ page[b[1]] \in PageRec /\ page \in [Pfns -> PageRec]
  BY <1>1, <1>3, BlockParts DEF InvZones
<1>5. /\ page'[b[1]] = [page[b[1]] EXCEPT !.count = @ + 1]
      /\ \A q \in Pfns \ {b[1]} : page'[q] = page[q]
      /\ page' = [q \in Pfns |-> page'[q]]
  BY <1>2, <1>4
<1>6. /\ page'[b[1]] \in PageRec /\ page'[b[1]].count = page[b[1]].count + 1
      /\ page'[b[1]].buddy = page[b[1]].buddy /\ page'[b[1]].private = page[b[1]].private
      /\ page'[b[1]].head = page[b[1]].head /\ page'[b[1]].corder = page[b[1]].corder
      /\ page'[b[1]].tail = page[b[1]].tail
  <2> DEFINE r == page[b[1]]
             s == page'[b[1]]
  <2>1. s = [r EXCEPT !.count = @ + 1] /\ r \in PageRec
    BY <1>4, <1>5
  <2> HIDE DEF r, s
  <2>2. /\ s \in PageRec /\ s.count = r.count + 1 /\ s.buddy = r.buddy /\ s.private = r.private
        /\ s.head = r.head /\ s.corder = r.corder /\ s.tail = r.tail
    BY <2>1 DEF PageRec
  <2> QED BY <2>2 DEF r, s
<1>7. page' \in [Pfns -> PageRec]
  BY <1>4, <1>5, <1>6
<1>8. InvZones(own)'
  <2>1. \A q \in Pfns : page'[q].buddy = page[q].buddy /\ page'[q].private = page[q].private
    BY <1>5, <1>6
  <2> QED BY <1>2, <1>3, <1>7, <2>1, ZonesKept DEF zonevars
<1>9. InvOwners(own)' /\ InvPcp(own)' /\ InvCalls(own)' /\ InvBoot(own)'
  BY <1>2, <1>3, PcpKept, CallsKept, BootKept DEF InvOwners, Same
<1>10. /\ held' \in [Tasks -> SUBSET Blocks]
       /\ Holders(b)' = Holders(b) \cup {u} /\ u \notin Holders(b)
       /\ \A c : c # b => Holders(c)' = Holders(c)
  BY <1>1, <1>2, <1>3 DEF Holders, InvHeld
<1>11. InvHeld(own)'
  BY <1>1, <1>3, <1>10 DEF InvHeld
<1>12. InvPool(own)' /\ InvBootPages(own)'
  <2>1. \A q \in Pfns : own[q] \in Pool \/ (\E c \in BootBlocks : own[q] = AtBoot(c)) => q # b[1]
    BY <1>1, <1>4, PoolFacts, OwnersDiffer
  <2>2. InvPool(own)'
    BY <1>3, <1>5, <2>1 DEF InvPool
  <2>3. InvBootPages(own)'
    BY <1>3, <1>5, <2>1 DEF InvBootPages
  <2> QED BY <2>2, <2>3
<1>13. InvRefs(own)'
  <2> SUFFICES ASSUME NEW c \in Blocks, NEW q \in Pfns, own[q] = Held(c)
               PROVE  HeldPage(page'[q], q, c, Cardinality(Holders(c)'))
    BY DEF InvRefs
  <2>1. HeldPage(page[q], q, c, Cardinality(Holders(c)))
    BY <1>3 DEF InvRefs
  <2>2. CASE c = b
    <3>1. Cardinality(Holders(b)') = n + 1
      BY <1>10, HoldersFacts, FS_AddElement
    <3> HIDE DEF n
    <3>2. HeldPage(page[q], q, b, n)
      BY <2>1, <2>2 DEF n
    <3>3. CASE q = b[1]
      BY <1>6, <2>2, <3>1, <3>2, <3>3 DEF HeldPage
    <3>4. CASE q # b[1]
      BY <1>5, <2>2, <3>2, <3>4 DEF HeldPage
    <3> QED BY <3>3, <3>4
  <2>3. CASE c # b
    <3>1. q # b[1]
      BY <1>1, <1>4, <2>3, OwnersDiffer
    <3> QED BY <1>5, <1>10, <2>1, <2>3, <3>1
  <2> QED BY <2>2, <2>3
<1>14. bug' = FALSE
  <2>1. page[b[1]].count = n
    BY <1>1, <1>4 DEF HeldPage
  <2>2. n \in Nat \ {0}
    BY <1>1
  <2> HIDE DEF n
  <2>3. bug' = (n <= 0)
    BY <1>2, <2>1
  <2>4. (n <= 0) = FALSE
    BY <2>2
  <2> QED BY <2>3, <2>4
<1> QED BY <1>8, <1>9, <1>11, <1>12, <1>13, <1>14 DEF Inv

(* A reference is put: the block stays with the other holders, or the call gets it. *)
Puts(t, b) ==
    /\ pc[t] = "idle" /\ b \in held[t] /\ PutTestZero(t, b)
    /\ held' = [held EXCEPT ![t] = @ \ {b}]
    /\ UNCHANGED <<zonevars, pcp, pageset, toboot>>

LEMMA PutPage ==
    ASSUME NEW own, Inv(own), NEW t \in Tasks, NEW b, Puts(t, b)
    PROVE  IInv'
<1> DEFINE n == Cardinality(Holders(b))
           put == [page EXCEPT ![b[1]].count = @ - 1]
           last == put[b[1]].count = 0
<1>1. /\ IsBlock(b) /\ b \in Blocks /\ t \in Holders(b) /\ Holders(b) # {}
      /\ \A q \in Pfns : own[q] = Held(b) <=> q \in Frames(b)
      /\ \A q \in Frames(b) : q \in Pfns /\ HeldPage(page[q], q, b, n)
      /\ n \in Nat \ {0}
  BY HeldFacts DEF Puts
<1>2. /\ page' = IF last THEN free_pages_prepare(put, b) ELSE put
      /\ bug' = (page[b[1]].count = 0 \/ (last /\ PrepareBad(put, b)))
      /\ IF last THEN Call(t, "free", b) ELSE Call(t, "idle", NoBlock)
      /\ held' = [held EXCEPT ![t] = @ \ {b}] /\ b \in held[t] /\ pc[t] = "idle"
      /\ UNCHANGED zonevars /\ UNCHANGED pcp /\ UNCHANGED pageset /\ UNCHANGED toboot
  BY DEF Puts, PutTestZero
<1>3. /\ InvOwners(own) /\ InvZones(own) /\ InvPcp(own) /\ InvCalls(own) /\ InvHeld(own)
      /\ InvBoot(own) /\ InvPool(own) /\ InvBootPages(own) /\ InvRefs(own)
  BY DEF Inv
<1>4. /\ b[1] \in Pfns /\ b[1] \in Frames(b) /\ page[b[1]] \in PageRec /\ page \in [Pfns -> PageRec]
      /\ b[2] \in Orders /\ b[2] \in Nat
  BY <1>1, <1>3, BlockParts DEF InvZones
<1>5. /\ put[b[1]] = [page[b[1]] EXCEPT !.count = @ - 1]
      /\ \A q \in Pfns \ {b[1]} : put[q] = page[q]
      /\ put = [q \in Pfns |-> put[q]]
  BY <1>4
<1> HIDE DEF put
<1>6. /\ put[b[1]] \in PageRec /\ put[b[1]].count = page[b[1]].count - 1
      /\ put[b[1]].buddy = page[b[1]].buddy /\ put[b[1]].private = page[b[1]].private
      /\ put[b[1]].head = page[b[1]].head /\ put[b[1]].corder = page[b[1]].corder
      /\ put[b[1]].tail = page[b[1]].tail
  <2> DEFINE r == page[b[1]]
             s == put[b[1]]
  <2>1. s = [r EXCEPT !.count = @ - 1] /\ r \in PageRec
    BY <1>4, <1>5
  <2> HIDE DEF r, s
  <2>2. /\ s \in PageRec /\ s.count = r.count - 1 /\ s.buddy = r.buddy /\ s.private = r.private
        /\ s.head = r.head /\ s.corder = r.corder /\ s.tail = r.tail
    BY <2>1 DEF PageRec
  <2> QED BY <2>2 DEF r, s
<1>7. put \in [Pfns -> PageRec]
  BY <1>4, <1>5, <1>6
<1>8. /\ page[b[1]].count = n /\ page[b[1]].head = (b[2] > 0) /\ page[b[1]].corder = b[2]
      /\ page[b[1]].tail = NoPage
      /\ \A q \in Frames(b) \ {b[1]} : page[q].count = 0 /\ ~ page[q].head /\ page[q].tail = b[1]
  BY <1>1, <1>4 DEF HeldPage
<1> HIDE DEF n
<1>9. /\ held' \in [Tasks -> SUBSET Blocks]
      /\ Holders(b)' = Holders(b) \ {t}
      /\ \A c : c # b => Holders(c)' = Holders(c)
  BY <1>1, <1>2, <1>3 DEF Holders, InvHeld
<1>10. Cardinality(Holders(b)') = n - 1 /\ (Holders(b)' = {} <=> n - 1 = 0)
  <2>1. Cardinality(Holders(b) \ {t}) = n - 1 /\ IsFiniteSet(Holders(b) \ {t})
    BY <1>1, HoldersFacts, FS_RemoveElement DEF n
  <2>2. Holders(b) \ {t} = {} <=> Cardinality(Holders(b) \ {t}) = 0
    BY <2>1, FS_EmptySet
  <2> QED BY <1>9, <2>1, <2>2
<1>11. last <=> n - 1 = 0
  BY <1>6, <1>8
<1>12. \A q \in Pfns : own[q] \in Pool \/ (\E c \in BootBlocks : own[q] = AtBoot(c)) => q \notin Frames(b)
  BY <1>1, PoolFacts, OwnersDiffer
<1>13. \A c \in Blocks \ {b} : \A q \in Pfns : own[q] = Held(c) => q \notin Frames(b)
  BY <1>1, OwnersDiffer
<1>14. page[b[1]].count # 0
  BY <1>1, <1>8
<1>15. CASE ~ last
  <2>1. page' = put /\ Call(t, "idle", NoBlock) /\ bug' = FALSE
    BY <1>2, <1>14, <1>15
  <2>2. InvZones(own)'
    <3>1. \A q \in Pfns : page'[q].buddy = page[q].buddy /\ page'[q].private = page[q].private
      BY <1>5, <1>6, <2>1
    <3>2. page' \in [Pfns -> PageRec]
      BY <1>7, <2>1
    <3> QED BY <1>2, <1>3, <3>1, <3>2, ZonesKept
  <2>3. InvOwners(own)' /\ InvPcp(own)' /\ InvBoot(own)'
    BY <1>2, <1>3, PcpKept, BootKept DEF InvOwners, Same
  <2>4. InvCalls(own)'
    <3>1. \A q \in Pfns : own[q] # InCall(t)
      BY <1>2, <1>3 DEF InvCalls
    <3> QED BY <1>3, <2>1, <3>1, CallEnds DEF Same
  <2>5. InvHeld(own)'
    <3>1. Holders(b)' # {}
      BY <1>10, <1>11, <1>15
    <3> QED BY <1>1, <1>3, <1>9, <3>1 DEF InvHeld
  <2>6. InvPool(own)' /\ InvBootPages(own)'
    <3>1. \A q \in Pfns \ Frames(b) : page'[q] = page[q]
      BY <1>4, <1>5, <2>1
    <3>2. InvPool(own)'
      BY <1>3, <1>12, <3>1 DEF InvPool
    <3>3. InvBootPages(own)'
      BY <1>3, <1>12, <3>1 DEF InvBootPages
    <3> QED BY <3>2, <3>3
  <2>7. InvRefs(own)'
    <3> SUFFICES ASSUME NEW c \in Blocks, NEW q \in Pfns, own[q] = Held(c)
                 PROVE  HeldPage(page'[q], q, c, Cardinality(Holders(c)'))
      BY DEF InvRefs
    <3>1. HeldPage(page[q], q, c, Cardinality(Holders(c)))
      BY <1>3 DEF InvRefs
    <3>2. CASE c = b
      <4>1. CASE q = b[1]
        BY <1>6, <1>8, <1>10, <2>1, <3>2, <4>1 DEF HeldPage
      <4>2. CASE q # b[1]
        BY <1>5, <2>1, <3>1, <3>2, <4>2 DEF HeldPage
      <4> QED BY <4>1, <4>2
    <3>3. CASE c # b
      <4>1. q # b[1]
        BY <1>4, <1>13, <3>3
      <4> QED BY <1>5, <1>9, <2>1, <3>1, <3>3, <4>1
    <3> QED BY <3>2, <3>3
  <2>8. Inv(own)'
    BY <2>1, <2>2, <2>3, <2>4, <2>5, <2>6, <2>7 DEF Inv
  <2> QED BY <2>8 DEF IInv
<1>16. CASE last
  <2>1. page' = free_pages_prepare(put, b) /\ Call(t, "free", b)
    BY <1>2, <1>16
  <2>2. n = 1 /\ Holders(b)' = {}
    BY <1>1, <1>10, <1>11, <1>16
  <2> DEFINE own2 == Retag(own, Frames(b), InCall(t))
  <2>3. HandOver(own, b, Held(b), InCall(t))
    <3>1. \A q \in Pfns : own[q] # InCall(t)
      BY <1>2, <1>3 DEF InvCalls
    <3> QED BY <1>1, <3>1, PoolFacts, OwnersDiffer DEF HandOver
  <2>4. HandedOver(own, own2, b, Held(b), InCall(t))
    BY <1>3, <2>3, HandsOver
  <2> HIDE DEF own2
  <2>5. /\ \A q \in Pfns \ Frames(b) : page'[q] = page[q]
        /\ \A q \in Frames(b) : page'[q] = [put[q] EXCEPT !.head = FALSE, !.buddy = FALSE, !.corder = 0,
                !.tail = IF q # b[1] /\ put[b[1]].head THEN NoPage ELSE @]
        /\ page' = [q \in Pfns |-> page'[q]]
    BY <1>1, <1>4, <1>5, <2>1 DEF free_pages_prepare
  <2>6. ASSUME NEW q \in Frames(b)
        PROVE  /\ page'[q] \in PageRec /\ page'[q].buddy = FALSE /\ page'[q].count = 0
               /\ NoMarks(page'[q])
    <3> DEFINE r == put[q]
               s == page'[q]
               x == IF q # b[1] /\ put[b[1]].head THEN NoPage ELSE r.tail
    <3>1. r \in PageRec /\ 0 \in Orders
      BY <1>1, <1>7, OrdersFacts
    <3>2. s = [r EXCEPT !.head = FALSE, !.buddy = FALSE, !.corder = 0, !.tail = x]
      BY <2>5
    <3>3. r.count = 0
      <4>1. CASE q = b[1]
        BY <1>6, <1>8, <2>2, <4>1
      <4>2. CASE q # b[1]
        BY <1>1, <1>5, <1>8, <4>2
      <4> QED BY <4>1, <4>2
    <3>4. x = NoPage
      <4>1. CASE q = b[1]
        BY <1>6, <1>8, <4>1
      <4>2. CASE q # b[1]
        <5>1. b[2] # 0
          <6> SUFFICES ASSUME b[2] = 0 PROVE FALSE
            OBVIOUS
          <6>1. Frames(b) = {b[1]}
            <7>1. b = <<b[1], 0>>
              BY <1>1, BlockParts
            <7>2. Frames(<<b[1], 0>>) = {b[1]}
              BY <1>4, OnePage
            <7> QED BY <7>1, <7>2
          <6> QED BY <4>2, <6>1
        <5>2. b[2] > 0
          BY <1>4, <5>1
        <5>3. put[b[1]].head
          BY <1>6, <1>8, <5>2
        <5> QED BY <4>2, <5>3
      <4> QED BY <4>1, <4>2
    <3> HIDE DEF r, s, x
    <3>5. s \in PageRec /\ s.buddy = FALSE /\ s.count = 0 /\ s.head = FALSE /\ s.tail = NoPage
      BY <3>1, <3>2, <3>3, <3>4 DEF PageRec
    <3> QED BY <3>5 DEF s, NoMarks
  <2>7. page' \in [Pfns -> PageRec]
    BY <1>4, <2>5, <2>6
  <2>8. InvZones(own2)'
    BY <1>2, <1>3, <2>3, <2>4, <2>5, <2>6, <2>7, ZonesHandOver
  <2>9. /\ \A s \in Pagesets : Same(own, own2, Pcp(s))
        /\ \A c \in BootBlocks : Same(own, own2, AtBoot(c))
        /\ \A u \in Tasks \ {t} : Same(own, own2, InCall(u))
        /\ \A c \in Blocks \ {b} : Same(own, own2, Held(c))
    BY <2>4, OwnersDiffer DEF HandedOver
  <2>10. InvOwners(own2)' /\ InvPcp(own2)' /\ InvBoot(own2)'
    BY <1>2, <1>3, <2>4, <2>9, PcpKept, BootKept DEF InvOwners, HandedOver
  <2>11. InvCalls(own2)'
    <3>1. \A q \in Pfns : own2[q] = InCall(t) <=> q \in Frames(b)
      BY <2>4 DEF HandedOver
    <3> QED BY <1>1, <1>2, <1>3, <2>1, <2>9, <3>1, CallStarts
  <2>12. InvHeld(own2)'
    <3>1. \A q \in Pfns : own2[q] # Held(b)
      BY <2>4 DEF HandedOver
    <3>2. ASSUME NEW c \in Blocks
          PROVE  (Holders(c)' # {} => IsBlock(c))
                 /\ \A q \in Pfns : own2[q] = Held(c) <=> Holders(c)' # {} /\ q \in Frames(c)
      <4>1. CASE c = b
        BY <1>1, <2>2, <3>1, <4>1
      <4>2. CASE c # b
        BY <1>3, <1>9, <2>9, <4>2 DEF InvHeld, Same
      <4> QED BY <4>1, <4>2
    <3> QED BY <1>9, <3>2 DEF InvHeld, IsBlock
  <2>13. InvPool(own2)'
    <3> SUFFICES ASSUME NEW q \in Pfns, own2[q] \in Pool
                 PROVE  page'[q].count = 0 /\ NoMarks(page'[q])
      BY DEF InvPool
    <3>1. CASE q \in Frames(b)
      BY <2>6, <3>1
    <3>2. CASE q \notin Frames(b)
      BY <1>3, <2>4, <2>5, <3>2 DEF InvPool, HandedOver
    <3> QED BY <3>1, <3>2
  <2>14. InvBootPages(own2)'
    BY <1>3, <1>12, <2>5, <2>9 DEF InvBootPages, Same
  <2>15. InvRefs(own2)'
    <3> SUFFICES ASSUME NEW c \in Blocks, NEW q \in Pfns, own2[q] = Held(c)
                 PROVE  HeldPage(page'[q], q, c, Cardinality(Holders(c)'))
      BY DEF InvRefs
    <3>1. c # b
      BY <2>4 DEF HandedOver
    <3>2. own[q] = Held(c) /\ q \notin Frames(b)
      BY <1>13, <2>9, <3>1 DEF Same
    <3>3. HeldPage(page[q], q, c, Cardinality(Holders(c)))
      BY <1>3, <3>2 DEF InvRefs
    <3> QED BY <1>9, <2>5, <3>1, <3>2, <3>3
  <2>16. bug' = FALSE
    <3>1. put[b[1]].tail = NoPage /\ put[b[1]].count = 0 /\ put[b[1]].corder = b[2]
      BY <1>6, <1>8, <2>2
    <3>2. \A q \in Frames(b) \ {b[1]} : put[q].count = 0 /\ put[q].tail = b[1]
      BY <1>1, <1>5, <1>8
    <3>3. ~ PrepareBad(put, b)
      BY <3>1, <3>2 DEF PrepareBad
    <3> QED BY <1>2, <1>14, <3>3
  <2>17. Inv(own2)'
    BY <2>8, <2>10, <2>11, <2>12, <2>13, <2>14, <2>15, <2>16 DEF Inv
  <2> QED BY <2>17 DEF IInv
<1> QED BY <1>15, <1>16

LEMMA FreePages ==
    ASSUME NEW own, Inv(own), NEW t \in Tasks, NEW b, __free_pages(t, b)
    PROVE  IInv'
<1>1. Puts(t, b)
  BY DEF __free_pages, Puts, MayCall
<1> QED BY <1>1, PutPage

(* page_frag_free finds the block from the struct page. *)
LEMMA FragFree ==
    ASSUME NEW own, Inv(own), NEW t \in Tasks, NEW p \in Pfns, page_frag_free(t, p)
    PROVE  IInv'
<1> DEFINE h == IF page[p].tail # NoPage THEN page[p].tail ELSE p
           b == <<h, IF page[h].head THEN page[h].corder ELSE 0>>
<1>1. /\ pc[t] = "idle" /\ PutTestZero(t, b)
      /\ held' = [held EXCEPT ![t] = {a \in @ : p \notin Frames(a)}]
      /\ UNCHANGED <<zonevars, pcp, pageset, toboot>>
  BY DEF page_frag_free, MayCall
<1>2. PICK a \in held[t] : p \in Frames(a)
  BY DEF page_frag_free
<1> DEFINE n == Cardinality(Holders(a))
<1>3. /\ IsBlock(a) /\ a \in Blocks /\ t \in Holders(a) /\ Holders(a) # {}
      /\ \A q \in Pfns : own[q] = Held(a) <=> q \in Frames(a)
      /\ \A q \in Frames(a) : q \in Pfns /\ HeldPage(page[q], q, a, n)
      /\ n \in Nat \ {0}
  BY HeldFacts
<1> HIDE DEF n
<1>4. /\ a = <<a[1], a[2]>> /\ a[1] \in Frames(a) /\ a[1] # NoPage /\ a[2] \in Nat
  BY <1>3, BlockParts, PfnsAssumption DEF NoPage
<1>5. page[a[1]].head = (a[2] > 0) /\ page[a[1]].corder = a[2] /\ page[a[1]].tail = NoPage
  BY <1>3, <1>4 DEF HeldPage
<1>6. h = a[1]
  <2>1. CASE p = a[1]
    BY <1>5, <2>1
  <2>2. CASE p # a[1]
    BY <1>2, <1>3, <1>4, <2>2 DEF HeldPage
  <2> QED BY <2>1, <2>2
<1>7. b = a
  <2>1. (IF page[h].head THEN page[h].corder ELSE 0) = a[2]
    <3>1. CASE a[2] > 0
      BY <1>5, <1>6, <3>1
    <3>2. CASE ~ (a[2] > 0)
      <4>1. ~ page[a[1]].head
        BY <1>5, <3>2
      <4>2. a[2] = 0
        BY <1>4, <3>2
      <4> QED BY <1>6, <4>1, <4>2
    <3> QED BY <3>1, <3>2
  <2> QED BY <1>4, <1>6, <2>1
<1> HIDE DEF h, b
<1>8. {c \in held[t] : p \notin Frames(c)} = held[t] \ {a}
  <2> SUFFICES ASSUME NEW c \in held[t], c # a PROVE p \notin Frames(c)
    BY <1>2
  <2>1. \A q \in Pfns : own[q] = Held(c) <=> q \in Frames(c)
    BY HeldFacts
  <2> QED BY <1>2, <1>3, <2>1, OwnersDiffer
<1>9. held' = [held EXCEPT ![t] = held[t] \ {a}]
  BY <1>1, <1>8
<1>10. Puts(t, a)
  <2>1. PutTestZero(t, a)
    BY <1>1, <1>7
  <2> QED BY <1>1, <1>2, <1>9, <2>1 DEF Puts
<1> QED BY <1>10, PutPage

-----------------------------------------------------------------------------
(* The end of an allocation *)

LEMMA PrepNewPage ==
    ASSUME NEW own, Inv(own), NEW t \in Tasks, prep_new_page(t)
    PROVE  IInv'
<1>0. PICK b : b = cur[t]
  OBVIOUS
<1> DEFINE own2 == Retag(own, Frames(b), Held(b))
<1>1. /\ pc[t] = "prep"
      /\ page' = [p \in Pfns |->
                  IF p = b[1]
                  THEN [page[p] EXCEPT !.private = 0, !.count = 1,
                                       !.head = b[2] > 0, !.corder = b[2]]
                  ELSE IF p \in Frames(b)
                  THEN [page[p] EXCEPT !.count = 0, !.tail = b[1]]
                  ELSE page[p]]
      /\ bug' = (page[b[1]].tail # NoPage \/ page[b[1]].count # 0)
      /\ held' = [held EXCEPT ![t] = @ \cup {b}]
      /\ Call(t, "idle", NoBlock)
      /\ UNCHANGED zonevars /\ UNCHANGED pcp /\ UNCHANGED pageset /\ UNCHANGED toboot
  BY <1>0 DEF prep_new_page
<1>2. /\ InvOwners(own) /\ InvZones(own) /\ InvPcp(own) /\ InvCalls(own) /\ InvHeld(own)
      /\ InvBoot(own) /\ InvPool(own) /\ InvBootPages(own) /\ InvRefs(own)
  BY DEF Inv
<1>3. IsBlock(b) /\ \A q \in Pfns : own[q] = InCall(t) <=> q \in Frames(b)
  BY <1>0, <1>1, <1>2 DEF InvCalls
<1>4. /\ b \in Blocks /\ b[1] \in Pfns /\ b[1] \in Frames(b) /\ b[2] \in Orders /\ b[2] \in Nat
      /\ \A q \in Frames(b) : q \in Pfns
  BY <1>3, BlockParts
<1>5. Holders(b) = {} /\ \A q \in Pfns : own[q] # Held(b)
  <2>1. own[b[1]] # Held(b)
    BY <1>3, <1>4, OwnersDiffer
  <2> QED BY <1>2, <1>4, <2>1 DEF InvHeld
<1>6. HandOver(own, b, InCall(t), Held(b))
  BY <1>3, <1>4, <1>5, PoolFacts, OwnersDiffer DEF HandOver
<1>7. HandedOver(own, own2, b, InCall(t), Held(b))
  BY <1>2, <1>6, HandsOver
<1> HIDE DEF own2
<1>8. page \in [Pfns -> PageRec]
      /\ \A q \in Frames(b) : page[q].buddy = FALSE /\ page[q].count = 0 /\ NoMarks(page[q])
  <2>1. \A q \in Frames(b) : own[q] = InCall(t) /\ own[q] \in Pool /\ own[q] \notin FreeOwners
    BY <1>3, <1>4, PoolFacts, OwnersDiffer
  <2>2. \A q \in Frames(b) : page[q].buddy = FALSE
    BY <1>2, <1>4, <2>1, NoBuddyMark
  <2> QED BY <1>2, <1>4, <2>1, <2>2 DEF InvPool, InvZones
<1>9. /\ \A q \in Pfns \ Frames(b) : page'[q] = page[q]
      /\ page'[b[1]] = [page[b[1]] EXCEPT !.private = 0, !.count = 1, !.head = b[2] > 0, !.corder = b[2]]
      /\ \A q \in Frames(b) \ {b[1]} : page'[q] = [page[q] EXCEPT !.count = 0, !.tail = b[1]]
      /\ page' = [q \in Pfns |-> page'[q]]
  BY <1>1, <1>4
<1>10. ASSUME NEW q \in Frames(b)
       PROVE  page'[q] \in PageRec /\ page'[q].buddy = FALSE /\ HeldPage(page'[q], q, b, 1)
  <2> DEFINE r == page[q]
             s == page'[q]
             x == b[2] > 0
             k == b[2]
             f == b[1]
  <2>1. r.buddy = FALSE /\ r.head = FALSE /\ r.tail = NoPage
    BY <1>4, <1>8 DEF NoMarks, PageRec
  <2>1a. r \in PageRec /\ 0 \in Orders /\ k \in Orders /\ x \in BOOLEAN /\ f \in Pfns
    BY <1>4, <1>8, OrdersFacts
  <2>2. CASE q = b[1]
    <3>1. s = [r EXCEPT !.private = 0, !.count = 1, !.head = x, !.corder = k]
      BY <1>9, <2>2
    <3> HIDE DEF r, s, x, k, f
    <3>1a. s = [buddy |-> r.buddy, private |-> 0, count |-> 1, head |-> x, corder |-> k, tail |-> r.tail]
      BY <2>1a, <3>1 DEF PageRec
    <3>2. s \in PageRec
      BY <2>1a, <3>1a DEF PageRec
    <3>3. s.buddy = r.buddy /\ s.count = 1 /\ s.head = x /\ s.corder = k /\ s.tail = r.tail
      BY <2>1a, <3>1 DEF PageRec
    <3> QED BY <2>1, <2>2, <3>2, <3>3 DEF HeldPage, s, x, k
  <2>3. CASE q # b[1]
    <3>1. s = [r EXCEPT !.count = 0, !.tail = f]
      BY <1>9, <2>3
    <3> HIDE DEF r, s, x, k, f
    <3>1a. s = [buddy |-> r.buddy, private |-> r.private, count |-> 0, head |-> r.head,
                corder |-> r.corder, tail |-> f]
      BY <2>1a, <3>1 DEF PageRec
    <3>2. s \in PageRec
      BY <2>1a, <3>1a DEF PageRec
    <3>3. s.buddy = r.buddy /\ s.count = 0 /\ s.head = r.head /\ s.tail = f
      BY <2>1a, <3>1 DEF PageRec
    <3> QED BY <2>1, <2>3, <3>2, <3>3 DEF HeldPage, s, f
  <2> QED BY <2>2, <2>3
<1>11. page' \in [Pfns -> PageRec]
  BY <1>8, <1>9, <1>10
<1>12. InvZones(own2)'
  BY <1>1, <1>2, <1>6, <1>7, <1>9, <1>10, <1>11, ZonesHandOver
<1>13. /\ \A s \in Pagesets : Same(own, own2, Pcp(s))
       /\ \A c \in BootBlocks : Same(own, own2, AtBoot(c))
       /\ \A u \in Tasks \ {t} : Same(own, own2, InCall(u))
       /\ \A c \in Blocks \ {b} : Same(own, own2, Held(c))
  BY <1>7, OwnersDiffer DEF HandedOver
<1>14. InvOwners(own2)' /\ InvPcp(own2)' /\ InvBoot(own2)'
  BY <1>1, <1>2, <1>7, <1>13, PcpKept, BootKept DEF InvOwners, HandedOver
<1>15. InvCalls(own2)'
  <2>1. \A q \in Pfns : own2[q] # InCall(t)
    BY <1>7 DEF HandedOver
  <2> QED BY <1>1, <1>2, <1>13, <2>1, CallEnds
<1>16. /\ held' \in [Tasks -> SUBSET Blocks]
       /\ Holders(b)' = {t}
       /\ \A c : c # b => Holders(c)' = Holders(c)
  <2>1. held' \in [Tasks -> SUBSET Blocks]
    BY <1>1, <1>2, <1>4 DEF InvHeld
  <2>2. held'[t] = held[t] \cup {b} /\ \A u \in Tasks \ {t} : held'[u] = held[u]
    BY <1>1, <1>2 DEF InvHeld
  <2>3. \A u \in Tasks : b \notin held[u]
    BY <1>5 DEF Holders
  <2>4. \A c : Holders(c)' = {u \in Tasks : c \in held'[u]}
    BY DEF Holders
  <2>5. Holders(b)' = {t}
    BY <2>2, <2>3, <2>4
  <2>6. \A c : c # b => Holders(c)' = Holders(c)
    BY <2>2, <2>4 DEF Holders
  <2> QED BY <2>1, <2>5, <2>6
<1>17. InvHeld(own2)'
  <2>1. ASSUME NEW c \in Blocks
        PROVE  (Holders(c)' # {} => IsBlock(c))
               /\ \A q \in Pfns : own2[q] = Held(c) <=> Holders(c)' # {} /\ q \in Frames(c)
    <3>1. CASE c = b
      BY <1>3, <1>7, <1>16, <3>1 DEF HandedOver
    <3>2. CASE c # b
      BY <1>2, <1>13, <1>16, <3>2 DEF InvHeld, Same
    <3> QED BY <3>1, <3>2
  <2> QED BY <1>16, <2>1 DEF InvHeld, IsBlock
<1>18. InvPool(own2)'
  <2> SUFFICES ASSUME NEW q \in Pfns, own2[q] \in Pool
               PROVE  page'[q].count = 0 /\ NoMarks(page'[q])
    BY DEF InvPool
  <2>1. q \notin Frames(b)
    BY <1>4, <1>7, PoolFacts DEF HandedOver
  <2> QED BY <1>2, <1>7, <1>9, <2>1 DEF InvPool, HandedOver
<1>19. InvBootPages(own2)'
  <2> SUFFICES ASSUME NEW c \in BootBlocks, NEW q \in Pfns, own2[q] = AtBoot(c)
               PROVE  NoMarks(page'[q])
    BY DEF InvBootPages
  <2>1. q \notin Frames(b) /\ own[q] = AtBoot(c)
    BY <1>7, <1>13, OwnersDiffer DEF HandedOver, Same
  <2> QED BY <1>2, <1>9, <2>1 DEF InvBootPages
<1>20. InvRefs(own2)'
  <2> SUFFICES ASSUME NEW c \in Blocks, NEW q \in Pfns, own2[q] = Held(c)
               PROVE  HeldPage(page'[q], q, c, Cardinality(Holders(c)'))
    BY DEF InvRefs
  <2>1. CASE c = b
    <3>1. Cardinality(Holders(b)') = 1
      BY <1>16, FS_Singleton
    <3>2. q \in Frames(b)
      BY <1>7, <2>1 DEF HandedOver
    <3> QED BY <1>10, <2>1, <3>1, <3>2
  <2>2. CASE c # b
    <3>1. own[q] = Held(c) /\ q \notin Frames(b)
      BY <1>3, <1>13, <2>2, OwnersDiffer DEF Same
    <3>2. HeldPage(page[q], q, c, Cardinality(Holders(c)))
      BY <1>2, <3>1 DEF InvRefs
    <3> QED BY <1>9, <1>16, <2>2, <3>1, <3>2
  <2> QED BY <2>1, <2>2
<1>21. bug' = FALSE
  BY <1>1, <1>4, <1>8 DEF NoMarks
<1>22. Inv(own2)'
  BY <1>12, <1>14, <1>15, <1>17, <1>18, <1>19, <1>20, <1>21 DEF Inv
<1> QED BY <1>22 DEF IInv

-----------------------------------------------------------------------------
(* Boot *)

LEMMA SetupPageset ==
    ASSUME NEW own, Inv(own), NEW z \in Zones, setup_zone_pageset(z)
    PROVE  Inv(own)'
<1>1. /\ pageset' = [pageset EXCEPT ![z] = TRUE]
      /\ UNCHANGED page /\ UNCHANGED free_area /\ UNCHANGED nr_free /\ UNCHANGED pcp /\ UNCHANGED pc
      /\ UNCHANGED cur /\ UNCHANGED held /\ UNCHANGED toboot /\ UNCHANGED bug
  BY DEF setup_zone_pageset, zonevars
<1>2. /\ InvOwners(own) /\ InvZones(own) /\ InvPcp(own) /\ InvCalls(own) /\ InvHeld(own)
      /\ InvBoot(own) /\ InvPool(own) /\ InvBootPages(own) /\ InvRefs(own) /\ bug = FALSE
  BY DEF Inv
<1>3. InvOwners(own)' /\ InvCalls(own)' /\ InvHeld(own)' /\ InvBoot(own)'
  BY <1>1, <1>2, CallsKept, HeldKept, BootKept DEF InvOwners, Same
<1>4. InvZones(own)'
  BY <1>1, <1>2 DEF InvZones, ZoneInv, View
<1>5. InvPcp(own)'
  BY <1>1, <1>2 DEF InvPcp
<1>6. InvPool(own)' /\ InvBootPages(own)' /\ InvRefs(own)'
  BY <1>1, <1>2 DEF InvPool, InvBootPages, InvRefs, Holders
<1> QED BY <1>1, <1>2, <1>3, <1>4, <1>5, <1>6 DEF Inv

LEMMA FreeBootPages ==
    ASSUME NEW own, Inv(own), NEW b \in BootBlocks, memblock_free_pages(b)
    PROVE  IInv'
<1> DEFINE clr == [p \in Pfns |-> IF p \in Frames(b) THEN [page[p] EXCEPT !.count = 0] ELSE page[p]]
           t == Boot
           own2 == Retag(own, Frames(b), InCall(t))
<1>1. /\ pc[t] = "idle" /\ b \in toboot
      /\ page' = free_pages_prepare(clr, b) /\ bug' = PrepareBad(clr, b)
      /\ toboot' = toboot \ {b} /\ Call(t, "free", b)
      /\ UNCHANGED zonevars /\ UNCHANGED pcp /\ UNCHANGED pageset /\ UNCHANGED held
  BY DEF memblock_free_pages
<1>2. /\ InvOwners(own) /\ InvZones(own) /\ InvPcp(own) /\ InvCalls(own) /\ InvHeld(own)
      /\ InvBoot(own) /\ InvPool(own) /\ InvBootPages(own) /\ InvRefs(own)
  BY DEF Inv
<1>3. t \in Tasks /\ IsBlock(b) /\ \A q \in Pfns : own[q] = AtBoot(b) <=> q \in Frames(b)
  BY <1>1, <1>2, TasksAssumption, BootAssumption DEF InvBoot
<1> HIDE DEF t
<1>4. /\ b \in Blocks /\ b[1] \in Pfns /\ b[1] \in Frames(b) /\ b[2] \in Orders /\ b[2] \in Nat
      /\ \A q \in Frames(b) : q \in Pfns
  BY <1>3, BlockParts
<1>5. HandOver(own, b, AtBoot(b), InCall(t))
  <2>1. \A q \in Pfns : own[q] # InCall(t)
    BY <1>1, <1>2, <1>3 DEF InvCalls
  <2> QED BY <1>3, <2>1, PoolFacts, OwnersDiffer DEF HandOver
<1>6. HandedOver(own, own2, b, AtBoot(b), InCall(t))
  BY <1>2, <1>5, HandsOver
<1> HIDE DEF own2
<1>7. page \in [Pfns -> PageRec] /\ \A q \in Frames(b) : NoMarks(page[q])
  BY <1>2, <1>3, <1>4 DEF InvBootPages, InvZones
<1>8. /\ \A q \in Frames(b) : clr[q] = [page[q] EXCEPT !.count = 0]
      /\ \A q \in Pfns \ Frames(b) : clr[q] = page[q]
  BY <1>4
<1> HIDE DEF clr
<1>9. ASSUME NEW q \in Frames(b)
      PROVE  clr[q] \in PageRec /\ clr[q].count = 0 /\ NoMarks(clr[q])
  <2> DEFINE r == page[q]
             s == clr[q]
  <2>1. r \in PageRec /\ s = [r EXCEPT !.count = 0]
    BY <1>4, <1>7, <1>8
  <2>2. NoMarks(r)
    BY <1>7
  <2> HIDE DEF r, s
  <2>3. s \in PageRec /\ s.count = 0 /\ s.head = r.head /\ s.tail = r.tail
    BY <2>1 DEF PageRec
  <2> QED BY <2>2, <2>3 DEF NoMarks, s
<1>10. /\ \A q \in Pfns \ Frames(b) : page'[q] = page[q]
       /\ \A q \in Frames(b) : page'[q] = [clr[q] EXCEPT !.head = FALSE, !.buddy = FALSE, !.corder = 0,
                !.tail = IF q # b[1] /\ clr[b[1]].head THEN NoPage ELSE @]
       /\ page' = [q \in Pfns |-> page'[q]]
  BY <1>1, <1>4, <1>8 DEF free_pages_prepare
<1>11. ASSUME NEW q \in Frames(b)
       PROVE  /\ page'[q] \in PageRec /\ page'[q].buddy = FALSE /\ page'[q].count = 0
              /\ NoMarks(page'[q])
  <2> DEFINE r == clr[q]
             s == page'[q]
             x == IF q # b[1] /\ clr[b[1]].head THEN NoPage ELSE r.tail
  <2>1. r \in PageRec /\ 0 \in Orders
    BY <1>9, OrdersFacts
  <2>2. s = [r EXCEPT !.head = FALSE, !.buddy = FALSE, !.corder = 0, !.tail = x]
    BY <1>10
  <2>3. r.count = 0 /\ x = NoPage
    BY <1>9 DEF NoMarks
  <2> HIDE DEF r, s, x
  <2>4. s \in PageRec /\ s.buddy = FALSE /\ s.count = 0 /\ s.head = FALSE /\ s.tail = NoPage
    BY <2>1, <2>2, <2>3 DEF PageRec
  <2> QED BY <2>4 DEF s, NoMarks
<1>12. page' \in [Pfns -> PageRec]
  BY <1>7, <1>10, <1>11
<1>13. InvZones(own2)'
  BY <1>1, <1>2, <1>5, <1>6, <1>10, <1>11, <1>12, ZonesHandOver
<1>14. /\ \A s \in Pagesets : Same(own, own2, Pcp(s))
       /\ \A c \in BootBlocks \ {b} : Same(own, own2, AtBoot(c))
       /\ \A u \in Tasks \ {t} : Same(own, own2, InCall(u))
       /\ \A c \in Blocks : Same(own, own2, Held(c))
  BY <1>6, OwnersDiffer DEF HandedOver
<1>15. InvOwners(own2)' /\ InvPcp(own2)' /\ InvHeld(own2)'
  BY <1>1, <1>2, <1>6, <1>14, PcpKept, HeldKept DEF InvOwners, HandedOver
<1>16. InvCalls(own2)'
  <2>1. \A q \in Pfns : own2[q] = InCall(t) <=> q \in Frames(b)
    BY <1>6 DEF HandedOver
  <2> QED BY <1>1, <1>2, <1>3, <1>14, <2>1, CallStarts
<1>17. InvBoot(own2)'
  <2>1. ASSUME NEW c \in BootBlocks, NEW q \in Pfns
        PROVE  own2[q] = AtBoot(c) <=> c \in toboot' /\ q \in Frames(c)
    <3>1. CASE c = b
      BY <1>1, <1>6, <3>1 DEF HandedOver
    <3>2. CASE c # b
      BY <1>1, <1>2, <1>14, <3>2 DEF InvBoot, Same
    <3> QED BY <3>1, <3>2
  <2> QED BY <1>1, <1>2, <2>1 DEF InvBoot
<1>18. InvPool(own2)'
  <2> SUFFICES ASSUME NEW q \in Pfns, own2[q] \in Pool
               PROVE  page'[q].count = 0 /\ NoMarks(page'[q])
    BY DEF InvPool
  <2>1. CASE q \in Frames(b)
    BY <1>11, <2>1
  <2>2. CASE q \notin Frames(b)
    BY <1>2, <1>6, <1>10, <2>2 DEF InvPool, HandedOver
  <2> QED BY <2>1, <2>2
<1>19. InvBootPages(own2)'
  <2> SUFFICES ASSUME NEW c \in BootBlocks, NEW q \in Pfns, own2[q] = AtBoot(c)
               PROVE  NoMarks(page'[q])
    BY DEF InvBootPages
  <2>1. CASE q \in Frames(b)
    BY <1>11, <2>1
  <2>2. CASE q \notin Frames(b)
    BY <1>2, <1>6, <1>10, <2>2 DEF InvBootPages, HandedOver
  <2> QED BY <2>1, <2>2
<1>20. InvRefs(own2)'
  <2> SUFFICES ASSUME NEW c \in Blocks, NEW q \in Pfns, own2[q] = Held(c)
               PROVE  HeldPage(page'[q], q, c, Cardinality(Holders(c)'))
    BY DEF InvRefs
  <2>1. own[q] = Held(c) /\ q \notin Frames(b)
    BY <1>3, <1>14, OwnersDiffer DEF Same
  <2>2. HeldPage(page[q], q, c, Cardinality(Holders(c))) /\ Holders(c)' = Holders(c)
    BY <1>1, <1>2, <2>1 DEF InvRefs, Holders
  <2> QED BY <1>10, <2>1, <2>2
<1>21. bug' = FALSE
  <2>1. clr[b[1]].tail = NoPage /\ clr[b[1]].count = 0 /\ ~ clr[b[1]].head
        /\ \A q \in Frames(b) : clr[q].count = 0
    BY <1>4, <1>9 DEF NoMarks
  <2>2. ~ PrepareBad(clr, b)
    BY <2>1 DEF PrepareBad
  <2> QED BY <1>1, <2>2 DEF PrepareBad
<1>22. Inv(own2)'
  BY <1>13, <1>15, <1>16, <1>17, <1>18, <1>19, <1>20, <1>21 DEF Inv
<1> QED BY <1>22 DEF IInv

-----------------------------------------------------------------------------
(* Steps on the free lists of a zone *)

(* Frames of Q, which the allocator or a call had, go to owners of T of the same kind. *)
ZoneStep(own, own2, z, w, Q, T) ==
    /\ z \in Zones /\ SetZone(z, w) /\ ZoneInv(w, z, own2) /\ MarksOnly(page, w.page, z)
    /\ Moves(own, own2, z, Q, T) /\ T \subseteq Pool /\ \A q \in Q : own[q] \in Pool
    /\ held' = held /\ toboot' = toboot

LEMMA ZoneSteps ==
    ASSUME NEW own, NEW own2, NEW z, NEW w, NEW Q, NEW T, Inv(own), ZoneStep(own, own2, z, w, Q, T)
    PROVE  /\ InvOwners(own2)' /\ InvZones(own2)' /\ InvHeld(own2)' /\ InvBoot(own2)'
           /\ InvPool(own2)' /\ InvBootPages(own2)' /\ InvRefs(own2)'
           /\ \A o : o \notin FreeOwners /\ o \notin T /\ (\A q \in Q : own[q] # o) => Same(own, own2, o)
<1> USE DEF ZoneStep
<1>1. /\ InvOwners(own) /\ InvZones(own) /\ InvPcp(own) /\ InvCalls(own) /\ InvHeld(own)
      /\ InvBoot(own) /\ InvPool(own) /\ InvBootPages(own) /\ InvRefs(own)
  BY DEF Inv
<1>2. /\ \A q \in Q : q \in Pfns /\ page_zone_id[q] = z /\ own2[q] \in T /\ own2[q] \in Pool /\ own[q] \in Pool
      /\ \A q \in Pfns \ Q : \/ own2[q] = own[q]
                             \/ /\ page_zone_id[q] = z
                                /\ own[q] \in FreeOwners /\ own2[q] \in FreeOwners
  BY DEF Moves
<1>3. \A o : o \notin FreeOwners /\ o \notin T /\ (\A q \in Q : own[q] # o) => Same(own, own2, o)
  BY <1>2 DEF Same
<1>4. /\ \A c \in BootBlocks : Same(own, own2, AtBoot(c))
      /\ \A c \in Blocks : Same(own, own2, Held(c))
  <2>1. \A c \in BootBlocks : AtBoot(c) \notin FreeOwners /\ AtBoot(c) \notin T
                              /\ \A q \in Q : own[q] # AtBoot(c)
    BY <1>2, PoolFacts, OwnersDiffer
  <2>2. \A c \in Blocks : Held(c) \notin FreeOwners /\ Held(c) \notin T /\ \A q \in Q : own[q] # Held(c)
    BY <1>2, PoolFacts, OwnersDiffer
  <2> QED BY <1>3, <2>1, <2>2
<1>5. InvOwners(own2)
  <2>1. \A q \in Pfns : own2[q] = own[q] \/ (own2[q] \in Owners \ {Outside} /\ own[q] # Outside)
    BY <1>2, PoolFacts, OwnersDiffer
  <2> QED BY <1>1, <2>1, OwnersKept
<1>6. InvOwners(own2)'
  BY <1>5 DEF InvOwners
<1>7. InvZones(own2)'
  <2>1. \A q \in Pfns : page_zone_id[q] # z => own2[q] = own[q]
    BY <1>2
  <2> QED BY <1>1, <2>1, ZoneSet
<1>8. InvHeld(own2)' /\ InvBoot(own2)'
  BY <1>1, <1>4, HeldKept, BootKept
<1>9. InvPool(own2)' /\ InvBootPages(own2)' /\ InvRefs(own2)'
  <2>1. \A q \in Pfns : own2[q] \in Pool => own[q] \in Pool
    BY <1>2, PoolFacts
  <2>2. MarksOnly(page, page', z)
    BY DEF SetZone
  <2> QED BY <1>1, <1>4, <2>1, <2>2, PagesKept
<1> QED BY <1>3, <1>6, <1>7, <1>8, <1>9

(* The view of a zone, as a constant of a step *)
LEMMA ViewInv ==
    ASSUME NEW own, Inv(own), NEW z \in Zones
    PROVE  \E v : v = View(z) /\ v.page = page /\ ZoneInv(v, z, own)
<1>1. View(z).page = page /\ ZoneInv(View(z), z, own)
  BY DEF Inv, InvZones, View
<1> QED BY <1>1

(* A page that the allocator has just taken from the free lists passes its check. *)
LEMMA NewPageOk ==
    ASSUME NEW own, NEW own2, NEW z, NEW w, NEW q \in Pfns, Inv(own), ZoneInv(w, z, own2),
           MarksOnly(page, w.page, z), page_zone_id[q] = z, own[q] \in Pool, own2[q] \notin FreeOwners
    PROVE  check_new_page(w, q)
<1>1. page[q].count = 0 /\ NoMarks(page[q])
  BY DEF Inv, InvPool
<1>2. w.page[q].count = 0 /\ ~ w.page[q].head
  BY <1>1 DEF MarksOnly, NoMarks
<1> DEFINE R == Sets(w.area)
           pg == w.page
<1>3. FreeSets(pg, R, z, own2)
  BY DEF ZoneInv
<1>4. pg[q].buddy = FALSE
  <2> HIDE DEF R, pg
  <2> QED BY <1>3, NotFreeNoMark
<1> QED BY <1>2, <1>4 DEF check_new_page

(* Whatever has a buddy mark in a view of zone z has no references: a free page of the view
   was in the pool. *)
LEMMA MarkedUnreferenced ==
    ASSUME NEW own, NEW own2, NEW z, NEW w, NEW q \in Pfns, Inv(own), ZoneInv(w, z, own2),
           MarksOnly(page, w.page, z), own2[q] \in FreeOwners => own[q] \in Pool, w.page[q].buddy
    PROVE  w.page[q].count = 0
<1>1. InvZones(own) /\ InvPool(own)
  BY DEF Inv
<1>2. own[q] \in Pool
  <2>1. CASE page_zone_id[q] = z
    <3> DEFINE R == Sets(w.area)
               pg == w.page
    <3>1. FreeSets(pg, R, z, own2) /\ pg[q].buddy
      BY DEF ZoneInv
    <3>2. own2[q] \in FreeOwners
      <4> HIDE DEF R, pg
      <4> QED BY <2>1, <3>1, NotFreeNoMark
    <3> QED BY <3>2
  <2>2. CASE page_zone_id[q] # z
    <3>1. page[q].buddy
      BY <2>2 DEF MarksOnly
    <3> QED BY <1>1, <3>1, NoBuddyMark, PoolFacts
  <2> QED BY <2>1, <2>2
<1>3. page[q].count = 0
  BY <1>1, <1>2 DEF InvPool
<1> QED BY <1>3 DEF MarksOnly

(* The BUG_ONs of __free_one_page do not fire for a clean, aligned page when nothing with a
   buddy mark has references. *)
MarkedAreUnreferenced(v) == \A q \in Pfns : v.page[q].buddy => v.page[q].count = 0

LEMMA FreeOneOk ==
    ASSUME NEW v, NEW p, NEW k, check_new_page(v, p), p % Pow2[k] = 0, MarkedAreUnreferenced(v)
    PROVE  __free_one_page_BUG(v, p, k) = FALSE
<1>1. ASSUME NEW x, NEW j PROVE ~ page_is_buddy_BUG(v, x, j)
  BY DEF page_is_buddy_BUG, page_is_buddy, MarkedAreUnreferenced
<1>2. ~ v.page[p].head /\ ~ v.page[p].buddy
  BY DEF check_new_page
<1> QED BY <1>1, <1>2, Zenon DEF __free_one_page_BUG

LEMMA Rmqueue ==
    ASSUME NEW own, Inv(own), NEW t \in Tasks, NEW z \in Zones, NEW order \in Orders,
           pc[t] = "idle", rmqueue(t, z, order), UNCHANGED <<pageset, held, toboot>>
    PROVE  IInv'
<1>1. PICK v : v = View(z) /\ v.page = page /\ ZoneInv(v, z, own)
  BY ViewInv
<1>2. PICK r : r = __rmqueue_smallest(v, order)
  OBVIOUS
<1> DEFINE p == r.pfn
           w == r.v
           b == <<p, order>>
           x == InCall(t)
<1>3. /\ p # NoPage /\ SetZone(z, w) /\ Call(t, "prep", b) /\ UNCHANGED pcp
      /\ bug' = \E q \in Frames(b) : ~ check_new_page(w, q)
  BY <1>1, <1>2 DEF rmqueue
<1>4. p \in Pfns /\ \E own2 : TookOne(v, w, z, own, own2, p, order, x)
  <2>1. x \notin FreeOwners
    BY OwnersDiffer
  <2>2. \/ r.pfn = NoPage /\ r.v = v
        \/ r.pfn \in Pfns /\ \E own2 : TookOne(v, r.v, z, own, own2, r.pfn, order, x)
    BY <1>1, <1>2, <2>1, TakeOne
  <2> QED BY <1>3, <2>2
<1>5. PICK own2 : TookOne(v, w, z, own, own2, p, order, x)
  BY <1>4
<1> HIDE DEF w, p
<1>6. /\ ZoneInv(w, z, own2) /\ Moves(own, own2, z, Frames(b), {x}) /\ MarksOnly(page, w.page, z)
      /\ IsBlock(b) /\ page_zone_id[p] = z /\ \A q \in Frames(b) : own[q] \in FreeOwners
  BY <1>1, <1>5 DEF TookOne
<1>7. /\ InvPcp(own) /\ InvCalls(own)
  BY DEF Inv
<1>8. ZoneStep(own, own2, z, w, Frames(b), {x})
  <2>1. x \in Pool /\ \A q \in Frames(b) : own[q] \in Pool
    BY <1>6, PoolFacts
  <2> QED BY <1>3, <1>6, <2>1 DEF ZoneStep
<1>9. /\ InvOwners(own2)' /\ InvZones(own2)' /\ InvHeld(own2)' /\ InvBoot(own2)'
      /\ InvPool(own2)' /\ InvBootPages(own2)' /\ InvRefs(own2)'
      /\ \A o : o \notin FreeOwners /\ o \notin {x} /\ (\A q \in Frames(b) : own[q] # o) => Same(own, own2, o)
  BY <1>8, ZoneSteps
<1>10. /\ \A s \in Pagesets : Same(own, own2, Pcp(s))
       /\ \A u \in Tasks \ {t} : Same(own, own2, InCall(u))
  <2>1. \A s \in Pagesets : Pcp(s) \notin FreeOwners /\ Pcp(s) \notin {x} /\ \A q \in Frames(b) : own[q] # Pcp(s)
    BY <1>6, OwnersDiffer
  <2>2. \A u \in Tasks \ {t} : InCall(u) \notin FreeOwners /\ InCall(u) \notin {x}
                               /\ \A q \in Frames(b) : own[q] # InCall(u)
    BY <1>6, OwnersDiffer
  <2> QED BY <1>9, <2>1, <2>2
<1>11. InvPcp(own2)'
  BY <1>3, <1>7, <1>10, PcpKept
<1>12. InvCalls(own2)'
  <2>1. \A q \in Pfns : own2[q] = x <=> q \in Frames(b)
    <3>1. \A q \in Pfns : own[q] # x
      BY <1>7 DEF InvCalls
    <3>2. x \notin FreeOwners
      BY OwnersDiffer
    <3> HIDE DEF x, b
    <3> QED BY <1>6, <3>1, <3>2 DEF Moves
  <2> QED BY <1>3, <1>6, <1>7, <1>10, <2>1, CallStarts
<1>13. bug' = FALSE
  <2>1. ASSUME NEW q \in Frames(b) PROVE check_new_page(w, q)
    <3>1. q \in Pfns /\ page_zone_id[q] = z /\ own2[q] = x
      BY <1>6 DEF Moves
    <3>2. own2[q] \notin FreeOwners /\ own[q] \in Pool
      BY <1>6, <3>1, OwnersDiffer, PoolFacts
    <3> QED BY <1>6, <3>1, <3>2, NewPageOk
  <2> QED BY <1>3, <2>1
<1>14. Inv(own2)'
  BY <1>9, <1>11, <1>12, <1>13 DEF Inv
<1> QED BY <1>14 DEF IInv

-----------------------------------------------------------------------------
(* The page lists *)

LEMMA ZoneRetag ==
    ASSUME NEW v, NEW z, NEW own, NEW own2, ZoneInv(v, z, own),
           \A q \in Pfns : own2[q] = own[q] \/ (own[q] \notin FreeOwners /\ own2[q] \notin FreeOwners)
    PROVE  ZoneInv(v, z, own2)
<1> DEFINE R == Sets(v.area)
           pg == v.page
<1>1. FreeSets(pg, R, z, own) /\ pg \in [Pfns -> PageRec]
  BY DEF ZoneInv, FreeSets
<1>2. FreeSets(pg, R, z, own2)
  <2> HIDE DEF pg, R
  <2> QED BY <1>1, FreeSetsKept
<1> QED BY <1>2 DEF ZoneInv

LEMMA BatchFacts ==
    ASSUME NEW s
    PROVE  /\ batch(s) \in Nat \ {0} /\ high(s) \in Nat
           /\ s[1] = "boot" => batch(s) = 1 /\ high(s) = 0
           /\ \A m \in Nat : m + 1 >= high(s) => batch(s) <= m + 1
<1>1. zone_batchsize \in Nat /\ HighBatches \in Nat \ {0}
  BY SizesAssumption
<1>2. CASE s[1] = "boot"
  BY <1>2 DEF batch, high
<1>3. CASE s[1] # "boot"
  <2> DEFINE S == {1, zone_batchsize}
             m == zone_batchsize + 1
  <2>1. S \in SUBSET (0 .. m) /\ m \in Nat /\ S # {}
    BY <1>1
  <2>2. Max(S) \in S /\ \A y \in S : y <= Max(S)
    <3> HIDE DEF S, m
    <3> QED BY <2>1, MaxIs
  <2>3. batch(s) = Max(S) /\ high(s) = HighBatches * zone_batchsize
    BY <1>3 DEF batch, high
  <2> DEFINE n == Max(S)
             h == HighBatches * zone_batchsize
  <2>4. n \in {1, zone_batchsize} /\ 1 <= n
    BY <2>2
  <2> HIDE DEF n
  <2>5. n \in Nat \ {0}
    BY <1>1, <2>4
  <2>6. h \in Nat /\ zone_batchsize <= h
    <3>1. h = zone_batchsize + (HighBatches - 1) * zone_batchsize
      BY <1>1
    <3>2. (HighBatches - 1) * zone_batchsize \in Nat
      BY <1>1
    <3> DEFINE g == (HighBatches - 1) * zone_batchsize
    <3> HIDE DEF h, g
    <3>3. h = zone_batchsize + g /\ g \in Nat
      BY <3>1, <3>2 DEF g
    <3> QED BY <1>1, <3>3
  <2> HIDE DEF h
  <2>7. \A i \in Nat : i + 1 >= h => n <= i + 1
    BY <1>1, <2>4, <2>5, <2>6
  <2>8. batch(s) = n /\ high(s) = h
    BY <2>3 DEF n, h
  <2> QED BY <1>3, <2>5, <2>6, <2>7, <2>8
<1> QED BY <1>2, <1>3

(* What rmqueue_pcplist has before it takes the first page of the list: the list is refilled
   if it was empty, and all its pages belong to the pageset. *)
Refilled(own, own1, z, w, s, old, more, list) ==
    /\ ZoneInv(w, z, own1) /\ MarksOnly(page, w.page, z)
    /\ Moves(own, own1, z, SeqRange(more), {Pcp(s)})
    /\ \A q \in SeqRange(more) : own[q] \in FreeOwners
    /\ IsList(list) /\ Len(list) = Len(old) + Len(more) /\ Len(more) \in Nat
    /\ \A q \in Pfns : own1[q] = Pcp(s) <=> q \in SeqRange(list)
    /\ \A q \in SeqRange(list) : /\ q \in Pfns /\ page_zone_id[q] = z
                                 /\ own[q] = Pcp(s) \/ q \in SeqRange(more)
    /\ s[1] = "boot" => Len(list) <= 1

LEMMA Refill ==
    ASSUME NEW own, Inv(own), NEW z \in Zones, NEW s \in Pagesets, s[1] \in {z, "boot"},
           NEW v, v.page = page, ZoneInv(v, z, own), NEW r,
           r = IF pcp[s].list = <<>> THEN rmqueue_bulk(v, batch(s)) ELSE [v |-> v, list |-> <<>>]
    PROVE  \E own1 : Refilled(own, own1, z, r.v, s, pcp[s].list, r.list, pcp[s].list \o r.list)
<1> DEFINE old == pcp[s].list
<1>1. /\ IsList(old) /\ (s[1] = "boot" => old = <<>>)
      /\ \A q \in SeqRange(old) : page_zone_id[q] = s[1]
      /\ \A q \in Pfns : own[q] = Pcp(s) <=> q \in SeqRange(old)
  BY DEF Inv, InvPcp
<1>2. Pcp(s) \notin FreeOwners
  BY OwnersDiffer
<1>3. SeqRange(<<>>) = {} /\ Len(<<>>) = 0
  BY DEF SeqRange
<1>4. \A l : IsList(l) => /\ SeqRange(l) \subseteq Pfns /\ Len(l) \in Nat
                          /\ <<>> \o l = l /\ l \o <<>> = l
  BY DEF IsList, SeqRange
<1>5. CASE old = <<>>
  <2> DEFINE n == batch(s)
  <2>1. n \in Nat /\ (s[1] = "boot" => n = 1)
    BY BatchFacts
  <2>2. r = rmqueue_bulk(v, n)
    BY <1>5
  <2> HIDE DEF n
  <2>3. Len(r.list) <= n /\ \E o : TookBulk(v, r.v, z, own, o, r.list, Pcp(s))
    BY <1>2, <2>1, <2>2, TakeBulk
  <2>4. PICK own1 : TookBulk(v, r.v, z, own, own1, r.list, Pcp(s))
    BY <2>3
  <2> DEFINE more == r.list
  <2>5. /\ ZoneInv(r.v, z, own1) /\ Moves(own, own1, z, SeqRange(more), {Pcp(s)})
        /\ MarksOnly(page, r.v.page, z)
        /\ IsList(more) /\ \A q \in SeqRange(more) : own[q] \in FreeOwners
    BY <2>4 DEF TookBulk
  <2>6. old \o more = more /\ Len(more) \in Nat /\ Len(old) = 0
    BY <1>3, <1>4, <1>5, <2>5
  <2>7. \A q \in Pfns : own1[q] = Pcp(s) <=> q \in SeqRange(more)
    <3>1. \A q \in Pfns : own[q] # Pcp(s)
      BY <1>1, <1>3, <1>5
    <3> QED BY <1>2, <2>5, <3>1 DEF Moves
  <2>8. \A q \in SeqRange(more) : q \in Pfns /\ page_zone_id[q] = z
    BY <2>5 DEF Moves
  <2>9. s[1] = "boot" => Len(more) <= 1
    BY <2>1, <2>3
  <2> HIDE DEF more, old
  <2>10. Refilled(own, own1, z, r.v, s, old, more, more)
    BY <2>5, <2>6, <2>7, <2>8, <2>9 DEF Refilled
  <2> QED BY <2>6, <2>10 DEF more, old
<1>6. CASE old # <<>>
  <2>1. r.v = v /\ r.list = <<>>
    BY <1>6
  <2>2. old \o r.list = old /\ Len(old) \in Nat /\ SeqRange(old) \subseteq Pfns
    BY <1>1, <1>4, <2>1
  <2>3. s[1] = z /\ s[1] # "boot"
    BY <1>1, <1>6
  <2> HIDE DEF old
  <2>4. Refilled(own, own, z, v, s, old, <<>>, old)
    <3>1. MarksOnly(page, v.page, z)
      BY MarksNone
    <3>2. Moves(own, own, z, SeqRange(<<>>), {Pcp(s)})
      BY <1>3, MovesNone
    <3>3. Len(old) = Len(old) + Len(<<>>) /\ Len(<<>>) \in Nat
      BY <1>3, <2>2
    <3>4. \A q \in SeqRange(old) : q \in Pfns /\ page_zone_id[q] = z /\ own[q] = Pcp(s)
      BY <1>1, <2>2, <2>3 DEF old
    <3>5. \A q \in SeqRange(<<>>) : own[q] \in FreeOwners
      BY <1>3
    <3>6. IsList(old) /\ \A q \in Pfns : own[q] = Pcp(s) <=> q \in SeqRange(old)
      BY <1>1 DEF old
    <3> QED BY <2>3, <3>1, <3>2, <3>3, <3>4, <3>5, <3>6 DEF Refilled
  <2>5. Refilled(own, own, z, r.v, s, old, r.list, old \o r.list)
    BY <2>1, <2>2, <2>4
  <2> QED BY <2>5 DEF old
<1> QED BY <1>5, <1>6

LEMMA RmqueuePcplist ==
    ASSUME NEW own, Inv(own), NEW t \in Tasks, NEW z \in Zones, pc[t] = "idle",
           rmqueue_pcplist(t, z), UNCHANGED <<pageset, held, toboot>>
    PROVE  IInv'
<1>1. PICK v : v = View(z) /\ v.page = page /\ ZoneInv(v, z, own)
  BY ViewInv
<1>2. PICK s : s = MyPageset(t, z)
  OBVIOUS
<1>3. s \in Pagesets /\ s[1] \in {z, "boot"}
  BY <1>2, PagesetFacts
<1>4. PICK r : r = IF pcp[s].list = <<>> THEN rmqueue_bulk(v, batch(s)) ELSE [v |-> v, list |-> <<>>]
  OBVIOUS
<1>5. PICK old : old = pcp[s].list
  OBVIOUS
<1>6. PICK more : more = r.list
  OBVIOUS
<1>7. PICK w : w = r.v
  OBVIOUS
<1>8. PICK list : list = old \o more
  OBVIOUS
<1> DEFINE p == Head(list)
           x == Pcp(s)
           y == InCall(t)
<1>9. /\ list # <<>> /\ SetZone(z, w)
      /\ pcp' = [pcp EXCEPT ![s] = [list |-> Tail(list), count |-> @.count + Len(more) - 1]]
      /\ Call(t, "prep", <<p, 0>>)
      /\ bug' = \E i \in DOMAIN more : ~ check_new_page(w, more[i])
  BY <1>1, <1>2, <1>4, <1>5, <1>6, <1>7, <1>8 DEF rmqueue_pcplist
<1>10. \E o : Refilled(own, o, z, r.v, s, pcp[s].list, r.list, pcp[s].list \o r.list)
  BY <1>1, <1>3, <1>4, Refill
<1>11. PICK own1 : Refilled(own, own1, z, w, s, old, more, list)
  BY <1>5, <1>6, <1>7, <1>8, <1>10
<1>12. /\ ZoneInv(w, z, own1) /\ MarksOnly(page, w.page, z)
       /\ Moves(own, own1, z, SeqRange(more), {x})
       /\ \A q \in SeqRange(more) : own[q] \in FreeOwners
       /\ IsList(list) /\ Len(list) = Len(old) + Len(more) /\ Len(more) \in Nat
       /\ \A q \in Pfns : own1[q] = x <=> q \in SeqRange(list)
       /\ \A q \in SeqRange(list) : /\ q \in Pfns /\ page_zone_id[q] = z
                                    /\ own[q] = x \/ q \in SeqRange(more)
       /\ s[1] = "boot" => Len(list) <= 1
  BY <1>11 DEF Refilled
<1>13. /\ IsList(Tail(list)) /\ SeqRange(Tail(list)) = SeqRange(list) \ {p}
       /\ Len(Tail(list)) = Len(list) - 1 /\ Len(list) \in Nat \ {0}
       /\ p \in SeqRange(list) /\ p \in Pfns
  BY <1>9, <1>12, ListTail
<1>14. PICK rest : rest = Tail(list)
  OBVIOUS
<1>15. InvPcp(own) /\ InvCalls(own)
  BY DEF Inv
<1>16. /\ x \notin FreeOwners /\ y \notin FreeOwners /\ x # y /\ x \in Pool /\ y \in Pool
       /\ FreeOwners \subseteq Pool
  BY <1>3, OwnersDiffer, PoolFacts
<1> DEFINE own2 == Retag(own1, {p}, y)
           Q == SeqRange(more) \cup {p}
<1>17. own2[p] = y /\ own1[p] = x /\ \A q \in Pfns \ {p} : own2[q] = own1[q]
  BY <1>12, <1>13 DEF Retag
<1> HIDE DEF own2, p, x, y
<1>18. ZoneInv(w, z, own2)
  <2>1. \A q \in Pfns : own2[q] = own1[q] \/ (own1[q] \notin FreeOwners /\ own2[q] \notin FreeOwners)
    BY <1>16, <1>17
  <2> QED BY <1>12, <2>1, ZoneRetag
<1>19. Moves(own, own2, z, Q, {x, y})
  <2>1. ASSUME NEW q \in Q PROVE q \in Pfns /\ page_zone_id[q] = z /\ own2[q] \in {x, y}
    <3>1. CASE q = p
      BY <1>12, <1>13, <1>17, <3>1
    <3>2. CASE q # p
      <4>1. q \in SeqRange(more)
        BY <2>1, <3>2
      <4> QED BY <1>12, <1>17, <3>2, <4>1 DEF Moves
    <3> QED BY <3>1, <3>2
  <2>2. ASSUME NEW q \in Pfns \ Q
        PROVE  \/ own2[q] = own[q]
               \/ /\ page_zone_id[q] = z
                  /\ own[q] \in FreeOwners /\ own2[q] \in FreeOwners
    BY <1>12, <1>17 DEF Moves
  <2> HIDE DEF Q
  <2> QED BY <2>1, <2>2 DEF Moves
<1>20. \A q \in Q : own[q] = x \/ own[q] \in FreeOwners
  BY <1>12, <1>13
<1>21. ZoneStep(own, own2, z, w, Q, {x, y})
  <2>1. {x, y} \subseteq Pool /\ \A q \in Q : own[q] \in Pool
    BY <1>16, <1>20
  <2> HIDE DEF Q
  <2> QED BY <1>9, <1>12, <1>18, <1>19, <2>1 DEF ZoneStep
<1> HIDE DEF Q
<1>22. /\ InvOwners(own2)' /\ InvZones(own2)' /\ InvHeld(own2)' /\ InvBoot(own2)'
       /\ InvPool(own2)' /\ InvBootPages(own2)' /\ InvRefs(own2)'
       /\ \A o : o \notin FreeOwners /\ o \notin {x, y} /\ (\A q \in Q : own[q] # o) => Same(own, own2, o)
  BY <1>21, ZoneSteps
<1>23. /\ \A c \in Pagesets \ {s} : Same(own, own2, Pcp(c))
       /\ \A u \in Tasks \ {t} : Same(own, own2, InCall(u))
  <2>1. \A c \in Pagesets \ {s} : Pcp(c) \notin FreeOwners /\ Pcp(c) \notin {x, y} /\ \A q \in Q : own[q] # Pcp(c)
    BY <1>20, OwnersDiffer DEF x, y
  <2>2. \A u \in Tasks \ {t} : InCall(u) \notin FreeOwners /\ InCall(u) \notin {x, y}
                               /\ \A q \in Q : own[q] # InCall(u)
    BY <1>20, OwnersDiffer DEF x, y
  <2> QED BY <1>22, <2>1, <2>2
<1>24. InvPcp(own2)'
  <2>1. /\ pcp' = [c \in Pagesets |-> pcp'[c]] /\ pageset' \in [Zones -> BOOLEAN]
        /\ pcp'[s] = [list |-> rest, count |-> pcp[s].count + Len(more) - 1]
        /\ \A c \in Pagesets \ {s} : pcp'[c] = pcp[c]
    BY <1>3, <1>9, <1>14, <1>15 DEF InvPcp
  <2>2. pcp'[s].list = rest /\ pcp'[s].count = Len(rest)
    <3>1. pcp[s].count = Len(old) /\ Len(old) \in Nat
      BY <1>3, <1>5, <1>15 DEF InvPcp, IsList
    <3>2. pcp'[s].list = rest /\ pcp'[s].count = pcp[s].count + Len(more) - 1
      BY <2>1
    <3> QED BY <1>12, <1>13, <1>14, <3>1, <3>2
  <2>3. s[1] = "boot" => rest = <<>>
    <3>1. s[1] = "boot" => Len(rest) = 0
      BY <1>12, <1>13, <1>14
    <3>2. rest \in Seq(Pfns)
      BY <1>13, <1>14 DEF IsList
    <3> QED BY <3>1, <3>2
  <2>4. \A q \in SeqRange(rest) : page_zone_id[q] = s[1]
    <3>1. CASE s[1] = "boot"
      <4>1. SeqRange(rest) = {}
        BY <2>3, <3>1 DEF SeqRange
      <4> QED BY <4>1
    <3>2. CASE s[1] = z
      BY <1>12, <1>13, <1>14, <3>2
    <3> QED BY <1>3, <3>1, <3>2
  <2>5. \A q \in Pfns : own2[q] = x <=> q \in SeqRange(rest)
    BY <1>12, <1>13, <1>14, <1>16, <1>17
  <2>6. ASSUME NEW c \in Pagesets
        PROVE  /\ IsList(pcp'[c].list) /\ pcp'[c].count = Len(pcp'[c].list)
               /\ c[1] = "boot" => pcp'[c].list = <<>>
               /\ \A q \in SeqRange(pcp'[c].list) : page_zone_id[q] = c[1]
               /\ \A q \in Pfns : own2[q] = Pcp(c) <=> q \in SeqRange(pcp'[c].list)
    <3>1. CASE c = s
      BY <1>13, <1>14, <2>2, <2>3, <2>4, <2>5, <3>1 DEF x
    <3>2. CASE c # s
      BY <1>15, <1>23, <2>1, <3>2 DEF InvPcp, Same
    <3> QED BY <3>1, <3>2
  <2> QED BY <2>1, <2>6 DEF InvPcp, IsList, SeqRange
<1>25. InvCalls(own2)'
  <2> DEFINE b == <<p, 0>>
  <2>1. IsBlock(b) /\ Frames(b) = {p}
    BY <1>13, OnePage
  <2>2. \A q \in Pfns : own[q] # y
    BY <1>15 DEF InvCalls, y
  <2>3. \A q \in Pfns : own1[q] # y
    BY <1>12, <1>16, <2>2 DEF Moves
  <2>4. \A q \in Pfns : own2[q] = y <=> q \in Frames(b)
    BY <1>17, <2>1, <2>3
  <2>5. Call(t, "prep", b)
    BY <1>9
  <2> HIDE DEF b
  <2> QED BY <1>15, <1>23, <2>1, <2>4, <2>5, CallStarts DEF y
<1>26. bug' = FALSE
  <2>1. ASSUME NEW i \in DOMAIN more PROVE check_new_page(w, more[i])
    <3> DEFINE q == more[i]
    <3>1. q \in SeqRange(more)
      BY DEF SeqRange
    <3> HIDE DEF q
    <3>2. q \in Pfns /\ page_zone_id[q] = z /\ own1[q] \notin FreeOwners /\ own[q] \in Pool
      BY <1>12, <1>16, <3>1 DEF Moves
    <3>3. check_new_page(w, q)
      BY <1>12, <3>2, NewPageOk
    <3> QED BY <3>3 DEF q
  <2> QED BY <1>9, <2>1
<1>27. Inv(own2)'
  BY <1>22, <1>24, <1>25, <1>26 DEF Inv
<1> QED BY <1>27 DEF IInv

(* The last n pages of a list leave, the others stay. *)
LEMMA ListSplit ==
    ASSUME NEW list, IsList(list), NEW n \in 0 .. Len(list)
    PROVE  LET keep == SubSeq(list, 1, Len(list) - n)
           IN  /\ IsList(keep) /\ Len(keep) = Len(list) - n
               /\ SeqRange(keep) = SeqRange(list) \ LastOf(list, n)
               /\ LastOf(list, n) \subseteq SeqRange(list)
<1> DEFINE m == Len(list) - n
           keep == SubSeq(list, 1, m)
           L == Len(list)
<1>1. L \in Nat /\ DOMAIN list = 1 .. L /\ m \in 0 .. L /\ n \in Nat /\ n <= L
      /\ \A i, j \in 1 .. L : list[i] = list[j] => i = j
  BY DEF IsList
<1>2. IsList(keep) /\ SeqRange(keep) = {list[i] : i \in 1 .. m} /\ Len(keep) = m
  <2> HIDE DEF m
  <2> QED BY <1>1, ListCut
<1> HIDE DEF keep
<1>3. LastOf(list, n) = {list[j] : j \in m + 1 .. L}
  <2>1. L + 1 - n = m + 1
    BY <1>1
  <2> QED BY <2>1 DEF LastOf
<1>4. m \in Nat /\ m <= L
  BY <1>1
<1> HIDE DEF L, m
<1>5. LastOf(list, n) \subseteq SeqRange(list)
  BY <1>1, <1>3, <1>4 DEF SeqRange
<1>6. SeqRange(keep) = SeqRange(list) \ LastOf(list, n)
  <2>1. ASSUME NEW i \in 1 .. m PROVE list[i] \in SeqRange(list) /\ list[i] \notin LastOf(list, n)
    BY <1>1, <1>3, <1>4 DEF SeqRange
  <2>2. ASSUME NEW q \in SeqRange(list), q \notin LastOf(list, n) PROVE q \in SeqRange(keep)
    <3>1. PICK i \in 1 .. L : q = list[i]
      BY <1>1 DEF SeqRange
    <3>2. i \notin m + 1 .. L
      BY <1>3, <2>2, <3>1
    <3>3. i \in 1 .. m
      BY <1>1, <1>4, <3>2
    <3> QED BY <1>2, <3>1, <3>3
  <2> QED BY <1>2, <2>1, <2>2
<1> QED BY <1>2, <1>5, <1>6 DEF keep, m

LEMMA FreeUnref ==
    ASSUME NEW own, Inv(own), NEW t \in Tasks, pc[t] = "free", NEW p, cur[t] = <<p, 0>>,
           FreeUnrefPage(t, p), Call(t, "idle", NoBlock), UNCHANGED <<pageset, held, toboot>>
    PROVE  IInv'
<1>0. InvPcp(own) /\ InvCalls(own) /\ InvPool(own)
  BY DEF Inv
<1>1. /\ IsBlock(<<p, 0>>) /\ p \in Pfns /\ Frames(<<p, 0>>) = {p}
      /\ \A q \in Pfns : own[q] = InCall(t) <=> q = p
  <2>1. IsBlock(<<p, 0>>) /\ \A q \in Pfns : own[q] = InCall(t) <=> q \in Frames(<<p, 0>>)
    BY <1>0 DEF InvCalls
  <2>2. p \in Pfns
    BY <2>1, BlockFacts
  <2> QED BY <2>1, <2>2, OnePage
<1> DEFINE z == page_zone_id[p]
<1>2. z \in Zones
  BY <1>1, PfnsAssumption
<1>3. PICK v : v = View(z) /\ v.page = page /\ ZoneInv(v, z, own)
  BY <1>2, ViewInv
<1>4. PICK s : s = MyPageset(t, z)
  OBVIOUS
<1>5. s \in Pagesets /\ s[1] \in {z, "boot"}
  BY <1>2, <1>4, PagesetFacts
<1>6. PICK old : old = pcp[s].list
  OBVIOUS
<1>7. PICK list : list = <<p>> \o old
  OBVIOUS
<1>8. PICK want : want = IF pcp[s].count + 1 >= high(s) THEN batch(s) ELSE 0
  OBVIOUS
<1>9. PICK n : n = Min({want, Len(list)})
  OBVIOUS
<1>10. PICK w : w = free_pcppages_bulk(v, list, n)
  OBVIOUS
<1>11. PICK keep : keep = SubSeq(list, 1, Len(list) - n)
  OBVIOUS
<1> DEFINE x == Pcp(s)
           y == InCall(t)
<1>12. /\ SetZone(z, w)
       /\ pcp' = [pcp EXCEPT ![s] = [list |-> keep, count |-> @.count + 1 - n]]
       /\ bug' = \/ want > Len(list)
                 \/ \E i \in Len(list) - n + 1 .. Len(list) : page[list[i]].count # 0
                 \/ \E i \in 1 .. n : __free_one_page_BUG(free_pcppages_bulk(v, list, i - 1),
                                                        list[Len(list) + 1 - i], 0)
  BY <1>3, <1>4, <1>6, <1>7, <1>8, <1>9, <1>10, <1>11 DEF FreeUnrefPage
<1>13. /\ IsList(old) /\ pcp[s].count = Len(old) /\ (s[1] = "boot" => old = <<>>)
       /\ \A q \in SeqRange(old) : page_zone_id[q] = s[1]
       /\ \A q \in Pfns : own[q] = x <=> q \in SeqRange(old)
  BY <1>0, <1>5, <1>6 DEF InvPcp
<1>14. /\ x \notin FreeOwners /\ y \notin FreeOwners /\ x # y /\ x \in Pool /\ y \in Pool
       /\ FreeOwners \subseteq Pool
  BY <1>5, OwnersDiffer, PoolFacts
<1> HIDE DEF z, x, y
<1>15. /\ IsList(list) /\ SeqRange(list) = SeqRange(old) \cup {p} /\ Len(list) = Len(old) + 1
       /\ Len(old) \in Nat /\ Len(list) \in Nat
  <2>1. p \notin SeqRange(old)
    BY <1>1, <1>13, <1>14 DEF y
  <2>2. IsList(<<p>> \o old) /\ SeqRange(<<p>> \o old) = SeqRange(old) \cup {p}
        /\ Len(<<p>> \o old) = Len(old) + 1 /\ Head(<<p>> \o old) = p /\ <<p>> \o old # <<>>
    BY <1>1, <1>13, <2>1, ListPush
  <2>3. Len(old) \in Nat
    BY <1>13 DEF IsList
  <2>4. IsList(list) /\ SeqRange(list) = SeqRange(old) \cup {p} /\ Len(list) = Len(old) + 1
    BY <1>7, <2>2
  <2> QED BY <2>3, <2>4
<1>16. \A q \in SeqRange(list) : q \in Pfns /\ page_zone_id[q] = z /\ own[q] \in {x, y}
  <2>1. \A q \in SeqRange(old) : q \in Pfns
    BY <1>13 DEF IsList, SeqRange
  <2>2. s[1] = "boot" => SeqRange(old) = {}
    BY <1>13 DEF SeqRange
  <2>3. \A q \in SeqRange(old) : page_zone_id[q] = z
    BY <1>5, <1>13, <2>2
  <2>4. page_zone_id[p] = z /\ own[p] = y
    BY <1>1 DEF z, y
  <2> QED BY <1>1, <1>13, <1>15, <2>1, <2>3, <2>4
<1>17. want \in Nat /\ want <= Len(list) /\ (s[1] = "boot" => want = 1 /\ Len(list) = 1)
  <2>1. /\ batch(s) \in Nat \ {0} /\ high(s) \in Nat
        /\ s[1] = "boot" => batch(s) = 1 /\ high(s) = 0
        /\ \A m \in Nat : m + 1 >= high(s) => batch(s) <= m + 1
    BY BatchFacts
  <2>2. s[1] = "boot" => Len(old) = 0
    BY <1>13
  <2> QED BY <1>8, <1>13, <1>15, <2>1, <2>2
<1>18. n = want /\ n \in 0 .. Len(list)
  <2> DEFINE S == {want, Len(list)}
  <2>1. S \in SUBSET Nat /\ S # {}
    BY <1>15, <1>17
  <2>2. Min(S) \in S /\ \A k \in S : Min(S) <= k
    <3> HIDE DEF S
    <3> QED BY <2>1, MinIs
  <2>3. n \in {want, Len(list)} /\ n <= want
    BY <1>9, <2>2
  <2> QED BY <1>15, <1>17, <2>3
<1>19. /\ IsList(keep) /\ Len(keep) = Len(list) - n
       /\ SeqRange(keep) = SeqRange(list) \ LastOf(list, n)
       /\ LastOf(list, n) \subseteq SeqRange(list)
  BY <1>11, <1>15, <1>18, ListSplit
<1> DEFINE own1 == Retag(own, {p}, x)
           E == LastOf(list, n)
           Q == E \cup {p}
           T == FreeOwners \cup {x}
<1>20. own1[p] = x /\ own[p] = y /\ \A q \in Pfns \ {p} : own1[q] = own[q]
  BY <1>1 DEF Retag, y
<1> HIDE DEF own1
<1>21. \A m \in 0 .. n : Freeable(v, z, own1, list, m)
  <2>1. ZoneInv(v, z, own1)
    <3>1. \A q \in Pfns : own1[q] = own[q] \/ (own[q] \notin FreeOwners /\ own1[q] \notin FreeOwners)
      BY <1>14, <1>20
    <3> QED BY <1>3, <3>1, ZoneRetag
  <2>2. \A i \in DOMAIN list : list[i] \in SeqRange(list)
    BY DEF SeqRange
  <2>3. \A i \in DOMAIN list : page_zone_id[list[i]] = z /\ own1[list[i]] \notin FreeOwners
    BY <1>14, <1>16, <1>20, <2>2
  <2>4. \A m \in 0 .. n : m \in 0 .. Len(list)
    BY <1>15, <1>18
  <2> QED BY <1>15, <2>1, <2>3, <2>4 DEF Freeable
<1>22. \E o : FreedOne(v, free_pcppages_bulk(v, list, n), z, own1, o, LastOf(list, n))
  <2>1. n \in 0 .. n
    BY <1>18
  <2> QED BY <1>21, <2>1, FreeBulk
<1>23. PICK own2 : FreedOne(v, w, z, own1, own2, E)
  BY <1>10, <1>22
<1> HIDE DEF E
<1>24. ZoneInv(w, z, own2) /\ Moves(own1, own2, z, E, FreeOwners) /\ MarksOnly(page, w.page, z)
  BY <1>3, <1>23 DEF FreedOne
<1>25. E \subseteq SeqRange(list) /\ SeqRange(keep) = SeqRange(list) \ E
  BY <1>19 DEF E
<1>26. Moves(own, own2, z, Q, T)
  <2>1. ASSUME NEW q \in Q PROVE q \in Pfns /\ page_zone_id[q] = z /\ own2[q] \in T
    <3>1. CASE q \in E
      BY <1>24, <3>1 DEF Moves
    <3>2. CASE q \notin E
      <4>1. q = p
        BY <2>1, <3>2
      <4>2. own2[p] = x
        BY <1>1, <1>14, <1>20, <1>24, <3>2, <4>1 DEF Moves
      <4> QED BY <1>1, <4>1, <4>2 DEF z
    <3> QED BY <3>1, <3>2
  <2>2. ASSUME NEW q \in Pfns \ Q
        PROVE  \/ own2[q] = own[q]
               \/ /\ page_zone_id[q] = z
                  /\ own[q] \in FreeOwners /\ own2[q] \in FreeOwners
    BY <1>20, <1>24 DEF Moves
  <2> HIDE DEF Q, T
  <2> QED BY <2>1, <2>2 DEF Moves
<1>27. \A q \in Q : own[q] \in {x, y}
  BY <1>15, <1>16, <1>20, <1>25
<1>28. ZoneStep(own, own2, z, w, Q, T)
  <2>1. T \subseteq Pool /\ \A q \in Q : own[q] \in Pool
    BY <1>14, <1>27
  <2> HIDE DEF Q, T
  <2> QED BY <1>2, <1>12, <1>24, <1>26, <2>1 DEF ZoneStep
<1> HIDE DEF Q
<1>29. /\ InvOwners(own2)' /\ InvZones(own2)' /\ InvHeld(own2)' /\ InvBoot(own2)'
       /\ InvPool(own2)' /\ InvBootPages(own2)' /\ InvRefs(own2)'
       /\ \A o : o \notin FreeOwners /\ o \notin T /\ (\A q \in Q : own[q] # o) => Same(own, own2, o)
  <2> HIDE DEF T
  <2> QED BY <1>28, ZoneSteps
<1>30. /\ \A c \in Pagesets \ {s} : Same(own, own2, Pcp(c))
       /\ \A u \in Tasks \ {t} : Same(own, own2, InCall(u))
  <2>1. \A c \in Pagesets \ {s} : Pcp(c) \notin FreeOwners /\ Pcp(c) \notin T /\ \A q \in Q : own[q] # Pcp(c)
    BY <1>27, OwnersDiffer DEF x, y
  <2>2. \A u \in Tasks \ {t} : InCall(u) \notin FreeOwners /\ InCall(u) \notin T
                               /\ \A q \in Q : own[q] # InCall(u)
    BY <1>27, OwnersDiffer DEF x, y
  <2> QED BY <1>29, <2>1, <2>2
<1>31. \A q \in Pfns : own2[q] = x <=> q \in SeqRange(keep)
  <2> SUFFICES ASSUME NEW q \in Pfns PROVE own2[q] = x <=> q \in SeqRange(list) /\ q \notin E
    BY <1>25
  <2>1. own1[q] = x <=> q \in SeqRange(list)
    BY <1>13, <1>15, <1>20
  <2>2. CASE q \in E
    BY <1>14, <1>24, <2>2 DEF Moves
  <2>3. CASE q \notin E
    BY <1>14, <1>24, <2>1, <2>3 DEF Moves
  <2> QED BY <2>2, <2>3
<1>32. InvPcp(own2)'
  <2>1. /\ pcp' = [c \in Pagesets |-> pcp'[c]] /\ pageset' \in [Zones -> BOOLEAN]
        /\ pcp'[s] = [list |-> keep, count |-> pcp[s].count + 1 - n]
        /\ \A c \in Pagesets \ {s} : pcp'[c] = pcp[c]
    BY <1>0, <1>5, <1>12 DEF InvPcp
  <2>2. pcp'[s].list = keep /\ pcp'[s].count = Len(keep)
    BY <1>13, <1>15, <1>18, <1>19, <2>1
  <2>3. s[1] = "boot" => keep = <<>>
    <3>1. s[1] = "boot" => Len(keep) = 0
      BY <1>17, <1>18, <1>19
    <3>2. keep \in Seq(Pfns)
      BY <1>19 DEF IsList
    <3> QED BY <3>1, <3>2
  <2>4. \A q \in SeqRange(keep) : page_zone_id[q] = s[1]
    <3>1. CASE s[1] = "boot"
      <4>1. SeqRange(keep) = {}
        BY <2>3, <3>1 DEF SeqRange
      <4> QED BY <4>1
    <3>2. CASE s[1] = z
      BY <1>16, <1>19, <3>2
    <3> QED BY <1>5, <3>1, <3>2
  <2>5. ASSUME NEW c \in Pagesets
        PROVE  /\ IsList(pcp'[c].list) /\ pcp'[c].count = Len(pcp'[c].list)
               /\ c[1] = "boot" => pcp'[c].list = <<>>
               /\ \A q \in SeqRange(pcp'[c].list) : page_zone_id[q] = c[1]
               /\ \A q \in Pfns : own2[q] = Pcp(c) <=> q \in SeqRange(pcp'[c].list)
    <3>1. CASE c = s
      BY <1>19, <1>31, <2>2, <2>3, <2>4, <3>1 DEF x
    <3>2. CASE c # s
      BY <1>0, <1>30, <2>1, <3>2 DEF InvPcp, Same
    <3> QED BY <3>1, <3>2
  <2> QED BY <2>1, <2>5 DEF InvPcp, IsList, SeqRange
<1>33. InvCalls(own2)'
  <2>1. \A q \in Pfns : own2[q] # y
    <3> SUFFICES ASSUME NEW q \in Pfns, own2[q] = y PROVE FALSE
      OBVIOUS
    <3>1. own1[q] # y
      BY <1>1, <1>14, <1>20 DEF y
    <3> QED BY <1>14, <1>24, <3>1 DEF Moves
  <2> QED BY <1>0, <1>30, <2>1, CallEnds DEF y
<1>34. bug' = FALSE
  <2>1. ~ (want > Len(list))
    BY <1>15, <1>17
  <2>2. ASSUME NEW i \in Len(list) - n + 1 .. Len(list) PROVE page[list[i]].count = 0
    <3>1. DOMAIN list = 1 .. Len(list)
      BY <1>15 DEF IsList
    <3>2. i \in 1 .. Len(list)
      BY <1>15, <1>18
    <3>3. list[i] \in SeqRange(list)
      BY <3>1, <3>2 DEF SeqRange
    <3>4. list[i] \in Pfns /\ own[list[i]] \in Pool
      BY <1>14, <1>16, <3>3
    <3> QED BY <1>0, <3>4 DEF InvPool
  <2>3. (\E i \in Len(list) - n + 1 .. Len(list) : page[list[i]].count # 0) = FALSE
    BY <2>2
  <2>4. (want > Len(list)) = FALSE
    BY <1>15, <1>17
  <2>5. ASSUME NEW i \in 1 .. n
        PROVE  __free_one_page_BUG(free_pcppages_bulk(v, list, i - 1), list[Len(list) + 1 - i], 0) = FALSE
    <3>1. PICK u : u = free_pcppages_bulk(v, list, i - 1)
      OBVIOUS
    <3>2. PICK m : m = i - 1
      OBVIOUS
    <3>3. m \in 0 .. n /\ m \in 0 .. Len(list) /\ Len(list) + 1 - i \in 1 .. Len(list) - m
      BY <1>15, <1>18, <3>2
    <3>4. Freeable(v, z, own1, list, m)
      BY <1>21, <3>3
    <3>5. PICK o : FreedOne(v, u, z, own1, o, LastOf(list, m))
      BY <3>1, <3>2, <3>4, FreeBulk
    <3>6. ZoneInv(u, z, o) /\ Moves(own1, o, z, LastOf(list, m), FreeOwners) /\ MarksOnly(page, u.page, z)
      BY <1>3, <3>5 DEF FreedOne
    <3>7. PICK q : q = list[Len(list) + 1 - i]
      OBVIOUS
    <3>8. q \in SeqRange(list) /\ q \notin LastOf(list, m)
      <4>1. DOMAIN list = 1 .. Len(list) /\ \A a, c \in 1 .. Len(list) : list[a] = list[c] => a = c
        BY <1>15 DEF IsList
      <4>2. Len(list) + 1 - i \in 1 .. Len(list)
        BY <1>15, <3>3
      <4>3. ASSUME NEW j \in Len(list) + 1 - m .. Len(list) PROVE j \in 1 .. Len(list) /\ j # Len(list) + 1 - i
        BY <1>15, <3>2, <3>3
      <4> QED BY <3>7, <4>1, <4>2, <4>3 DEF SeqRange, LastOf
    <3>9. q \in Pfns /\ page_zone_id[q] = z /\ own[q] \in Pool /\ own1[q] \notin FreeOwners
      BY <1>14, <1>16, <1>20, <3>8
    <3>10. o[q] \notin FreeOwners
      BY <3>6, <3>8, <3>9 DEF Moves
    <3>11. check_new_page(u, q)
      BY <3>6, <3>9, <3>10, NewPageOk
    <3>12. LastOf(list, m) \subseteq SeqRange(list)
      BY <1>15, <3>3, ListSplit
    <3>13. ASSUME NEW r \in Pfns, o[r] \in FreeOwners PROVE own[r] \in Pool
      <4>1. CASE r \in LastOf(list, m)
        BY <1>14, <1>16, <3>12, <4>1
      <4>2. CASE r \notin LastOf(list, m)
        <5>1. own1[r] \in FreeOwners
          BY <3>6, <3>13, <4>2 DEF Moves
        <5> QED BY <1>14, <1>20, <5>1
      <4> QED BY <4>1, <4>2
    <3>14. MarkedAreUnreferenced(u)
      BY <3>6, <3>13, MarkedUnreferenced DEF MarkedAreUnreferenced
    <3>15. q % Pow2[0] = 0
      BY <3>9, OnePage DEF IsBlock
    <3>16. __free_one_page_BUG(u, q, 0) = FALSE
      BY <3>11, <3>14, <3>15, FreeOneOk
    <3> QED BY <3>1, <3>7, <3>16
  <2>6. (\E i \in 1 .. n : __free_one_page_BUG(free_pcppages_bulk(v, list, i - 1),
                                              list[Len(list) + 1 - i], 0)) = FALSE
    BY <2>5
  <2> QED BY <1>12, <2>3, <2>4, <2>6
<1>35. Inv(own2)'
  BY <1>29, <1>32, <1>33, <1>34 DEF Inv
<1> QED BY <1>35 DEF IInv

LEMMA FreeThePage ==
    ASSUME NEW own, Inv(own), NEW t \in Tasks, free_the_page(t)
    PROVE  IInv'
<1>0. InvPcp(own) /\ InvCalls(own)
  BY DEF Inv
<1>1. PICK b : b = cur[t]
  OBVIOUS
<1>2. /\ pc[t] = "free" /\ Call(t, "idle", NoBlock) /\ UNCHANGED <<pageset, held, toboot>>
      /\ b[2] = 0 => FreeUnrefPage(t, b[1])
      /\ b[2] # 0 => /\ SetZone(page_zone_id[b[1]], __free_one_page(View(page_zone_id[b[1]]), b[1], b[2]))
                     /\ bug' = __free_one_page_BUG(View(page_zone_id[b[1]]), b[1], b[2]) /\ UNCHANGED pcp
  BY <1>1 DEF free_the_page
<1>3. IsBlock(b) /\ \A q \in Pfns : own[q] = InCall(t) <=> q \in Frames(b)
  BY <1>0, <1>1, <1>2 DEF InvCalls
<1> DEFINE p == b[1]
           k == b[2]
           z == page_zone_id[p]
<1>4. /\ b = <<p, k>> /\ p \in Pfns /\ k \in Orders /\ z \in Zones
      /\ \A q \in Frames(b) : q \in Pfns /\ page_zone_id[q] = z
  BY <1>3, BlockParts, PfnsAssumption
<1>5. CASE k = 0
  <2>1. cur[t] = <<p, 0>>
    BY <1>1, <1>4, <1>5
  <2>2. FreeUnrefPage(t, p)
    BY <1>2, <1>5
  <2> HIDE DEF p
  <2> QED BY <1>2, <2>1, <2>2, FreeUnref
<1>6. CASE k # 0
  <2>1. PICK v : v = View(z) /\ v.page = page /\ ZoneInv(v, z, own)
    BY <1>4, ViewInv
  <2>2. PICK w : w = __free_one_page(v, p, k)
    OBVIOUS
  <2>3. SetZone(z, w) /\ bug' = __free_one_page_BUG(v, p, k) /\ UNCHANGED pcp
    BY <1>2, <1>6, <2>1, <2>2
  <2> DEFINE x == InCall(t)
  <2>4. x \notin FreeOwners /\ x \in Pool /\ FreeOwners \subseteq Pool
    BY OwnersDiffer, PoolFacts
  <2>5. Taken(z, own, p, k)
    <3>1. IsBlock(<<p, k>>) /\ page_zone_id[p] = z
      BY <1>3, <1>4
    <3>2. \A q \in Frames(<<p, k>>) : own[q] \notin FreeOwners
      BY <1>3, <1>4, <2>4
    <3> QED BY <3>1, <3>2 DEF Taken
  <2> HIDE DEF p, k, z
  <2>6. \E o : FreedOne(v, __free_one_page(v, p, k), z, own, o, Frames(<<p, k>>))
    BY <2>1, <2>5, FreeOne
  <2>7. PICK own2 : FreedOne(v, w, z, own, own2, Frames(b))
    BY <1>4, <2>2, <2>6
  <2>8. ZoneInv(w, z, own2) /\ Moves(own, own2, z, Frames(b), FreeOwners) /\ MarksOnly(page, w.page, z)
    BY <2>1, <2>7 DEF FreedOne
  <2>9. \A q \in Frames(b) : own[q] = x
    BY <1>3, <1>4
  <2>10. ZoneStep(own, own2, z, w, Frames(b), FreeOwners)
    <3>1. \A q \in Frames(b) : own[q] \in Pool
      BY <2>4, <2>9
    <3> QED BY <1>2, <1>4, <2>3, <2>4, <2>8, <3>1 DEF ZoneStep
  <2>11. /\ InvOwners(own2)' /\ InvZones(own2)' /\ InvHeld(own2)' /\ InvBoot(own2)'
         /\ InvPool(own2)' /\ InvBootPages(own2)' /\ InvRefs(own2)'
         /\ \A o : o \notin FreeOwners /\ o \notin FreeOwners /\ (\A q \in Frames(b) : own[q] # o)
                   => Same(own, own2, o)
    BY <2>10, ZoneSteps
  <2>12. /\ \A s \in Pagesets : Same(own, own2, Pcp(s))
         /\ \A u \in Tasks \ {t} : Same(own, own2, InCall(u))
    <3>1. \A s \in Pagesets : Pcp(s) \notin FreeOwners /\ \A q \in Frames(b) : own[q] # Pcp(s)
      BY <2>9, OwnersDiffer
    <3>2. \A u \in Tasks \ {t} : InCall(u) \notin FreeOwners /\ \A q \in Frames(b) : own[q] # InCall(u)
      BY <2>9, OwnersDiffer
    <3> QED BY <2>11, <3>1, <3>2
  <2>13. InvPcp(own2)'
    BY <1>0, <1>2, <2>3, <2>12, PcpKept
  <2>14. InvCalls(own2)'
    <3>1. \A q \in Pfns : own2[q] # x
      BY <1>3, <2>4, <2>8 DEF Moves
    <3> QED BY <1>0, <1>2, <2>12, <3>1, CallEnds
  <2>15. bug' = FALSE
    <3>1. p % Pow2[k] = 0
      BY <1>3 DEF IsBlock, p, k
    <3>2. own[p] = x /\ p \in Frames(b)
      BY <1>3, <1>4, <2>9, BlockFacts
    <3>3. MarksOnly(page, v.page, z)
      BY <2>1, MarksNone
    <3>4. check_new_page(v, p)
      BY <1>4, <2>1, <2>4, <3>2, <3>3, NewPageOk DEF z
    <3>5. MarkedAreUnreferenced(v)
      BY <2>1, <2>4, <3>3, MarkedUnreferenced DEF MarkedAreUnreferenced
    <3>6. __free_one_page_BUG(v, p, k) = FALSE
      BY <3>1, <3>4, <3>5, FreeOneOk
    <3> QED BY <2>3, <3>6
  <2>16. Inv(own2)'
    BY <2>11, <2>13, <2>14, <2>15 DEF Inv
  <2> QED BY <2>16 DEF IInv
<1> QED BY <1>5, <1>6

LEMMA AllocPages ==
    ASSUME NEW own, Inv(own), NEW t \in Tasks, NEW z \in Zones, NEW order \in Orders,
           __alloc_pages(t, z, order)
    PROVE  IInv'
<1>1. pc[t] = "idle" /\ UNCHANGED <<pageset, held, toboot>>
  BY DEF __alloc_pages, MayCall
<1>2. CASE order = 0
  <2>1. rmqueue_pcplist(t, z)
    BY <1>2 DEF __alloc_pages
  <2> QED BY <1>1, <2>1, RmqueuePcplist
<1>3. CASE order # 0
  <2>1. rmqueue(t, z, order)
    BY <1>3 DEF __alloc_pages
  <2> QED BY <1>1, <2>1, Rmqueue
<1> QED BY <1>2, <1>3

-----------------------------------------------------------------------------
(* The theorems *)

LEMMA NextInv == IInv /\ [Next]_vars => IInv'
<1> SUFFICES ASSUME IInv, [Next]_vars PROVE IInv'
  OBVIOUS
<1>1. PICK own : Inv(own)
  BY DEF IInv
<1>2. ASSUME NEW b \in BootBlocks, memblock_free_pages(b) PROVE IInv'
  BY <1>1, <1>2, FreeBootPages
<1>3. ASSUME NEW z \in Zones, setup_zone_pageset(z) PROVE IInv'
  BY <1>1, <1>3, SetupPageset DEF IInv
<1>4. ASSUME NEW t \in Tasks, NEW z \in Zones, NEW order \in Orders, __alloc_pages(t, z, order)
      PROVE  IInv'
  BY <1>1, <1>4, AllocPages
<1>5. ASSUME NEW t \in Tasks, prep_new_page(t) PROVE IInv'
  BY <1>1, <1>5, PrepNewPage
<1>6. ASSUME NEW t \in Tasks, NEW b \in held[t], __free_pages(t, b) PROVE IInv'
  BY <1>1, <1>6, FreePages
<1>7. ASSUME NEW t \in Tasks, NEW u \in Tasks \ {t}, NEW b \in held[t], get_page(t, u, b) PROVE IInv'
  BY <1>1, <1>7, GetPage DEF IInv
<1>8. ASSUME NEW t \in Tasks, NEW p \in Pfns, page_frag_free(t, p) PROVE IInv'
  BY <1>1, <1>8, FragFree
<1>9. ASSUME NEW t \in Tasks, free_the_page(t) PROVE IInv'
  BY <1>1, <1>9, FreeThePage
<1>10. CASE UNCHANGED vars
  <2>1. Inv(own)'
    BY <1>1, <1>10 DEF vars, Inv, InvOwners, InvZones, ZoneInv, View, InvPcp, InvCalls, InvHeld, InvBoot,
       InvPool, InvBootPages, InvRefs, Holders
  <2> QED BY <2>1 DEF IInv
<1> QED BY <1>2, <1>3, <1>4, <1>5, <1>6, <1>7, <1>8, <1>9, <1>10 DEF Next

(* Every page frame has one owner, and the free lists, page lists, calls, references and
   struct pages all agree about who it is. *)
THEOREM Invariance == Spec => []IInv
BY InitInv, NextInv, PTL DEF Spec

(* No BUG_ON fires and no check calls a page bad, whatever the memory looks like. *)
THEOREM NoBugFires == Spec => []NoBug
<1>1. IInv => NoBug
  BY DEF IInv, Inv, NoBug
<1> QED BY <1>1, Invariance, PTL

(* What the invariant says about the free lists *)
LEMMA FreeLists ==
    ASSUME NEW own, Inv(own)
    PROVE  /\ \A b : b \in AllFree <=> \E z \in Zones : b \in FreeBlocks(z)
           /\ \A z \in Zones : \A b : b \in FreeBlocks(z) <=>
                 \E p \in Pfns, k \in Orders : b = <<p, k>> /\ p \in Sets(free_area[z])[k]
           /\ \A z \in Zones : FreeSets(page, Sets(free_area[z]), z, own)
<1>1. ASSUME NEW z \in Zones
      PROVE  FreeSets(page, Sets(free_area[z]), z, own)
  BY DEF Inv, InvZones, ZoneInv, View
<1>2. ASSUME NEW z \in Zones, NEW b
      PROVE  b \in FreeBlocks(z) <=>
                 \E p \in Pfns, k \in Orders : b = <<p, k>> /\ p \in Sets(free_area[z])[k]
  <2>1. \A k \in Orders : Sets(free_area[z])[k] = SeqRange(free_area[z][k])
    BY DEF Sets
  <2>2. \A k \in Orders : SeqRange(free_area[z][k]) \subseteq Pfns
    BY <1>1, <2>1 DEF FreeSets
  <2>3. b \in FreeBlocks(z) <=> \E k \in Orders : \E p \in SeqRange(free_area[z][k]) : b = <<p, k>>
    BY DEF FreeBlocks
  <2> QED BY <2>1, <2>2, <2>3
<1>3. \A b : b \in AllFree <=> \E z \in Zones : b \in FreeBlocks(z)
  BY DEF AllFree
<1> QED BY <1>1, <1>2, <1>3

(* The free blocks of all zones: <<p, k>> is free if and only if it is in the lists of its
   own zone. *)
LEMMA FreeIsOwned ==
    ASSUME NEW own, Inv(own), NEW p \in Pfns, NEW k \in Orders
    PROVE  /\ page_zone_id[p] \in Zones
           /\ <<p, k>> \in AllFree <=> p \in Sets(free_area[page_zone_id[p]])[k]
           /\ <<p, k>> \in AllFree => IsBlock(<<p, k>>) /\ \A q \in Frames(<<p, k>>) : own[q] = FreeIn(p, k)
<1>0. page_zone_id[p] \in Zones
  BY PfnsAssumption
<1>1. ASSUME p \in Sets(free_area[page_zone_id[p]])[k] PROVE <<p, k>> \in AllFree
  BY <1>0, <1>1, FreeLists
<1>2. ASSUME <<p, k>> \in AllFree
      PROVE  /\ p \in Sets(free_area[page_zone_id[p]])[k]
             /\ IsBlock(<<p, k>>) /\ \A q \in Frames(<<p, k>>) : own[q] = FreeIn(p, k)
  <2>1. PICK z \in Zones : \E q \in Pfns, j \in Orders : <<p, k>> = <<q, j>> /\ q \in Sets(free_area[z])[j]
    BY <1>2, FreeLists
  <2>2. p \in Sets(free_area[z])[k]
    BY <2>1
  <2>3. BlocksOwned(Sets(free_area[z]), z, own)
    BY FreeLists DEF FreeSets
  <2>4. IsBlock(<<p, k>>) /\ page_zone_id[p] = z /\ \A q \in Frames(<<p, k>>) : own[q] = FreeIn(p, k)
    BY <2>2, <2>3 DEF BlocksOwned
  <2> QED BY <2>2, <2>4
<1> QED BY <1>0, <1>1, <1>2

(* A free frame is in the free block that owns it. *)
LEMMA OwnedIsFree ==
    ASSUME NEW own, Inv(own), NEW q \in Pfns, NEW p \in Pfns, NEW k \in Orders, own[q] = FreeIn(p, k)
    PROVE  <<p, k>> \in AllFree /\ q \in Frames(<<p, k>>) /\ page_zone_id[p] = page_zone_id[q]
<1> DEFINE z == page_zone_id[q]
<1>1. z \in Zones
  BY PfnsAssumption
<1>2. OwnedInBlocks(Sets(free_area[z]), z, own) /\ BlocksOwned(Sets(free_area[z]), z, own)
  BY <1>1, FreeLists DEF FreeSets
<1>3. p \in Sets(free_area[z])[k] /\ q \in Frames(<<p, k>>)
  BY <1>2 DEF OwnedInBlocks
<1>4. page_zone_id[p] = z
  BY <1>2, <1>3 DEF BlocksOwned
<1>5. <<p, k>> \in AllFree
  BY <1>3, <1>4, FreeIsOwned
<1> QED BY <1>3, <1>4, <1>5

LEMMA InvZonesConsistent == IInv => ZonesConsistent
<1> SUFFICES ASSUME NEW own, Inv(own) PROVE ZonesConsistent
  BY DEF IInv
<1>1. ASSUME NEW z \in Zones, NEW b \in FreeBlocks(z)
      PROVE  b[1] % Pow2[b[2]] = 0 /\ \A p \in Frames(b) : p \in Pfns /\ page_zone_id[p] = z
  <2>1. PICK p \in Pfns, k \in Orders : b = <<p, k>> /\ p \in Sets(free_area[z])[k]
    BY <1>1, FreeLists
  <2>2. BlocksOwned(Sets(free_area[z]), z, own)
    BY FreeLists DEF FreeSets
  <2>3. IsBlock(<<p, k>>) /\ page_zone_id[p] = z
    BY <2>1, <2>2 DEF BlocksOwned
  <2>4. IsBlock(b) /\ b[1] = p
    BY <2>1, <2>3
  <2> QED BY <2>3, <2>4 DEF IsBlock
<1>2. ASSUME NEW p \in Pfns PROVE page[p].buddy <=> <<p, page[p].private>> \in AllFree
  <2> DEFINE z == page_zone_id[p]
             k == page[p].private
  <2>1. z \in Zones
    BY PfnsAssumption
  <2>2. k \in Orders /\ page[p].buddy \in BOOLEAN
    <3>1. page[p] \in PageRec
      BY DEF Inv, InvZones
    <3> QED BY <3>1 DEF PageRec
  <2>3. FlagsSay(page, Sets(free_area[z]), z)
    BY <2>1, FreeLists DEF FreeSets
  <2>4. page[p].buddy <=> p \in Sets(free_area[z])[k]
    BY <2>2, <2>3 DEF FlagsSay
  <2>5. <<p, k>> \in AllFree <=> p \in Sets(free_area[z])[k]
    <3> HIDE DEF k
    <3> QED BY <2>2, FreeIsOwned
  <2> QED BY <2>4, <2>5
<1>3. \A z \in Zones, k \in Orders : nr_free[z][k] = Len(free_area[z][k])
  BY DEF Inv, InvZones, ZoneInv, View
<1>4. \A s \in Pagesets : pcp[s].count = Len(pcp[s].list)
  BY DEF Inv, InvPcp
<1> QED BY <1>1, <1>2, <1>3, <1>4 DEF ZonesConsistent

(* Free blocks lie in their zone and are aligned, the buddy marks and orders of the struct
   pages say exactly which blocks are free, and the counters of the free lists and of the
   page lists are the lengths of those lists. *)
THEOREM ListsAndMarksAgree == Spec => []ZonesConsistent
BY Invariance, InvZonesConsistent, PTL

LEMMA InvCoalesced == IInv => Coalesced
<1> SUFFICES ASSUME NEW own, Inv(own), NEW b \in AllFree, b[2] < MAX_ORDER - 1,
                    __find_buddy_pfn(b[1], b[2]) \in Pfns,
                    page_zone_id[b[1]] = page_zone_id[__find_buddy_pfn(b[1], b[2])],
                    <<__find_buddy_pfn(b[1], b[2]), b[2]>> \in AllFree
             PROVE  FALSE
  BY DEF IInv, Coalesced
<1>1. PICK z \in Zones, p \in Pfns, k \in Orders : b = <<p, k>> /\ p \in Sets(free_area[z])[k]
  BY FreeLists
<1> DEFINE c == __find_buddy_pfn(p, k)
           y == page_zone_id[p]
<1>2. b[1] = p /\ b[2] = k
  BY <1>1
<1>3. c \in Pfns /\ page_zone_id[c] = y /\ <<c, k>> \in AllFree /\ k < MAX_ORDER - 1 /\ <<p, k>> \in AllFree
  BY <1>1, <1>2
<1>4. k \in 0 .. MAX_ORDER - 2
  BY <1>3, OrdersFacts
<1>5. p \in Sets(free_area[y])[k] /\ y \in Zones
  BY <1>3, FreeIsOwned
<1>6. NoBuddies(Sets(free_area[y]))
  BY <1>5, FreeLists DEF FreeSets
<1>7. c \notin Sets(free_area[y])[k]
  BY <1>4, <1>5, <1>6 DEF NoBuddies
<1> HIDE DEF c
<1> QED BY <1>3, <1>7, FreeIsOwned

(* Merging is complete: no two free blocks are buddies that could be one. *)
THEOREM AlwaysCoalesced == Spec => []Coalesced
BY Invariance, InvCoalesced, PTL

LEMMA InvFreeBuddyExact == IInv => FreeBuddyExact
<1> SUFFICES ASSUME NEW own, Inv(own), NEW p \in Pfns
             PROVE  is_free_buddy_page(p) <=> \E b \in AllFree : p \in Frames(b)
  BY DEF IInv, FreeBuddyExact
<1>0. p \in Nat /\ Pfns \subseteq Nat
  BY PfnsAssumption
<1>1. ASSUME is_free_buddy_page(p) PROVE \E b \in AllFree : p \in Frames(b)
  <2>1. PICK k \in Orders : LET h == Align(p, k) IN h \in Pfns /\ page[h].buddy /\ page[h].private >= k
    BY <1>1 DEF is_free_buddy_page
  <2> DEFINE h == Align(p, k)
             j == page[h].private
  <2>2. h \in Pfns /\ page[h].buddy /\ j >= k
    BY <2>1
  <2>3. j \in Orders
    <3>1. page[h] \in PageRec
      BY <2>2 DEF Inv, InvZones
    <3> QED BY <3>1 DEF PageRec
  <2>4. <<h, j>> \in AllFree
    <3>1. ZonesConsistent
      BY InvZonesConsistent DEF IInv
    <3> QED BY <2>2, <3>1 DEF ZonesConsistent
  <2>5. k \in 0 .. MAX_ORDER /\ j \in 0 .. MAX_ORDER /\ k \in 0 .. j
    BY <2>2, <2>3, OrdersFacts
  <2>6. p \in h .. h + Pow2[k] - 1
    BY <1>0, <2>5, AlignFacts
  <2>7. Pow2[k] <= Pow2[j] /\ Pow2[k] \in Nat /\ Pow2[j] \in Nat /\ h \in Nat
    BY <1>0, <2>2, <2>5, Pow2Mono, Pow2Facts
  <2> HIDE DEF h, j
  <2>8. p \in Int /\ h <= p /\ p < h + Pow2[j]
    BY <1>0, <2>6, <2>7
  <2>9. p \in Frames(<<h, j>>)
    BY <2>5, <2>7, <2>8, FramesIn
  <2> QED BY <2>4, <2>9
<1>2. ASSUME NEW b \in AllFree, p \in Frames(b) PROVE is_free_buddy_page(p)
  <2>1. PICK z \in Zones, h \in Pfns, k \in Orders : b = <<h, k>> /\ h \in Sets(free_area[z])[k]
    BY FreeLists
  <2>2. <<h, k>> \in AllFree /\ p \in Frames(<<h, k>>)
    BY <1>2, <2>1
  <2>3. IsBlock(<<h, k>>)
    BY <2>2, FreeIsOwned
  <2>4. Aligned(h, k) /\ k \in 0 .. MAX_ORDER /\ k \in Nat
    BY <2>3, BlockFacts, OrdersFacts
  <2>5. p \in h .. h + Pow2[k] - 1
    BY <2>2 DEF Frames
  <2>6. Align(p, k) = h
    BY <2>4, <2>5, AlignUnique
  <2> DEFINE y == page_zone_id[h]
  <2>7. y \in Zones /\ h \in Sets(free_area[y])[k]
    BY <2>2, FreeIsOwned
  <2>8. FlagsSay(page, Sets(free_area[y]), y)
    BY <2>7, FreeLists DEF FreeSets
  <2>9. page[h].buddy /\ page[h].private = k
    BY <2>7, <2>8 DEF FlagsSay
  <2>10. page[h].private >= k
    BY <2>4, <2>9
  <2> QED BY <2>6, <2>9, <2>10 DEF is_free_buddy_page
<1> QED BY <1>1, <1>2

(* is_free_buddy_page, a scan of the possible heads of a page, answers exactly whether the
   page is in a free block. *)
THEOREM ScanIsExact == Spec => []FreeBuddyExact
BY Invariance, InvFreeBuddyExact, PTL

-----------------------------------------------------------------------------
(* Every page frame is in one place *)

LEMMA Counts ==
    /\ Cardinality({}) = 0
    /\ \A S, x : S = {x} => Cardinality(S) = 1
BY FS_EmptySet, FS_Singleton

LEMMA PlaceFree ==
    ASSUME NEW own, Inv(own), NEW q \in Pfns
    PROVE  Cardinality(InFree(q)) = IF own[q] \in FreeOwners THEN 1 ELSE 0
<1>1. ASSUME NEW x
      PROVE  x \in InFree(q) <=>
                \E z \in Zones, k \in Orders : \E i \in DOMAIN free_area[z][k] :
                   x = <<z, k, i>> /\ q \in Frames(<<free_area[z][k][i], k>>)
  <2> DEFINE T(z, k) == {<<z, k, i>> : i \in {j \in DOMAIN free_area[z][k] :
                                                q \in Frames(<<free_area[z][k][j], k>>)}}
  <2>1. InFree(q) = UNION {T(z, k) : z \in Zones, k \in Orders}
    BY DEF InFree
  <2>2. \A z \in Zones, k \in Orders :
           x \in T(z, k) <=> \E i \in DOMAIN free_area[z][k] :
                               x = <<z, k, i>> /\ q \in Frames(<<free_area[z][k][i], k>>)
    OBVIOUS
  <2> HIDE DEF T
  <2>3. x \in InFree(q) <=> \E z \in Zones, k \in Orders : x \in T(z, k)
    BY <2>1
  <2> QED BY <2>2, <2>3
<1>2. ASSUME NEW z \in Zones, NEW k \in Orders, NEW i \in DOMAIN free_area[z][k],
             q \in Frames(<<free_area[z][k][i], k>>)
      PROVE  /\ free_area[z][k][i] \in Pfns /\ own[q] = FreeIn(free_area[z][k][i], k)
             /\ page_zone_id[q] = z
  <2> DEFINE p == free_area[z][k][i]
             R == Sets(free_area[z])
  <2>1. p \in R[k]
    BY DEF Sets, SeqRange
  <2>2. BlocksOwned(R, z, own) /\ R \in [Orders -> SUBSET Pfns]
    BY FreeLists DEF FreeSets
  <2> HIDE DEF R
  <2>3. p \in Pfns /\ IsBlock(<<p, k>>) /\ page_zone_id[p] = z /\ \A r \in Frames(<<p, k>>) : own[r] = FreeIn(p, k)
    BY <2>1, <2>2 DEF BlocksOwned
  <2> HIDE DEF p
  <2>4. q \in Frames(<<p, k>>)
    BY <1>2 DEF p
  <2>5. own[q] = FreeIn(p, k) /\ page_zone_id[q] = z
    BY <2>3, <2>4, BlockFacts
  <2> QED BY <2>3, <2>5 DEF p
<1>3. CASE own[q] \notin FreeOwners
  <2>1. ASSUME NEW x \in InFree(q) PROVE FALSE
    <3>1. PICK z \in Zones, k \in Orders : \E i \in DOMAIN free_area[z][k] :
             x = <<z, k, i>> /\ q \in Frames(<<free_area[z][k][i], k>>)
      BY <1>1, <2>1
    <3>2. PICK i \in DOMAIN free_area[z][k] : q \in Frames(<<free_area[z][k][i], k>>)
      BY <3>1
    <3>3. free_area[z][k][i] \in Pfns /\ own[q] = FreeIn(free_area[z][k][i], k)
      BY <1>2, <3>2
    <3> QED BY <1>3, <3>3 DEF FreeOwners
  <2>2. InFree(q) = {}
    BY <2>1
  <2> QED BY <1>3, <2>2, Counts
<1>4. CASE own[q] \in FreeOwners
  <2>1. PICK p \in Pfns, k \in Orders : own[q] = FreeIn(p, k)
    BY <1>4 DEF FreeOwners
  <2> DEFINE z == page_zone_id[q]
  <2>2. z \in Zones
    BY PfnsAssumption
  <2>3. <<p, k>> \in AllFree /\ q \in Frames(<<p, k>>) /\ page_zone_id[p] = z
    BY <2>1, OwnedIsFree
  <2>4. p \in Sets(free_area[z])[k]
    BY <2>3, FreeIsOwned
  <2>5. PICK i \in DOMAIN free_area[z][k] : free_area[z][k][i] = p
    BY <2>4 DEF Sets, SeqRange
  <2>6. <<z, k, i>> \in InFree(q)
    <3>1. q \in Frames(<<free_area[z][k][i], k>>)
      BY <2>3, <2>5
    <3> HIDE DEF z
    <3> QED BY <1>1, <2>2, <3>1
  <2>7. ASSUME NEW x \in InFree(q) PROVE x = <<z, k, i>>
    <3>1. PICK y \in Zones, j \in Orders : \E m \in DOMAIN free_area[y][j] :
                   x = <<y, j, m>> /\ q \in Frames(<<free_area[y][j][m], j>>)
      BY <1>1, <2>7
    <3>2. PICK m \in DOMAIN free_area[y][j] : x = <<y, j, m>> /\ q \in Frames(<<free_area[y][j][m], j>>)
      BY <3>1
    <3>3. own[q] = FreeIn(free_area[y][j][m], j) /\ z = y
      BY <1>2, <3>2
    <3>4. free_area[y][j][m] = p /\ j = k
      BY <2>1, <3>3 DEF FreeIn
    <3>5. IsList(free_area[z][k])
      BY <2>2 DEF Inv, InvZones, ZoneInv, View
    <3>6. m \in DOMAIN free_area[z][k] /\ free_area[z][k][m] = p
      BY <3>2, <3>3, <3>4
    <3>7. m = i
      BY <2>5, <3>5, <3>6 DEF IsList
    <3> QED BY <3>2, <3>3, <3>4, <3>7
  <2>8. InFree(q) = {<<z, k, i>>}
    BY <2>6, <2>7
  <2> QED BY <1>4, <2>8, Counts
<1> QED BY <1>3, <1>4

LEMMA PlacePcp ==
    ASSUME NEW own, Inv(own), NEW q \in Pfns
    PROVE  Cardinality(InPcp(q)) = IF \E s \in Pagesets : own[q] = Pcp(s) THEN 1 ELSE 0
<1>1. ASSUME NEW x
      PROVE  x \in InPcp(q) <=>
                \E s \in LivePagesets : \E i \in DOMAIN pcp[s].list : x = <<s, i>> /\ pcp[s].list[i] = q
  BY DEF InPcp
<1>2. ASSUME NEW s \in Pagesets
      PROVE  /\ own[q] = Pcp(s) <=> \E i \in DOMAIN pcp[s].list : pcp[s].list[i] = q
             /\ own[q] = Pcp(s) => s \in LivePagesets
             /\ \A i, j \in DOMAIN pcp[s].list : pcp[s].list[i] = pcp[s].list[j] => i = j
  <2>1. /\ IsList(pcp[s].list) /\ (s[1] = "boot" => pcp[s].list = <<>>)
        /\ own[q] = Pcp(s) <=> q \in SeqRange(pcp[s].list)
    BY DEF Inv, InvPcp
  <2>2. s[1] = "boot" => SeqRange(pcp[s].list) = {}
    BY <2>1 DEF SeqRange
  <2>3. own[q] = Pcp(s) => s[1] # "boot"
    BY <2>1, <2>2
  <2>4. own[q] = Pcp(s) <=> \E i \in DOMAIN pcp[s].list : pcp[s].list[i] = q
    BY <2>1 DEF SeqRange
  <2>5. own[q] = Pcp(s) => s \in LivePagesets
    BY <2>3 DEF LivePagesets
  <2> QED BY <2>1, <2>4, <2>5 DEF IsList
<1>3. LivePagesets \subseteq Pagesets
  BY DEF LivePagesets
<1>4. CASE ~ \E s \in Pagesets : own[q] = Pcp(s)
  <2>1. \A x : x \notin InPcp(q)
    BY <1>1, <1>2, <1>3, <1>4
  <2>2. InPcp(q) = {}
    BY <2>1
  <2> QED BY <1>4, <2>2, Counts
<1>5. CASE \E s \in Pagesets : own[q] = Pcp(s)
  <2>1. PICK s \in Pagesets : own[q] = Pcp(s)
    BY <1>5
  <2>2. PICK i \in DOMAIN pcp[s].list : pcp[s].list[i] = q
    BY <1>2, <2>1
  <2>3. <<s, i>> \in InPcp(q)
    BY <1>1, <1>2, <2>1, <2>2
  <2>4. ASSUME NEW x \in InPcp(q) PROVE x = <<s, i>>
    <3>1. PICK r \in LivePagesets : \E j \in DOMAIN pcp[r].list : x = <<r, j>> /\ pcp[r].list[j] = q
      BY <1>1, <2>4
    <3>2. PICK j \in DOMAIN pcp[r].list : x = <<r, j>> /\ pcp[r].list[j] = q
      BY <3>1
    <3>3. own[q] = Pcp(r)
      BY <1>2, <1>3, <3>2
    <3>4. r = s
      BY <2>1, <3>3, OwnersDiffer
    <3>5. j = i
      BY <1>2, <2>2, <3>2, <3>4
    <3> QED BY <3>2, <3>4, <3>5
  <2>5. InPcp(q) = {<<s, i>>}
    BY <2>3, <2>4
  <2> QED BY <1>5, <2>5, Counts
<1> QED BY <1>4, <1>5

LEMMA PlaceCall ==
    ASSUME NEW own, Inv(own), NEW q \in Pfns
    PROVE  Cardinality(InCalls(q)) = IF \E t \in Tasks : own[q] = InCall(t) THEN 1 ELSE 0
<1>1. \A t \in Tasks : t \in InCalls(q) <=> own[q] = InCall(t)
  <2> SUFFICES ASSUME NEW t \in Tasks PROVE t \in InCalls(q) <=> own[q] = InCall(t)
    OBVIOUS
  <2>1. /\ pc[t] = "idle" => cur[t] = NoBlock
        /\ pc[t] # "idle" => IsBlock(cur[t])
        /\ own[q] = InCall(t) <=> pc[t] # "idle" /\ q \in Frames(cur[t])
    BY DEF Inv, InvCalls
  <2>2. pc[t] # "idle" => cur[t] # NoBlock
    BY <2>1, BlockParts
  <2> QED BY <2>1, <2>2 DEF InCalls
<1>2. InCalls(q) \subseteq Tasks
  BY DEF InCalls
<1>3. CASE ~ \E t \in Tasks : own[q] = InCall(t)
  <2>1. InCalls(q) = {}
    BY <1>1, <1>2, <1>3
  <2> QED BY <1>3, <2>1, Counts
<1>4. CASE \E t \in Tasks : own[q] = InCall(t)
  <2>1. PICK t \in Tasks : own[q] = InCall(t)
    BY <1>4
  <2>2. InCalls(q) = {t}
    BY <1>1, <1>2, <2>1, OwnersDiffer
  <2> QED BY <1>4, <2>2, Counts
<1> QED BY <1>3, <1>4

LEMMA PlaceHeld ==
    ASSUME NEW own, Inv(own), NEW q \in Pfns
    PROVE  Cardinality(InHeld(q)) = IF \E b \in Blocks : own[q] = Held(b) THEN 1 ELSE 0
<1>0. InvHeld(own)
  BY DEF Inv
<1>1. \A b \in Blocks : b \in InHeld(q) <=> own[q] = Held(b)
  <2> SUFFICES ASSUME NEW b \in Blocks PROVE b \in InHeld(q) <=> own[q] = Held(b)
    OBVIOUS
  <2>1. own[q] = Held(b) <=> Holders(b) # {} /\ q \in Frames(b)
    BY <1>0 DEF InvHeld
  <2>2. Holders(b) # {} <=> \E t \in Tasks : b \in held[t]
    BY DEF Holders
  <2> QED BY <2>1, <2>2 DEF InHeld
<1>2. InHeld(q) \subseteq Blocks
  BY <1>0 DEF InHeld, InvHeld
<1>3. CASE ~ \E b \in Blocks : own[q] = Held(b)
  <2>1. InHeld(q) = {}
    BY <1>1, <1>2, <1>3
  <2> QED BY <1>3, <2>1, Counts
<1>4. CASE \E b \in Blocks : own[q] = Held(b)
  <2>1. PICK b \in Blocks : own[q] = Held(b)
    BY <1>4
  <2>2. InHeld(q) = {b}
    BY <1>1, <1>2, <2>1, OwnersDiffer
  <2> QED BY <1>4, <2>2, Counts
<1> QED BY <1>3, <1>4

LEMMA PlaceBoot ==
    ASSUME NEW own, Inv(own), NEW q \in Pfns
    PROVE  Cardinality(InBoot(q)) = IF \E b \in BootBlocks : own[q] = AtBoot(b) THEN 1 ELSE 0
<1>1. /\ InBoot(q) \subseteq BootBlocks
      /\ \A b \in BootBlocks : b \in InBoot(q) <=> own[q] = AtBoot(b)
  BY DEF Inv, InvBoot, InBoot
<1>2. CASE ~ \E b \in BootBlocks : own[q] = AtBoot(b)
  <2>1. InBoot(q) = {}
    BY <1>1, <1>2
  <2> QED BY <1>2, <2>1, Counts
<1>3. CASE \E b \in BootBlocks : own[q] = AtBoot(b)
  <2>1. PICK b \in BootBlocks : own[q] = AtBoot(b)
    BY <1>3
  <2>2. InBoot(q) = {b}
    BY <1>1, <2>1, OwnersDiffer
  <2> QED BY <1>3, <2>2, Counts
<1> QED BY <1>2, <1>3

LEMMA InvNoPageLost == IInv => NoPageLostOrShared
<1> SUFFICES ASSUME NEW own, Inv(own), NEW q \in Pfns
             PROVE  Cardinality(InFree(q)) + Cardinality(InPcp(q)) + Cardinality(InCalls(q))
                      + Cardinality(InHeld(q)) + Cardinality(InBoot(q))
                    = IF \E b \in BootBlocks : q \in Frames(b) THEN 1 ELSE 0
  BY DEF IInv, NoPageLostOrShared
<1> DEFINE o == own[q]
           A == o \in FreeOwners
           B == \E s \in Pagesets : o = Pcp(s)
           C == \E t \in Tasks : o = InCall(t)
           D == \E b \in Blocks : o = Held(b)
           E == \E b \in BootBlocks : o = AtBoot(b)
           X == o = Outside
           Z == \E b \in BootBlocks : q \in Frames(b)
<1>1. A \/ B \/ C \/ D \/ E \/ X
  BY DEF Inv, InvOwners, Owners, Pool
<1>2. /\ A => ~ B /\ ~ C /\ ~ D /\ ~ E /\ ~ X
      /\ B => ~ C /\ ~ D /\ ~ E /\ ~ X
      /\ C => ~ D /\ ~ E /\ ~ X
      /\ D => ~ E /\ ~ X
      /\ E => ~ X
  BY OwnersDiffer
<1>3. X <=> ~ Z
  BY DEF Inv, InvOwners
<1>4. /\ Cardinality(InFree(q)) = IF A THEN 1 ELSE 0
      /\ Cardinality(InPcp(q)) = IF B THEN 1 ELSE 0
      /\ Cardinality(InCalls(q)) = IF C THEN 1 ELSE 0
      /\ Cardinality(InHeld(q)) = IF D THEN 1 ELSE 0
      /\ Cardinality(InBoot(q)) = IF E THEN 1 ELSE 0
  BY PlaceFree, PlacePcp, PlaceCall, PlaceHeld, PlaceBoot
<1> HIDE DEF A, B, C, D, E, X, Z
<1>5. Cardinality(InFree(q)) + Cardinality(InPcp(q)) + Cardinality(InCalls(q))
        + Cardinality(InHeld(q)) + Cardinality(InBoot(q)) = IF Z THEN 1 ELSE 0
  BY <1>1, <1>2, <1>3, <1>4
<1> QED BY <1>5 DEF Z

(* Every page handed over at boot is, at every moment, in exactly one free block, page list,
   call, held block or block still at boot, and no other page is in any: none is lost when
   the boot pagesets are replaced, none is given out twice. *)
THEOREM NoPageIsLost == Spec => []NoPageLostOrShared
BY Invariance, InvNoPageLost, PTL
=============================================================================
