----------------------------- MODULE SlubProofs -----------------------------
(***************************************************************************)
(* No object of the slab allocator is ever in two places, its counters and *)
(* its partial list are exact and none of its assertions fires: for any    *)
(* number of CPUs, levels, slabs and objects.  With the two levels of this *)
(* kernel (tasks, and interrupts that do not nest) no object is lost.      *)
(***************************************************************************)
EXTENDS Slub, FiniteSetTheorems, WellFoundedInduction, TLAPS

-----------------------------------------------------------------------------
(* Where an object is *)

OnPage(p) == <<"page", p>>      \* on the list of its slab
OnCpu(c) == <<"cpu", c>>        \* on the list of a CPU
InCall(x) == <<"call", x>>      \* being freed by x
WithUser == <<"user", NULL>>
Lost == <<"lost", NULL>>        \* on the list of a CPU that has been overwritten
Nowhere == <<"none", NULL>>     \* its page is no slab

Places == {OnPage(p) : p \in Pages} \cup {OnCpu(c) : c \in Cpus} \cup
          {InCall(x) : x \in Ctx} \cup {WithUser, Lost, Nowhere}

(* Objects at one place l whose links, following f, make them a list with the head h:
   rk numbers them from the end of the list. *)
IsList(f, pl, rk, l, h) ==
    /\ h = NULL => \A o \in Objects : pl[o] # l
    /\ h # NULL => h \in Objects /\ pl[h] = l
    /\ \A o \in Objects : pl[o] = l =>
          /\ rk[o] \in Nat \ {0} /\ h # NULL /\ rk[o] <= rk[h]
          /\ rk[o] = 1 => f[o] = NULL
          /\ rk[o] # 1 => f[o] \in Objects /\ pl[f[o]] = l /\ rk[f[o]] = rk[o] - 1
          /\ \A k \in 1 .. rk[o] : \E q \in Objects : pl[q] = l /\ rk[q] = k
    /\ \A o, q \in Objects : pl[o] = l /\ pl[q] = l /\ rk[o] = rk[q] => o = q

Size(rk, h) == IF h = NULL THEN 0 ELSE rk[h]

-----------------------------------------------------------------------------
(* The invariant: there are a place and a rank of every object such that ... *)

(* ... every page's and every CPU's freelist is the list of the objects there; *)
ListsInv(pl, rk) ==
    /\ \A p \in Pages : IsList(fp, pl, rk, OnPage(p), page[p].freelist)
    /\ \A c \in Cpus : IsList(fp, pl, rk, OnCpu(c), cpu_slab[c].freelist)

(* The kernel's contexts: tasks and one interrupt level. *)
TwoLevels == \A x \in Ctx : level[x] \in {0, 1}

FreePC == {"free_cmpxchg", "slab_free", "lock", "slab_cmpxchg"}

(* ... objects are where callers, calls and slabs say; *)
PlaceInv(pl) ==
    /\ pl \in [Objects -> Places]
    /\ \A o \in Objects :
          /\ pl[o] = WithUser <=> o \in held
          /\ pl[o] = Nowhere <=> ~ page[Slab(o)].slab
          /\ \A p \in Pages : pl[o] = OnPage(p) => Slab(o) = p
          /\ \A c \in Cpus : pl[o] = OnCpu(c) /\ cpu_slab[c].page # NULL
                                => Slab(o) = cpu_slab[c].page
          /\ \A x \in Ctx : pl[o] = InCall(x) <=> call[x].at \in FreePC /\ call[x].obj = o
    /\ \A x \in Ctx : call[x].at \in FreePC \cup {"list"} => call[x].obj \in Objects
    /\ TwoLevels => \A o \in Objects : pl[o] # Lost

(* ... a slab counts the objects that are not on its list, a page that is no slab is
   as the page allocator left it. *)
PageInv(rk) ==
    \A p \in Pages :
       /\ page[p].slab => page[p].inuse + Size(rk, page[p].freelist) = objects[p]
       /\ ~ page[p].slab => page[p] = Unused

(* A slab is frozen while it is the slab of a CPU, and of one only. *)
FrozenInv ==
    /\ \A p \in Pages : page[p].frozen <=> \E c \in Cpus : cpu_slab[c].page = p
    /\ \A c, d \in Cpus : cpu_slab[c].page = cpu_slab[d].page /\ cpu_slab[c].page # NULL => c = d

(* What a context that still has the CPU's transaction id knows. *)
TidInv ==
    \A x \in Ctx : call[x].fresh =>
       /\ call[x].at = "alloc_cmpxchg" =>
             C(x).freelist = call[x].obj /\ call[x].obj # NULL /\ call[x].next = fp[call[x].obj]
       /\ call[x].at = "free_cmpxchg" =>
             /\ fp[call[x].obj] = C(x).freelist
             /\ \/ C(x).page = Slab(call[x].obj)
                \/ C(x) = NoSlab /\ ~ (TwoLevels /\ level[x] = 1)

(* Interrupts off, and the list lock with its three critical sections. *)
IrqInv ==
    /\ \A x \in Ctx, y \in Ctx : IrqsOff(x) /\ y \in Neighbours(x) /\ level[y] > level[x]
                                    => call[y].at = "idle"
    /\ \A x \in Ctx : list_lock = x => call[x].at \in {"acquire_slab", "slab_cmpxchg", "list"}
    /\ \A x \in Ctx : call[x].at \in {"acquire_slab", "list"} => list_lock = x

(* The allocation slow path has no slab of its CPU, and with two levels none of its
   CPU's objects either. *)
RefillPC == {"get_partial", "lock_partial", "acquire_slab", "new_slab"}
SlowInv ==
    /\ \A x \in Ctx : call[x].at \in RefillPC => C(x).page = NULL
    /\ TwoLevels => \A x \in Ctx : call[x].at \in RefillPC \cup {"slow"} /\ C(x).page = NULL
                                      => C(x).freelist = NULL

(* What the slow paths have read. *)
OldInv ==
    \A x \in Ctx :
       /\ call[x].at \in {"lock", "slab_cmpxchg"} => fp[call[x].obj] = call[x].old.freelist
       /\ call[x].at = "lock" => NeedsList(call[x].old)
       /\ call[x].at = "slab_cmpxchg" => (list_lock = x <=> NeedsList(call[x].old))
       /\ call[x].at = "acquire_slab" => /\ call[x].pg \in Pages
                                         /\ \E i \in DOMAIN partial : partial[i] = call[x].pg

(* The partial list. *)
Listed(p) == \E i \in DOMAIN partial : partial[i] = p
PartialInv ==
    /\ \A i, j \in DOMAIN partial : partial[i] = partial[j] => i = j
    /\ \A p \in Pages : ~ Relisting(p) =>
          (Listed(p) <=> page[p].slab /\ ~ page[p].frozen /\ page[p].freelist # NULL)
    /\ \A x \in Ctx : call[x].at = "list" =>
          LET p == Slab(call[x].obj)
              v == call[x].old
          IN  /\ page[p].slab /\ ~ page[p].frozen /\ page[p].freelist # NULL
              /\ page[p].inuse < v.inuse
              /\ Listed(p) <=> v.freelist # NULL

BootInv == ~ smp => \A x \in Ctx \ {Boot} : call[x].at = "idle"

Inv(pl, rk) ==
    /\ TypeOK /\ ListsInv(pl, rk) /\ PlaceInv(pl) /\ PageInv(rk)
    /\ FrozenInv /\ TidInv /\ IrqInv /\ SlowInv /\ OldInv /\ PartialInv /\ BootInv /\ NoBug

IInv == \E pl, rk : Inv(pl, rk)

-----------------------------------------------------------------------------
(* Objects and places *)

LEMMA ObjectFacts ==
    /\ \A o \in Objects : /\ Slab(o) \in Pages /\ o[2] \in 1 .. objects[Slab(o)]
                          /\ o = <<Slab(o), o[2]>>
    /\ \A p \in Pages : \A k \in 1 .. objects[p] : <<p, k>> \in Objects /\ Slab(<<p, k>>) = p
    /\ NULL \notin Objects /\ UserData \notin Objects /\ NULL \notin Pages
    /\ \A p \in Pages : objects[p] \in Nat \ {0}
BY SlubAssumption DEF Objects, Slab

LEMMA ObjectsFinite == IsFiniteSet(Objects) /\ NrObjects \in Nat
<1>1. \A p \in Pages : IsFiniteSet({p} \X (1 .. objects[p]))
  <2> TAKE p \in Pages
  <2>1. IsFiniteSet({p})
    BY FS_Singleton
  <2>2. IsFiniteSet(1 .. objects[p])
    <3>1. objects[p] \in Int
      BY SlubAssumption
    <3> QED BY <3>1, FS_Interval
  <2> QED BY <2>1, <2>2, FS_Product
<1>2. IsFiniteSet({{p} \X (1 .. objects[p]) : p \in Pages})
  <2> DEFINE F == [p \in Pages |-> {p} \X (1 .. objects[p])]
             T == {{p} \X (1 .. objects[p]) : p \in Pages}
  <2>1. F \in Surjection(Pages, T)
    BY DEF Surjection
  <2> QED BY <2>1, SlubAssumption, FS_Surjection
<1>3. \A T \in {{p} \X (1 .. objects[p]) : p \in Pages} : IsFiniteSet(T)
  BY <1>1
<1>4. IsFiniteSet(Objects)
  BY <1>2, <1>3, FS_UNION DEF Objects
<1> QED BY <1>4, FS_CardinalityType DEF NrObjects

LEMMA PlacesApart ==
    /\ \A p, q : OnPage(p) = OnPage(q) => p = q
    /\ \A p, q : OnCpu(p) = OnCpu(q) => p = q
    /\ \A p, q : InCall(p) = InCall(q) => p = q
    /\ \A p, c : OnPage(p) # OnCpu(c) /\ OnPage(p) # InCall(c) /\ OnCpu(p) # InCall(c)
    /\ \A p : /\ OnPage(p) \notin {WithUser, Lost, Nowhere}
              /\ OnCpu(p) \notin {WithUser, Lost, Nowhere}
              /\ InCall(p) \notin {WithUser, Lost, Nowhere}
    /\ WithUser # Lost /\ WithUser # Nowhere /\ Lost # Nowhere
BY DEF OnPage, OnCpu, InCall, WithUser, Lost, Nowhere

LEMMA PlacesIn ==
    /\ \A p \in Pages : OnPage(p) \in Places
    /\ \A c \in Cpus : OnCpu(c) \in Places
    /\ \A x \in Ctx : InCall(x) \in Places
    /\ {WithUser, Lost, Nowhere} \subseteq Places
BY DEF Places

-----------------------------------------------------------------------------
(* Operations on one list *)

(* A list that goes to another place as it is. *)
LEMMA ListMove ==
    ASSUME NEW f, NEW pl, NEW rk, NEW l, NEW h, IsList(f, pl, rk, l, h),
           NEW f2, NEW pl2, NEW rk2, NEW m,
           \A o \in Objects : pl2[o] = m <=> pl[o] = l,
           \A o \in Objects : pl[o] = l => f2[o] = f[o] /\ rk2[o] = rk[o]
    PROVE  IsList(f2, pl2, rk2, m, h) /\ Size(rk2, h) = Size(rk, h)
<1>1. h = NULL => \A o \in Objects : pl2[o] # m
  BY DEF IsList
<1>2. h # NULL => h \in Objects /\ pl2[h] = m /\ rk2[h] = rk[h]
  BY DEF IsList
<1>3. ASSUME NEW o \in Objects, pl2[o] = m
      PROVE  /\ rk2[o] \in Nat \ {0} /\ h # NULL /\ rk2[o] <= rk2[h]
             /\ rk2[o] = 1 => f2[o] = NULL
             /\ rk2[o] # 1 => f2[o] \in Objects /\ pl2[f2[o]] = m /\ rk2[f2[o]] = rk2[o] - 1
  BY <1>2, <1>3 DEF IsList
<1>4. ASSUME NEW o \in Objects, pl2[o] = m, NEW k \in 1 .. rk2[o]
      PROVE  \E q \in Objects : pl2[q] = m /\ rk2[q] = k
  <2>1. PICK q \in Objects : pl[q] = l /\ rk[q] = k
    BY <1>4 DEF IsList
  <2> QED BY <2>1
<1>5. \A o, q \in Objects : pl2[o] = m /\ pl2[q] = m /\ rk2[o] = rk2[q] => o = q
  BY DEF IsList
<1> QED BY <1>1, <1>2, <1>3, <1>4, <1>5 DEF IsList, Size

(* A list that a step does not touch. *)
LEMMA ListFrame ==
    ASSUME NEW f, NEW pl, NEW rk, NEW l, NEW h, IsList(f, pl, rk, l, h),
           NEW f2, NEW pl2, NEW rk2,
           \A o \in Objects : pl2[o] = l <=> pl[o] = l,
           \A o \in Objects : pl[o] = l => f2[o] = f[o] /\ rk2[o] = rk[o]
    PROVE  IsList(f2, pl2, rk2, l, h) /\ Size(rk2, h) = Size(rk, h)
BY ListMove

LEMMA SizeType ==
    ASSUME NEW f, NEW pl, NEW rk, NEW l, NEW h, IsList(f, pl, rk, l, h)
    PROVE  /\ Size(rk, h) \in Nat /\ (Size(rk, h) = 0 <=> h = NULL)
           /\ \A o \in Objects : pl[o] = l => rk[o] \in 1 .. Size(rk, h)
BY DEF IsList, Size

(* The objects of an empty list, and the list of no objects. *)
LEMMA ListEmpty ==
    ASSUME NEW f, NEW pl, NEW rk, NEW l, \A o \in Objects : pl[o] # l
    PROVE  IsList(f, pl, rk, l, NULL)
BY DEF IsList

(* Object o, linked to the head, becomes the head. *)
LEMMA ListPush ==
    ASSUME NEW f, NEW pl, NEW rk, NEW l, NEW h, IsList(f, pl, rk, l, h),
           NEW o \in Objects, pl[o] # l, NEW f2, NEW pl2, NEW rk2,
           f2[o] = h, pl2[o] = l, rk2[o] = Size(rk, h) + 1,
           \A q \in Objects \ {o} : pl2[q] = l <=> pl[q] = l,
           \A q \in Objects \ {o} : pl[q] = l => f2[q] = f[q] /\ rk2[q] = rk[q]
    PROVE  IsList(f2, pl2, rk2, l, o) /\ Size(rk2, o) = Size(rk, h) + 1
<1>0. o # NULL
  BY ObjectFacts
<1>1. /\ Size(rk, h) \in Nat /\ (Size(rk, h) = 0 <=> h = NULL)
      /\ \A q \in Objects : pl[q] = l => rk[q] \in 1 .. Size(rk, h)
  BY SizeType
<1>2. h # NULL => h \in Objects \ {o} /\ pl[h] = l /\ rk[h] = Size(rk, h)
  BY DEF IsList, Size
<1>3. ASSUME NEW q \in Objects, pl2[q] = l
      PROVE  /\ rk2[q] \in Nat \ {0} /\ rk2[q] <= rk2[o]
             /\ rk2[q] = 1 => f2[q] = NULL
             /\ rk2[q] # 1 => f2[q] \in Objects /\ pl2[f2[q]] = l /\ rk2[f2[q]] = rk2[q] - 1
  <2>1. CASE q = o
    BY <1>1, <1>2, <2>1
  <2>2. CASE q # o
    <3>1. pl[q] = l /\ f2[q] = f[q] /\ rk2[q] = rk[q] /\ rk[q] \in 1 .. Size(rk, h)
      BY <1>1, <1>3, <2>2
    <3>2. rk[q] # 1 => f[q] \in Objects \ {o} /\ pl[f[q]] = l /\ rk[f[q]] = rk[q] - 1
      BY <3>1 DEF IsList
    <3>3. rk[q] = 1 => f[q] = NULL
      BY <3>1 DEF IsList
    <3> QED BY <1>1, <3>1, <3>2, <3>3
  <2> QED BY <2>1, <2>2
<1>4. ASSUME NEW q \in Objects, pl2[q] = l, NEW k \in 1 .. rk2[q]
      PROVE  \E r \in Objects : pl2[r] = l /\ rk2[r] = k
  <2>1. CASE k = Size(rk, h) + 1
    BY <2>1
  <2>2. CASE k # Size(rk, h) + 1
    <3>1. k \in 1 .. Size(rk, h)
      BY <1>1, <1>3, <1>4, <2>2
    <3>2. h # NULL /\ k \in 1 .. rk[h]
      BY <1>1, <1>2, <3>1
    <3>3. PICK r \in Objects : pl[r] = l /\ rk[r] = k
      BY <1>2, <3>2 DEF IsList
    <3> QED BY <3>3
  <2> QED BY <2>1, <2>2
<1>5. \A q, r \in Objects : pl2[q] = l /\ pl2[r] = l /\ rk2[q] = rk2[r] => q = r
  <2> SUFFICES ASSUME NEW q \in Objects, NEW r \in Objects, pl2[q] = l, pl2[r] = l, rk2[q] = rk2[r]
               PROVE  q = r
    OBVIOUS
  <2>1. CASE q # o /\ r # o
    BY <2>1 DEF IsList
  <2>2. \A t \in Objects \ {o} : pl2[t] = l => rk2[t] # rk2[o]
    BY <1>1
  <2> QED BY <2>1, <2>2
<1> QED BY <1>0, <1>3, <1>4, <1>5 DEF IsList, Size

(* The head is taken off the list. *)
LEMMA ListPop ==
    ASSUME NEW f, NEW pl, NEW rk, NEW l, NEW h, IsList(f, pl, rk, l, h), h # NULL,
           NEW f2, NEW pl2, NEW rk2, pl2[h] # l,
           \A q \in Objects \ {h} : pl2[q] = l <=> pl[q] = l,
           \A q \in Objects \ {h} : pl[q] = l => f2[q] = f[q] /\ rk2[q] = rk[q]
    PROVE  /\ IsList(f2, pl2, rk2, l, f[h]) /\ Size(rk2, f[h]) = Size(rk, h) - 1
           /\ f[h] \in Objects \cup {NULL}
<1>0. /\ h \in Objects /\ pl[h] = l /\ rk[h] \in Nat \ {0} /\ NULL \notin Objects
      /\ rk[h] = 1 => f[h] = NULL
      /\ rk[h] # 1 => f[h] \in Objects /\ pl[f[h]] = l /\ rk[f[h]] = rk[h] - 1
  BY ObjectFacts DEF IsList
<1>1. rk[h] # 1 => f[h] # h /\ f[h] # NULL /\ pl2[f[h]] = l /\ rk2[f[h]] = rk[h] - 1
  BY <1>0
<1>2. ASSUME NEW q \in Objects, pl2[q] = l
      PROVE  /\ q # h /\ pl[q] = l /\ f2[q] = f[q] /\ rk2[q] = rk[q]
             /\ rk[q] \in Nat \ {0} /\ rk[q] <= rk[h] - 1 /\ f[h] # NULL
             /\ rk[q] = 1 => f[q] = NULL
             /\ rk[q] # 1 => f[q] \in Objects /\ pl2[f[q]] = l /\ rk2[f[q]] = rk[q] - 1
  <2>1. q # h /\ pl[q] = l /\ f2[q] = f[q] /\ rk2[q] = rk[q]
    BY <1>2
  <2>2. /\ rk[q] \in Nat \ {0} /\ rk[q] <= rk[h] /\ rk[q] # rk[h]
        /\ rk[q] = 1 => f[q] = NULL
        /\ rk[q] # 1 => f[q] \in Objects /\ pl[f[q]] = l /\ rk[f[q]] = rk[q] - 1
    BY <1>0, <2>1 DEF IsList
  <2>3. rk[h] # 1
    BY <1>0, <2>2
  <2>4. rk[q] # 1 => f[q] # h
    BY <1>0, <2>2
  <2> QED BY <1>0, <1>1, <2>1, <2>2, <2>3, <2>4
<1>3. ASSUME NEW q \in Objects, pl2[q] = l, NEW k \in 1 .. rk2[q]
      PROVE  \E r \in Objects : pl2[r] = l /\ rk2[r] = k
  <2>1. k \in 1 .. rk[q] /\ pl[q] = l /\ k < rk[h]
    BY <1>0, <1>2, <1>3
  <2>2. PICK r \in Objects : pl[r] = l /\ rk[r] = k
    BY <2>1 DEF IsList
  <2>3. r # h
    BY <1>0, <2>1, <2>2
  <2> QED BY <2>2, <2>3
<1>4. \A q, r \in Objects : pl2[q] = l /\ pl2[r] = l /\ rk2[q] = rk2[r] => q = r
  BY <1>2 DEF IsList
<1>5. f[h] = NULL => \A q \in Objects : pl2[q] # l
  BY <1>2
<1>6. f[h] # NULL => f[h] \in Objects /\ pl2[f[h]] = l /\ rk2[f[h]] = rk[h] - 1
  BY <1>0, <1>1
<1> QED BY <1>0, <1>2, <1>3, <1>4, <1>5, <1>6 DEF IsList, Size

(* The objects of page p from the second on, linked in order. *)
IsNew(p, l, f, pl, rk) ==
    /\ \A o \in Objects : pl[o] = l <=> Slab(o) = p /\ o[2] # 1
    /\ \A o \in Objects : Slab(o) = p /\ o[2] # 1 =>
          /\ rk[o] = objects[p] - o[2] + 1
          /\ f[o] = IF o[2] < objects[p] THEN <<p, o[2] + 1>> ELSE NULL

LEMMA ListNew ==
    ASSUME NEW p \in Pages, NEW l, NEW f, NEW pl, NEW rk, IsNew(p, l, f, pl, rk)
    PROVE  LET h == IF 1 < objects[p] THEN <<p, 2>> ELSE NULL
           IN  IsList(f, pl, rk, l, h) /\ Size(rk, h) = objects[p] - 1
<1> USE DEF IsNew
<1> DEFINE n == objects[p]
           h == IF 1 < n THEN <<p, 2>> ELSE NULL
<1>0. /\ n \in Nat \ {0} /\ NULL \notin Objects
      /\ \A k \in 2 .. n : /\ <<p, k>> \in Objects /\ pl[<<p, k>>] = l
                           /\ rk[<<p, k>>] = n - k + 1
                           /\ f[<<p, k>>] = IF k < n THEN <<p, k + 1>> ELSE NULL
  <2>1. n \in Nat \ {0} /\ NULL \notin Objects
    BY ObjectFacts
  <2>2. ASSUME NEW k \in 2 .. n
        PROVE  /\ <<p, k>> \in Objects /\ pl[<<p, k>>] = l
               /\ rk[<<p, k>>] = n - k + 1
               /\ f[<<p, k>>] = IF k < n THEN <<p, k + 1>> ELSE NULL
    <3>1. <<p, k>> \in Objects /\ Slab(<<p, k>>) = p /\ <<p, k>>[2] = k /\ k # 1
      BY <2>1, ObjectFacts
    <3> QED BY <3>1
  <2> QED BY <2>1, <2>2
<1>1. ASSUME NEW o \in Objects, pl[o] = l
      PROVE  \E k \in 2 .. n : o = <<p, k>>
  <2>1. o[2] \in 1 .. n /\ o[2] # 1 /\ o = <<p, o[2]>>
    BY <1>1, ObjectFacts
  <2> QED BY <1>0, <2>1
<1>a. 1 < n => <<p, 2>> \in Objects /\ pl[<<p, 2>>] = l /\ rk[<<p, 2>>] = n - 1
  <2> SUFFICES ASSUME 1 < n
               PROVE  <<p, 2>> \in Objects /\ pl[<<p, 2>>] = l /\ rk[<<p, 2>>] = n - 1
    OBVIOUS
  <2>1. 2 \in 2 .. n /\ n - 2 + 1 = n - 1
    BY <1>0
  <2> QED BY <1>0, <2>1
<1>2. 1 < n <=> h # NULL
  BY <1>0, <1>a
<1>3. h # NULL => h = <<p, 2>>
  OBVIOUS
<1> HIDE DEF h
<1>4. ASSUME NEW o \in Objects, pl[o] = l
      PROVE  /\ rk[o] \in Nat \ {0} /\ h # NULL /\ rk[o] <= rk[h]
             /\ rk[o] = 1 => f[o] = NULL
             /\ rk[o] # 1 => f[o] \in Objects /\ pl[f[o]] = l /\ rk[f[o]] = rk[o] - 1
  <2>1. PICK k \in 2 .. n : o = <<p, k>>
    BY <1>1, <1>4
  <2>2. h = <<p, 2>> /\ h # NULL /\ rk[h] = n - 1
    <3>1. 1 < n
      BY <1>0, <2>1
    <3> QED BY <1>a, <1>2, <1>3, <3>1
  <2>3. rk[o] = n - k + 1 /\ f[o] = IF k < n THEN <<p, k + 1>> ELSE NULL
    BY <1>0, <2>1
  <2>4. ASSUME k < n PROVE f[o] \in Objects /\ pl[f[o]] = l /\ rk[f[o]] = n - k
    <3>1. k + 1 \in 2 .. n /\ n - (k + 1) + 1 = n - k
      BY <1>0, <2>4
    <3> QED BY <1>0, <2>3, <2>4, <3>1
  <2> QED BY <1>0, <2>1, <2>2, <2>3, <2>4
<1>5. ASSUME NEW o \in Objects, pl[o] = l, NEW k \in 1 .. rk[o]
      PROVE  \E q \in Objects : pl[q] = l /\ rk[q] = k
  <2>1. PICK j \in 2 .. n : o = <<p, j>>
    BY <1>1, <1>5
  <2>2. rk[o] = n - j + 1
    BY <1>0, <2>1
  <2>3. n - k + 1 \in 2 .. n /\ n - (n - k + 1) + 1 = k
    BY <1>0, <2>2
  <2> QED BY <1>0, <2>3
<1>6. ASSUME NEW o \in Objects, NEW q \in Objects, pl[o] = l, pl[q] = l, rk[o] = rk[q]
      PROVE  o = q
  <2>1. PICK j \in 2 .. n : o = <<p, j>>
    BY <1>1, <1>6
  <2>2. PICK k \in 2 .. n : q = <<p, k>>
    BY <1>1, <1>6
  <2>3. n - j + 1 = n - k + 1
    BY <1>0, <1>6, <2>1, <2>2
  <2>4. j = k
    BY <1>0, <2>3
  <2> QED BY <2>1, <2>2, <2>4
<1>7. h = NULL => \A o \in Objects : pl[o] # l
  <2>1. ~ (1 < n) => 2 .. n = {}
    BY <1>0
  <2> QED BY <1>1, <1>2, <2>1
<1>8. h # NULL => h \in Objects /\ pl[h] = l /\ rk[h] = n - 1
  BY <1>a, <1>2, <1>3
<1>9. IsList(f, pl, rk, l, h)
  BY <1>4, <1>5, <1>6, <1>7, <1>8 DEF IsList
<1>10. Size(rk, h) = n - 1
  BY <1>0, <1>2, <1>8 DEF Size
<1> QED BY <1>9, <1>10 DEF h

(* The objects of the list (m, g) are put one by one on the list (l, h). *)
LEMMA ListReverse ==
    ASSUME NEW f, NEW pl, NEW rk, NEW l, NEW h, IsList(f, pl, rk, l, h),
           NEW m, NEW g, IsList(f, pl, rk, m, g), l # m, g # NULL,
           NEW f2, NEW pl2, NEW rk2, NEW e \in Objects, pl[e] = m, rk[e] = 1,
           \A o \in Objects : pl2[o] = l <=> pl[o] \in {l, m},
           \A o \in Objects : pl[o] = l => f2[o] = f[o] /\ rk2[o] = rk[o],
           \A o \in Objects : pl[o] = m =>
              /\ rk2[o] = Size(rk, h) + Size(rk, g) - rk[o] + 1
              /\ o = g => f2[o] = h
              /\ o # g => f2[o] \in Objects /\ pl[f2[o]] = m /\ rk[f2[o]] = rk[o] + 1
    PROVE  IsList(f2, pl2, rk2, l, e) /\ Size(rk2, e) = Size(rk, h) + Size(rk, g)
<1>0. /\ Size(rk, h) \in Nat /\ Size(rk, g) \in Nat \ {0} /\ e # NULL
      /\ \A o \in Objects : pl[o] = l => rk[o] \in 1 .. Size(rk, h)
      /\ \A o \in Objects : pl[o] = m => rk[o] \in 1 .. Size(rk, g)
      /\ Size(rk, h) = 0 <=> h = NULL
      /\ h # NULL => h \in Objects /\ pl[h] = l /\ rk[h] = Size(rk, h)
      /\ g \in Objects /\ pl[g] = m /\ rk[g] = Size(rk, g)
  <2>1. e # NULL
    BY ObjectFacts
  <2>2. /\ Size(rk, h) \in Nat /\ (Size(rk, h) = 0 <=> h = NULL)
        /\ \A o \in Objects : pl[o] = l => rk[o] \in 1 .. Size(rk, h)
    BY SizeType
  <2>3. /\ Size(rk, g) \in Nat /\ (Size(rk, g) = 0 <=> g = NULL)
        /\ \A o \in Objects : pl[o] = m => rk[o] \in 1 .. Size(rk, g)
    BY SizeType
  <2>4. /\ h # NULL => h \in Objects /\ pl[h] = l /\ rk[h] = Size(rk, h)
        /\ g \in Objects /\ pl[g] = m /\ rk[g] = Size(rk, g)
    BY DEF IsList, Size
  <2> QED BY <2>1, <2>2, <2>3, <2>4
<1> DEFINE a == Size(rk, h)
           b == Size(rk, g)
<1> HIDE DEF a, b
<1>1. /\ a \in Nat /\ b \in Nat \ {0}
      /\ \A o \in Objects : pl[o] = l => rk[o] \in 1 .. a
      /\ \A o \in Objects : pl[o] = m => rk[o] \in 1 .. b
      /\ a = 0 <=> h = NULL
      /\ h # NULL => rk[h] = a
      /\ rk[g] = b
      /\ \A o \in Objects : pl[o] = m => rk2[o] = a + b - rk[o] + 1
  BY <1>0 DEF a, b
<1>2. rk2[e] = a + b /\ pl2[e] = l
  BY <1>1
<1>3. ASSUME NEW o \in Objects, pl2[o] = l
      PROVE  /\ rk2[o] \in Nat \ {0} /\ rk2[o] <= rk2[e]
             /\ rk2[o] = 1 => f2[o] = NULL
             /\ rk2[o] # 1 => f2[o] \in Objects /\ pl2[f2[o]] = l /\ rk2[f2[o]] = rk2[o] - 1
  <2>1. CASE pl[o] = l
    <3>1. f2[o] = f[o] /\ rk2[o] = rk[o] /\ rk[o] \in 1 .. a
      BY <1>1, <2>1
    <3>2. /\ rk[o] = 1 => f[o] = NULL
          /\ rk[o] # 1 => f[o] \in Objects /\ pl[f[o]] = l /\ rk[f[o]] = rk[o] - 1
      BY <2>1 DEF IsList
    <3> QED BY <1>1, <1>2, <3>1, <3>2
  <2>2. CASE pl[o] = m /\ o = g
    <3>1. f2[o] = h /\ rk2[o] = a + 1
      BY <1>1, <2>2
    <3>2. h # NULL => h \in Objects /\ pl[h] = l /\ rk2[h] = a
      BY <1>0, <1>1
    <3> QED BY <1>1, <1>2, <3>1, <3>2
  <2>3. CASE pl[o] = m /\ o # g
    <3>1. /\ f2[o] \in Objects /\ pl[f2[o]] = m /\ rk[f2[o]] = rk[o] + 1
          /\ rk2[o] = a + b - rk[o] + 1 /\ rk[o] \in 1 .. b /\ rk[f2[o]] \in 1 .. b
      BY <1>1, <2>3
    <3>2. rk2[f2[o]] = a + b - rk[f2[o]] + 1
      BY <1>1, <3>1
    <3> QED BY <1>1, <1>2, <3>1, <3>2
  <2> QED BY <1>3, <2>1, <2>2, <2>3
<1>4. ASSUME NEW k \in 1 .. a + b
      PROVE  \E r \in Objects : pl2[r] = l /\ rk2[r] = k
  <2>1. CASE k <= a
    <3>1. h # NULL /\ k \in 1 .. rk[h]
      BY <1>0, <1>1, <2>1
    <3>2. PICK r \in Objects : pl[r] = l /\ rk[r] = k
      BY <1>0, <3>1 DEF IsList
    <3> QED BY <3>2
  <2>2. CASE k > a
    <3>1. a + b - k + 1 \in 1 .. rk[g]
      BY <1>1, <2>2
    <3>2. PICK r \in Objects : pl[r] = m /\ rk[r] = a + b - k + 1
      BY <1>0, <3>1 DEF IsList
    <3>3. rk2[r] = k
      BY <1>1, <3>2
    <3> QED BY <3>2, <3>3
  <2> QED BY <1>1, <2>1, <2>2
<1>5. \A o, q \in Objects : pl2[o] = l /\ pl2[q] = l /\ rk2[o] = rk2[q] => o = q
  <2> SUFFICES ASSUME NEW o \in Objects, NEW q \in Objects, pl2[o] = l, pl2[q] = l, rk2[o] = rk2[q]
               PROVE  o = q
    OBVIOUS
  <2>1. CASE pl[o] = l /\ pl[q] = l
    BY <2>1 DEF IsList
  <2>2. CASE pl[o] = m /\ pl[q] = m
    <3>1. rk[o] = rk[q]
      BY <1>1, <2>2
    <3> QED BY <2>2, <3>1 DEF IsList
  <2>3. \A t, u \in Objects : pl[t] = l /\ pl[u] = m => rk2[t] # rk2[u]
    BY <1>1
  <2> QED BY <2>1, <2>2, <2>3
<1>6. \A o \in Objects : pl2[o] = l => \A k \in 1 .. rk2[o] : k \in 1 .. a + b
  BY <1>1, <1>2, <1>3
<1>7. IsList(f2, pl2, rk2, l, e)
  BY <1>0, <1>2, <1>3, <1>4, <1>5, <1>6 DEF IsList
<1> QED BY <1>0, <1>2, <1>7 DEF Size, a, b

-----------------------------------------------------------------------------
(* Counting *)

Members(pl, l) == {o \in Objects : pl[o] = l}

(* The size of a list is the number of its objects. *)
LEMMA SizeCard ==
    ASSUME NEW f, NEW pl, NEW rk, NEW l, NEW h, IsList(f, pl, rk, l, h)
    PROVE  IsFiniteSet(Members(pl, l)) /\ Cardinality(Members(pl, l)) = Size(rk, h)
<1> DEFINE M == Members(pl, l)
           n == Size(rk, h)
           F == [o \in M |-> rk[o]]
<1>1. n \in Nat /\ (n = 0 <=> h = NULL) /\ \A o \in Objects : pl[o] = l => rk[o] \in 1 .. n
  BY SizeType
<1>2. F \in [M -> 1 .. n]
  BY <1>1 DEF Members
<1>3. F \in Injection(M, 1 .. n)
  BY <1>2 DEF Injection, IsInjective, IsList, Members
<1>4. ASSUME NEW k \in 1 .. n PROVE \E o \in M : F[o] = k
  <2>1. h # NULL /\ h \in Objects /\ pl[h] = l /\ rk[h] = n
    BY <1>1 DEF IsList, Size
  <2>2. PICK o \in Objects : pl[o] = l /\ rk[o] = k
    BY <2>1 DEF IsList
  <2> QED BY <2>2 DEF Members
<1>5. F \in Surjection(M, 1 .. n)
  BY <1>2, <1>4 DEF Surjection
<1> HIDE DEF F, M, n
<1>6. IsFiniteSet(1 .. n) /\ Cardinality(1 .. n) = n
  BY <1>1, FS_Interval
<1>7. IsFiniteSet(M) /\ (Cardinality(M) = Cardinality(1 .. n) <=> F \in Surjection(M, 1 .. n))
  BY <1>3, <1>6, FS_Injection
<1> QED BY <1>5, <1>6, <1>7 DEF M, n

(* The list of a slab has at most its objects, and all of them when it is as long. *)
LEMMA PageBound ==
    ASSUME NEW f, NEW pl, NEW rk, NEW l, NEW h, IsList(f, pl, rk, l, h), NEW p \in Pages,
           \A o \in Objects : pl[o] = l => Slab(o) = p
    PROVE  /\ Size(rk, h) <= objects[p]
           /\ Size(rk, h) = objects[p] => \A o \in Objects : Slab(o) = p => pl[o] = l
<1> DEFINE M == Members(pl, l)
           S == {o \in Objects : Slab(o) = p}
           n == objects[p]
           F == [o \in S |-> o[2]]
<1>1. n \in Nat \ {0}
  BY ObjectFacts
<1>2. F \in [S -> 1 .. n]
  BY ObjectFacts
<1>3. F \in Injection(S, 1 .. n)
  <2>1. \A a, b \in S : a[2] = b[2] => a = b
    BY ObjectFacts
  <2> QED BY <1>2, <2>1 DEF Injection, IsInjective
<1>4. ASSUME NEW k \in 1 .. n PROVE \E o \in S : F[o] = k
  <2>1. <<p, k>> \in S
    BY ObjectFacts
  <2>2. F[<<p, k>>] = k
    BY <2>1
  <2> QED BY <2>1, <2>2
<1>5. F \in Surjection(S, 1 .. n)
  BY <1>2, <1>4 DEF Surjection
<1>6. IsFiniteSet(M) /\ Cardinality(M) = Size(rk, h)
  BY SizeCard
<1>7. M \in SUBSET S
  BY DEF Members
<1> HIDE DEF F, M, S, n
<1>8. IsFiniteSet(1 .. n) /\ Cardinality(1 .. n) = n
  BY <1>1, FS_Interval
<1>9. IsFiniteSet(S) /\ (Cardinality(S) = Cardinality(1 .. n) <=> F \in Surjection(S, 1 .. n))
  BY <1>3, <1>8, FS_Injection
<1>10. Cardinality(S) = n
  BY <1>5, <1>8, <1>9
<1>11. Cardinality(M) <= Cardinality(S) /\ (Cardinality(S) = Cardinality(M) => S = M)
  BY <1>7, <1>9, FS_Subset
<1>12. S = M => \A o \in Objects : Slab(o) = p => pl[o] = l
  BY DEF S, M, Members
<1> QED BY <1>6, <1>10, <1>11, <1>12 DEF n

-----------------------------------------------------------------------------
(* What walking along a list finds: induction as the least counterexample *)

LEMMA LeastNat ==
    ASSUME NEW S \in SUBSET Nat, S # {}
    PROVE  \E m \in S : \A k \in S : m <= k
<1> DEFINE R == {ss \in Nat \X Nat : ss[1] < ss[2]}
<1>1. IsWellFoundedOn(R, Nat)
  BY NatLessThanWellFounded DEF OpToRel
<1> HIDE DEF R
<1>2. PICK m \in S : \A y \in S : ~ (<<y, m>> \in R)
  BY <1>1, WFMin
<1>3. \A y \in S : ~ (y < m)
  BY <1>2 DEF R
<1> QED BY <1>3

(* The recursive function of Walk exists. *)
LEMMA WalkDef ==
    ASSUME NEW o
    PROVE  Walk(o) = [n \in 0 .. NrObjects |-> IF n = 0 THEN o ELSE Follow(Walk(o)[n - 1])]
<1> DEFINE Seg(n, g) == g = [k \in 0 .. n |-> IF k = 0 THEN o ELSE Follow(g[k - 1])]
           Good == {n \in Nat : \E g : Seg(n, g)}
           Bad == Nat \ Good
<1> HIDE DEF Seg
<1>0. NrObjects \in Nat
  BY ObjectsFinite
<1>1. Bad = {}
  <2> SUFFICES ASSUME Bad # {} PROVE FALSE
    OBVIOUS
  <2>1. PICK m \in Bad : \A k \in Bad : m <= k
    BY LeastNat
  <2>2. m # 0
    <3>1. Seg(0, [k \in 0 .. 0 |-> o])
      BY DEF Seg
    <3> QED BY <2>1, <3>1
  <2>3. m - 1 \in Good
    BY <2>1, <2>2
  <2>4. PICK g : Seg(m - 1, g)
    BY <2>3
  <2> DEFINE h == [k \in 0 .. m |-> IF k < m THEN g[k] ELSE Follow(g[m - 1])]
  <2>5. Seg(m, h)
    <3>1. ASSUME NEW k \in 0 .. m PROVE h[k] = IF k = 0 THEN o ELSE Follow(h[k - 1])
      <4>1. CASE k < m
        BY <4>1, <2>1, <2>4 DEF Seg
      <4>2. CASE k = m
        BY <4>2, <2>1, <2>2
      <4> QED BY <4>1, <4>2, <2>1
    <3>2. h = [k \in 0 .. m |-> h[k]]
      OBVIOUS
    <3> QED BY <3>1, <3>2 DEF Seg
  <2> QED BY <2>1, <2>5
<1>2. PICK g : Seg(NrObjects, g)
  <2>1. NrObjects \in Good
    BY <1>0, <1>1
  <2> QED BY <2>1
<1>3. \E at : at = [n \in 0 .. NrObjects |-> IF n = 0 THEN o ELSE Follow(at[n - 1])]
  BY <1>2 DEF Seg
<1> QED BY <1>3 DEF Walk

(* The n-th step from the head of a list is at the object n below it, or at the end. *)
LEMMA WalkList ==
    ASSUME NEW pl, NEW rk, NEW l, NEW h, IsList(fp, pl, rk, l, h)
    PROVE  \A n \in 0 .. NrObjects :
              /\ n < Size(rk, h) => /\ Walk(h)[n] \in Objects /\ pl[Walk(h)[n]] = l
                                    /\ rk[Walk(h)[n]] = Size(rk, h) - n
              /\ n >= Size(rk, h) => Walk(h)[n] = NULL
<1> DEFINE s == Size(rk, h)
           P(n) == /\ n < s => /\ Walk(h)[n] \in Objects /\ pl[Walk(h)[n]] = l
                               /\ rk[Walk(h)[n]] = s - n
                   /\ n >= s => Walk(h)[n] = NULL
           Bad == {n \in 0 .. NrObjects : ~ P(n)}
<1>0. NrObjects \in Nat /\ NULL \notin Objects /\ s \in Nat /\ (s = 0 <=> h = NULL)
  BY ObjectsFinite, ObjectFacts, SizeType
<1>1. Walk(h)[0] = h /\ \A n \in 1 .. NrObjects : Walk(h)[n] = Follow(Walk(h)[n - 1])
  BY <1>0, WalkDef
<1>2. P(0)
  <2>1. h # NULL => h \in Objects /\ pl[h] = l /\ rk[h] = s
    BY DEF IsList, Size
  <2> QED BY <1>0, <1>1, <2>1
<1>3. ASSUME NEW n \in 1 .. NrObjects, P(n - 1) PROVE P(n)
  <2>1. Walk(h)[n] = Follow(Walk(h)[n - 1])
    BY <1>1
  <2> DEFINE w == Walk(h)[n - 1]
  <2> HIDE DEF s, w
  <2>2. CASE n - 1 < s
    <3>1. w \in Objects /\ pl[w] = l /\ rk[w] = s - (n - 1)
      BY <1>3, <2>2 DEF w
    <3>2. Walk(h)[n] = fp[w]
      BY <2>1, <3>1 DEF Follow, w
    <3>3. /\ rk[w] = 1 => fp[w] = NULL
          /\ rk[w] # 1 => fp[w] \in Objects /\ pl[fp[w]] = l /\ rk[fp[w]] = rk[w] - 1
      BY <3>1 DEF IsList
    <3>4. /\ rk[w] = 1 <=> ~ (n < s)
          /\ rk[w] - 1 = s - n
      BY <1>0, <2>2, <3>1
    <3> QED BY <1>0, <3>2, <3>3, <3>4
  <2>3. CASE ~ (n - 1 < s)
    <3>1. w = NULL
      BY <1>0, <1>3, <2>3 DEF w
    <3>2. Walk(h)[n] = NULL
      BY <1>0, <2>1, <3>1 DEF Follow, w
    <3> QED BY <1>0, <2>3, <3>2
  <2> QED BY <2>2, <2>3
<1> HIDE DEF P
<1>4. Bad = {}
  <2> SUFFICES ASSUME Bad # {} PROVE FALSE
    OBVIOUS
  <2>0. Bad \in SUBSET Nat
    BY <1>0
  <2>1. PICK m \in Bad : \A k \in Bad : m <= k
    BY <2>0, LeastNat
  <2>2. m # 0
    BY <1>2, <2>1
  <2>3. m \in 1 .. NrObjects /\ m - 1 \in 0 .. NrObjects /\ m - 1 \notin Bad
    BY <1>0, <2>1, <2>2
  <2>4. P(m - 1)
    BY <2>3
  <2> QED BY <1>3, <2>1, <2>3, <2>4
<1>5. \A n \in 0 .. NrObjects : P(n)
  BY <1>4
<1> QED BY <1>5 DEF P

(* A list ends, and its objects are those at its place. *)
LEMMA LinkedIs ==
    ASSUME NEW pl, NEW rk, NEW l, NEW h, IsList(fp, pl, rk, l, h)
    PROVE  /\ Ends(h) /\ Linked(h) = Members(pl, l) /\ Cardinality(Linked(h)) = Size(rk, h)
           /\ List(h) = [i \in 1 .. Size(rk, h) |-> Walk(h)[i - 1]]
           /\ \A i \in 1 .. Size(rk, h) : /\ Walk(h)[i - 1] \in Objects /\ pl[Walk(h)[i - 1]] = l
                                          /\ rk[Walk(h)[i - 1]] = Size(rk, h) - i + 1
<1> DEFINE s == Size(rk, h)
<1>0. NrObjects \in Nat /\ IsFiniteSet(Objects) /\ NULL \notin Objects /\ s \in Nat
      /\ \A o \in Objects : pl[o] = l => rk[o] \in 1 .. s
  BY ObjectsFinite, ObjectFacts, SizeType
<1>1. IsFiniteSet(Members(pl, l)) /\ Cardinality(Members(pl, l)) = s
  BY SizeCard
<1>2. s <= NrObjects
  <2>1. Members(pl, l) \in SUBSET Objects
    BY DEF Members
  <2> QED BY <1>0, <1>1, <2>1, FS_Subset DEF NrObjects
<1>3. \A n \in 0 .. NrObjects :
              /\ n < s => /\ Walk(h)[n] \in Objects /\ pl[Walk(h)[n]] = l
                          /\ rk[Walk(h)[n]] = s - n
              /\ n >= s => Walk(h)[n] = NULL
  BY WalkList
<1> HIDE DEF s
<1>4. Ends(h)
  BY <1>0, <1>2, <1>3 DEF Ends
<1>5. Linked(h) = Members(pl, l)
  <2>1. ASSUME NEW o \in Linked(h) PROVE o \in Members(pl, l)
    <3>1. PICK n \in 0 .. NrObjects : o = Walk(h)[n] /\ o \in Objects
      BY DEF Linked
    <3>2. n < s
      BY <1>0, <1>3, <3>1
    <3> QED BY <1>3, <3>1, <3>2 DEF Members
  <2>2. ASSUME NEW o \in Members(pl, l) PROVE o \in Linked(h)
    <3>1. o \in Objects /\ pl[o] = l /\ rk[o] \in 1 .. s
      BY <1>0 DEF Members
    <3>2. s - rk[o] \in 0 .. NrObjects /\ s - rk[o] < s /\ s - (s - rk[o]) = rk[o]
      BY <1>0, <1>2, <3>1
    <3>3. LET w == Walk(h)[s - rk[o]] IN w \in Objects /\ pl[w] = l /\ rk[w] = rk[o]
      BY <1>3, <3>2
    <3>4. Walk(h)[s - rk[o]] = o
      BY <3>1, <3>3 DEF IsList
    <3> QED BY <3>1, <3>2, <3>4 DEF Linked
  <2> QED BY <2>1, <2>2
<1>6. ASSUME NEW i \in 1 .. s
      PROVE  /\ Walk(h)[i - 1] \in Objects /\ pl[Walk(h)[i - 1]] = l
             /\ rk[Walk(h)[i - 1]] = s - i + 1
  <2>1. i - 1 \in 0 .. NrObjects /\ i - 1 < s /\ s - (i - 1) = s - i + 1
    BY <1>0, <1>2
  <2> QED BY <1>3, <2>1
<1>7. List(h) = [i \in 1 .. s |-> Walk(h)[i - 1]]
  BY <1>1, <1>5 DEF List
<1> QED BY <1>1, <1>4, <1>5, <1>6, <1>7 DEF s

-----------------------------------------------------------------------------
(* What every step of a context leaves alone *)

Others(x) ==
    \A y \in Ctx \ {x} :
       /\ call'[y].at = call[y].at /\ call'[y].obj = call[y].obj /\ call'[y].next = call[y].next
       /\ call'[y].pg = call[y].pg /\ call'[y].old = call[y].old
       /\ call'[y].fresh => call[y].fresh

(* x may step, and nobody else gets or loses the lock or moves. *)
Steps(x) ==
    /\ Running(x) /\ (call[x].at # "idle" \/ MayCall(x))
    /\ Others(x) /\ smp' = smp
    /\ \A y \in Ctx \ {x} : list_lock' = y <=> list_lock = y

LEMMA Records ==
    /\ Unused \in Page /\ Idle \in Call
    /\ \A k \in Call : /\ k.fresh \in BOOLEAN /\ k.obj \in Objects \cup {NULL}
                       /\ k.next \in Objects \cup {NULL, UserData}
                       /\ k.pg \in Pages \cup {NULL} /\ k.old \in Page
BY DEF Unused, Idle, Page, Call

LEMMA SetCall ==
    ASSUME call \in [Ctx -> Call], NEW x \in Ctx, NEW k \in Call, call' = [call EXCEPT ![x] = k]
    PROVE  /\ call' \in [Ctx -> Call] /\ call'[x] = k
           /\ \A y \in Ctx \ {x} : call'[y] = call[y]
           /\ Others(x)
BY DEF Others

LEMMA BumpCall ==
    ASSUME call \in [Ctx -> Call], NEW x \in Ctx, NEW k \in Call, Bump(x, k)
    PROVE  /\ call' \in [Ctx -> Call] /\ call'[x] = k
           /\ \A y \in Neighbours(x) : ~ call'[y].fresh
           /\ \A y \in Ctx \ {x} : y \notin Neighbours(x) => call'[y] = call[y]
           /\ Others(x)
<1>1. \A y \in Ctx : [call[y] EXCEPT !.fresh = FALSE] \in Call
  BY DEF Call
<1>2. call' = [y \in Ctx |-> IF y = x THEN k
                             ELSE IF y \in Neighbours(x) THEN [call[y] EXCEPT !.fresh = FALSE]
                             ELSE call[y]]
  BY DEF Bump
<1>3. call' \in [Ctx -> Call]
  BY <1>1, <1>2
<1>4. x \notin Neighbours(x) /\ Neighbours(x) \subseteq Ctx
  BY DEF Neighbours
<1>5. \A y \in Neighbours(x) : call'[y] = [call[y] EXCEPT !.fresh = FALSE]
  BY <1>2, <1>4
<1>6. \A y \in Neighbours(x) :
        /\ call'[y].at = call[y].at /\ call'[y].obj = call[y].obj /\ call'[y].next = call[y].next
        /\ call'[y].pg = call[y].pg /\ call'[y].old = call[y].old
        /\ ~ call'[y].fresh
  <2> TAKE y \in Neighbours(x)
  <2>1. call[y] \in Call
    BY <1>4
  <2>2. call'[y] = [call[y] EXCEPT !.fresh = FALSE]
    BY <1>5
  <2> QED BY <2>1, <2>2 DEF Call
<1>7. \A y \in Ctx \ {x} : y \notin Neighbours(x) => call'[y] = call[y]
  BY <1>2
<1>8. Others(x)
  BY <1>6, <1>7 DEF Others
<1> QED BY <1>2, <1>3, <1>6, <1>7, <1>8

(* A context that can step shares its CPU with nobody who runs with interrupts off,
   and of the others there only lower levels are in a call. *)
LEMMA Alone ==
    ASSUME IrqInv, NEW x \in Ctx, Running(x), call[x].at # "idle" \/ MayCall(x)
    PROVE  \A y \in Neighbours(x) : /\ ~ IrqsOff(y)
                                    /\ call[y].at # "idle" => level[y] < level[x]
<1> SUFFICES ASSUME NEW y \in Neighbours(x)
             PROVE  ~ IrqsOff(y) /\ (call[y].at # "idle" => level[y] < level[x])
  OBVIOUS
<1>1. y \in Ctx \ {x} /\ smp_processor_id[y] = smp_processor_id[x]
  BY DEF Neighbours
<1>2. x \in Neighbours(y)
  BY <1>1 DEF Neighbours
<1>3. level[x] \in Nat /\ level[y] \in Nat /\ level[x] # level[y]
  BY <1>1, SlubAssumption
<1>4. level[y] > level[x] => call[y].at = "idle"
  BY DEF Running
<1>5. IrqsOff(y) => call[y].at # "idle"
  BY <1>1 DEF IrqInv, IrqsOff
<1>6. IrqsOff(y) /\ level[y] < level[x] => call[x].at = "idle"
  BY <1>1, <1>2, <1>3 DEF IrqInv
<1>7. CASE call[x].at # "idle"
  BY <1>3, <1>4, <1>5, <1>6, <1>7
<1>8. CASE MayCall(x)
  BY <1>3, <1>4, <1>8 DEF MayCall
<1> QED BY <1>7, <1>8

LEMMA IrqStep ==
    ASSUME IrqInv, NEW x \in Ctx, Steps(x),
           list_lock' = x => call'[x].at \in {"acquire_slab", "slab_cmpxchg", "list"},
           call'[x].at \in {"acquire_slab", "list"} => list_lock' = x
    PROVE  IrqInv'
<1>1. ASSUME NEW a \in Ctx, NEW b \in Neighbours(a), IrqsOff(a)', level[b] > level[a]
      PROVE  call'[b].at = "idle"
  <2>0. b \in Ctx \ {a}
    BY DEF Neighbours
  <2>1. CASE a = x
    <3>1. call[b].at = "idle"
      BY <1>1, <2>1 DEF Steps, Running
    <3> QED BY <2>0, <2>1, <3>1 DEF Steps, Others
  <2>2. CASE a # x
    <3>1. IrqsOff(a)
      BY <1>1, <2>2 DEF IrqsOff, Steps, Others
    <3>2. call[b].at = "idle"
      BY <1>1, <3>1, <2>0 DEF IrqInv
    <3>3. b # x
      <4>1. b = x => a \in Neighbours(x)
        BY <2>0 DEF Neighbours
      <4> QED BY <3>1, <4>1, Alone DEF Steps
    <3> QED BY <2>0, <3>2, <3>3 DEF Steps, Others
  <2> QED BY <2>1, <2>2
<1>2. \A y \in Ctx : list_lock' = y => call'[y].at \in {"acquire_slab", "slab_cmpxchg", "list"}
  BY DEF Steps, Others, IrqInv
<1>3. \A y \in Ctx : call'[y].at \in {"acquire_slab", "list"} => list_lock' = y
  BY DEF Steps, Others, IrqInv
<1>4. \A a \in Ctx, b \in Ctx : IrqsOff(a)' /\ b \in Neighbours(a)' /\ level[b] > level[a]
                                    => call'[b].at = "idle"
  <2>1. \A a \in Ctx : Neighbours(a)' = Neighbours(a)
    BY DEF Neighbours
  <2> QED BY <1>1, <2>1
<1> QED BY <1>2, <1>3, <1>4 DEF IrqInv

LEMMA BootStep ==
    ASSUME BootInv, NEW x \in Ctx, Steps(x) PROVE BootInv'
<1>1. smp \/ x = Boot
  BY DEF Steps, MayCall, BootInv
<1> QED BY <1>1 DEF Steps, Others, BootInv

(* The words that the calls of other contexts than x rely on: the object at the head
   of the CPU's list for one that has read it, the object that it frees for another. *)
KeepsLinks(x, pl) ==
    \A y \in Ctx \ {x} : \A o \in Objects :
       pl[o] = InCall(y) \/ (call'[y].fresh /\ pl[o] = OnCpu(smp_processor_id[y]))
          => fp'[o] = fp[o]

LEMMA TidStep ==
    ASSUME NEW pl, NEW rk, TypeOK, ListsInv(pl, rk), PlaceInv(pl), TidInv,
           NEW x \in Ctx, Steps(x), KeepsLinks(x, pl),
           \A y \in Ctx \ {x} : call'[y].fresh => C(y)' = C(y),
           call'[x].fresh /\ call'[x].at = "alloc_cmpxchg" =>
             /\ C(x)'.freelist = call'[x].obj /\ call'[x].obj # NULL
             /\ call'[x].next = fp'[call'[x].obj],
           call'[x].fresh /\ call'[x].at = "free_cmpxchg" =>
             /\ fp'[call'[x].obj] = C(x)'.freelist
             /\ C(x)'.page = Slab(call'[x].obj)
    PROVE  TidInv'
<1> SUFFICES ASSUME NEW y \in Ctx \ {x}, call'[y].fresh
             PROVE  /\ call'[y].at = "alloc_cmpxchg" =>
                         /\ C(y)'.freelist = call'[y].obj /\ call'[y].obj # NULL
                         /\ call'[y].next = fp'[call'[y].obj]
                    /\ call'[y].at = "free_cmpxchg" =>
                         /\ fp'[call'[y].obj] = C(y)'.freelist
                         /\ \/ C(y)'.page = Slab(call'[y].obj)
                            \/ C(y)' = NoSlab /\ ~ (TwoLevels /\ level[y] = 1)
  BY DEF TidInv, Slab, TwoLevels, NoSlab
<1>1. /\ call'[y].at = call[y].at /\ call'[y].obj = call[y].obj /\ call'[y].next = call[y].next
      /\ call[y].fresh /\ C(y)' = C(y)
  BY DEF Steps, Others
<1>2. /\ call[y].at = "alloc_cmpxchg" =>
            C(y).freelist = call[y].obj /\ call[y].obj # NULL /\ call[y].next = fp[call[y].obj]
      /\ call[y].at = "free_cmpxchg" =>
            /\ fp[call[y].obj] = C(y).freelist
            /\ \/ C(y).page = Slab(call[y].obj)
               \/ C(y) = NoSlab /\ ~ (TwoLevels /\ level[y] = 1)
  BY <1>1 DEF TidInv
<1>3. CASE call[y].at = "alloc_cmpxchg"
  <2>0. smp_processor_id[y] \in Cpus
    BY DEF Cpus
  <2>1. IsList(fp, pl, rk, OnCpu(smp_processor_id[y]), C(y).freelist)
    BY <2>0 DEF ListsInv, C
  <2>2. call[y].obj \in Objects /\ pl[call[y].obj] = OnCpu(smp_processor_id[y])
    BY <1>2, <1>3, <2>1 DEF IsList
  <2>3. fp'[call[y].obj] = fp[call[y].obj]
    BY <2>2 DEF KeepsLinks
  <2> QED BY <1>1, <1>2, <1>3, <2>3
<1>4. CASE call[y].at = "free_cmpxchg"
  <2>1. call[y].obj \in Objects /\ pl[call[y].obj] = InCall(y)
    BY <1>4 DEF PlaceInv, FreePC
  <2>3. fp'[call[y].obj] = fp[call[y].obj]
    BY <2>1 DEF KeepsLinks
  <2> QED BY <1>1, <1>2, <1>4, <2>3
<1> QED BY <1>1, <1>3, <1>4

LEMMA OldStep ==
    ASSUME NEW pl, PlaceInv(pl), OldInv,
           NEW x \in Ctx, Steps(x), KeepsLinks(x, pl),
           \A y \in Ctx \ {x} : call[y].at = "acquire_slab" => partial' = partial,
           call'[x].at \in {"lock", "slab_cmpxchg"} => fp'[call'[x].obj] = call'[x].old.freelist,
           call'[x].at = "lock" => NeedsList(call'[x].old),
           call'[x].at = "slab_cmpxchg" => (list_lock' = x <=> NeedsList(call'[x].old)),
           call'[x].at = "acquire_slab" => /\ call'[x].pg \in Pages
                                           /\ \E i \in DOMAIN partial' : partial'[i] = call'[x].pg
    PROVE  OldInv'
<1> SUFFICES ASSUME NEW y \in Ctx \ {x}
             PROVE  /\ call'[y].at \in {"lock", "slab_cmpxchg"}
                          => fp'[call'[y].obj] = call'[y].old.freelist
                    /\ call'[y].at = "lock" => NeedsList(call'[y].old)
                    /\ call'[y].at = "slab_cmpxchg" => (list_lock' = y <=> NeedsList(call'[y].old))
                    /\ call'[y].at = "acquire_slab"
                          => /\ call'[y].pg \in Pages
                             /\ \E i \in DOMAIN partial' : partial'[i] = call'[y].pg
  BY DEF OldInv, NeedsList
<1>1. /\ call'[y].at = call[y].at /\ call'[y].obj = call[y].obj /\ call'[y].old = call[y].old
      /\ call'[y].pg = call[y].pg /\ (list_lock' = y <=> list_lock = y)
  BY DEF Steps, Others
<1>2. call[y].at \in {"lock", "slab_cmpxchg"} => fp'[call[y].obj] = fp[call[y].obj]
  <2>1. call[y].at \in {"lock", "slab_cmpxchg"}
           => call[y].obj \in Objects /\ pl[call[y].obj] = InCall(y)
    BY DEF PlaceInv, FreePC
  <2> QED BY <2>1 DEF KeepsLinks
<1> QED BY <1>1, <1>2 DEF OldInv

LEMMA SlowStep ==
    ASSUME TypeOK, IrqInv, SlowInv, NEW x \in Ctx, Steps(x),
           \A y \in Ctx \ {x} : y \notin Neighbours(x) => C(y)' = C(y),
           \A y \in Neighbours(x) :
              TwoLevels /\ level[x] = 1 /\ call[y].at = "slow" /\ C(x)'.page = NULL
                 => C(x)' = C(x) \/ C(x)'.freelist = NULL,
           call'[x].at \in RefillPC => C(x)'.page = NULL,
           TwoLevels /\ call'[x].at \in RefillPC \cup {"slow"} /\ C(x)'.page = NULL
              => C(x)'.freelist = NULL
    PROVE  SlowInv'
<1>1. ASSUME NEW y \in Ctx \ {x}, call[y].at \in RefillPC PROVE C(y)' = C(y)
  <2>1. IrqsOff(y)
    BY <1>1 DEF IrqsOff, RefillPC
  <2> QED BY <2>1, Alone DEF Steps
<1>2. ASSUME NEW y \in Ctx \ {x}, call[y].at = "slow", TwoLevels, C(y)'.page = NULL
      PROVE  C(y)'.freelist = NULL
  <2>1. CASE y \notin Neighbours(x)
    <3>1. C(y)' = C(y)
      BY <2>1
    <3> QED BY <1>2, <3>1 DEF SlowInv
  <2>2. CASE y \in Neighbours(x)
    <3>1. level[y] < level[x]
      BY <1>2, <2>2, Alone DEF Steps
    <3>2. level[x] = 1
      BY <1>2, <3>1 DEF TwoLevels
    <3>3. C(y) = C(x) /\ C(y)' = C(x)'
      BY <2>2 DEF C, Neighbours
    <3>4. C(y)' = C(y) \/ C(y)'.freelist = NULL
      BY <1>2, <2>2, <3>2, <3>3
    <3>5. C(y).page = NULL => C(y).freelist = NULL
      BY <1>2 DEF SlowInv
    <3> QED BY <1>2, <3>4, <3>5
  <2> QED BY <2>1, <2>2
<1>3. \A y \in Ctx \ {x} : call'[y].at = call[y].at
  BY DEF Steps, Others
<1>4. TwoLevels' = TwoLevels
  BY DEF TwoLevels
<1>5. \A y \in Ctx : call'[y].at \in RefillPC => C(y)'.page = NULL
  BY <1>1, <1>3 DEF SlowInv
<1>6. TwoLevels => \A y \in Ctx : call'[y].at \in RefillPC \cup {"slow"} /\ C(y)'.page = NULL
                                      => C(y)'.freelist = NULL
  <2> SUFFICES ASSUME TwoLevels, NEW y \in Ctx, call'[y].at \in RefillPC \cup {"slow"},
                      C(y)'.page = NULL
               PROVE  C(y)'.freelist = NULL
    OBVIOUS
  <2>1. CASE y = x
    BY <2>1
  <2>2. CASE y # x /\ call[y].at = "slow"
    BY <1>2, <2>2
  <2>3. CASE y # x /\ call[y].at \in RefillPC
    BY <1>1, <2>3 DEF SlowInv
  <2> QED BY <1>3, <2>1, <2>2, <2>3
<1> QED BY <1>4, <1>5, <1>6 DEF SlowInv, RefillPC

(* Slabs with free objects that belong to no CPU: those of the partial list. *)
Partly(p) == page[p].slab /\ ~ page[p].frozen /\ page[p].freelist # NULL

LEMMA PartialStep ==
    ASSUME TypeOK, \A y \in Ctx : call[y].at = "list" => call[y].obj \in Objects,
           PartialInv, NEW x \in Ctx, Steps(x), partial' = partial,
           call[x].at # "list", call'[x].at # "list",
           \A p \in Pages : Partly(p)' <=> Partly(p),
           \A p \in Pages : Partly(p) => page'[p].inuse <= page[p].inuse,
           page' \in [Pages -> Page]
    PROVE  PartialInv'
<1>1. \A y \in Ctx : /\ call'[y].at = "list" <=> call[y].at = "list"
                     /\ call[y].at = "list" => call'[y].obj = call[y].obj /\ call'[y].old = call[y].old
  BY DEF Steps, Others
<1>2. \A p \in Pages : Relisting(p)' <=> Relisting(p)
  BY <1>1 DEF Relisting, Slab
<1>3. \A p \in Pages : Listed(p)' <=> Listed(p)
  BY DEF Listed
<1>4. \A i, j \in DOMAIN partial' : partial'[i] = partial'[j] => i = j
  BY DEF PartialInv
<1>5. \A p \in Pages : ~ Relisting(p)' => (Listed(p)' <=> Partly(p)')
  BY <1>2, <1>3 DEF PartialInv, Partly
<1>6. ASSUME NEW y \in Ctx, call'[y].at = "list", NEW p \in Pages, p = Slab(call'[y].obj)
      PROVE  /\ Partly(p)' /\ page'[p].inuse < call'[y].old.inuse
             /\ Listed(p)' <=> call'[y].old.freelist # NULL
  <2>1. /\ call[y].at = "list" /\ call'[y].obj = call[y].obj /\ call'[y].old = call[y].old
        /\ p = Slab(call[y].obj)
    BY <1>1, <1>6
  <2>2. /\ Partly(p) /\ page[p].inuse < call[y].old.inuse
        /\ Listed(p) <=> call[y].old.freelist # NULL
    BY <2>1 DEF PartialInv, Partly
  <2>3. page[p].inuse \in Nat /\ page'[p].inuse \in Nat /\ call[y].old.inuse \in Nat
    BY <2>1 DEF TypeOK, Page, Call
  <2>4. page'[p].inuse < call[y].old.inuse
    BY <2>2, <2>3
  <2>5. Partly(p)' /\ (Listed(p)' <=> call[y].old.freelist # NULL)
    BY <1>3, <2>2
  <2> QED BY <2>1, <2>4, <2>5
<1>7. ASSUME NEW y \in Ctx, call'[y].at = "list"
      PROVE  LET p == Slab(call'[y].obj)
                 v == call'[y].old
             IN  /\ page'[p].slab /\ ~ page'[p].frozen /\ page'[p].freelist # NULL
                 /\ page'[p].inuse < v.inuse
                 /\ (\E i \in DOMAIN partial' : partial'[i] = p) <=> v.freelist # NULL
  <2>1. PICK p \in Pages : p = Slab(call'[y].obj)
    BY <1>1, <1>7, ObjectFacts
  <2>2. /\ Partly(p)' /\ page'[p].inuse < call'[y].old.inuse
        /\ Listed(p)' <=> call'[y].old.freelist # NULL
    BY <1>6, <1>7, <2>1
  <2> QED BY <2>1, <2>2 DEF Partly, Listed
<1> QED BY <1>4, <1>5, <1>7 DEF PartialInv, Partly, Listed, Slab

LEMMA FrozenFrame ==
    ASSUME FrozenInv, \A p \in Pages : page'[p].frozen = page[p].frozen,
           \A c \in Cpus : cpu_slab'[c].page = cpu_slab[c].page
    PROVE  FrozenInv'
<1>1. Cpus' = Cpus
  BY DEF Cpus
<1> QED BY <1>1 DEF FrozenInv

(* Lists outside the places L that a step concerns. *)
LEMMA ListsFrame ==
    ASSUME NEW pl, NEW rk, ListsInv(pl, rk), NEW pl2, NEW rk2, NEW L,
           \A p \in Pages : OnPage(p) \notin L => page'[p].freelist = page[p].freelist,
           \A c \in Cpus : OnCpu(c) \notin L => cpu_slab'[c].freelist = cpu_slab[c].freelist,
           \A o \in Objects : pl2[o] # pl[o] => pl[o] \in L /\ pl2[o] \in L,
           \A o \in Objects : pl[o] \notin L => fp'[o] = fp[o] /\ rk2[o] = rk[o]
    PROVE  /\ \A p \in Pages : OnPage(p) \notin L =>
                 /\ IsList(fp', pl2, rk2, OnPage(p), page'[p].freelist)
                 /\ Size(rk2, page'[p].freelist) = Size(rk, page[p].freelist)
           /\ \A c \in Cpus : OnCpu(c) \notin L =>
                 IsList(fp', pl2, rk2, OnCpu(c), cpu_slab'[c].freelist)
<1>1. ASSUME NEW l, l \notin L
      PROVE  /\ \A o \in Objects : pl2[o] = l <=> pl[o] = l
             /\ \A o \in Objects : pl[o] = l => fp'[o] = fp[o] /\ rk2[o] = rk[o]
  BY <1>1
<1>2. ASSUME NEW p \in Pages, OnPage(p) \notin L
      PROVE  /\ IsList(fp', pl2, rk2, OnPage(p), page'[p].freelist)
             /\ Size(rk2, page'[p].freelist) = Size(rk, page[p].freelist)
  <2>1. IsList(fp, pl, rk, OnPage(p), page[p].freelist)
    BY DEF ListsInv
  <2>2. page'[p].freelist = page[p].freelist
    BY <1>2
  <2> DEFINE l == OnPage(p)
  <2>3. /\ \A o \in Objects : pl2[o] = l <=> pl[o] = l
        /\ \A o \in Objects : pl[o] = l => fp'[o] = fp[o] /\ rk2[o] = rk[o]
    BY <1>1, <1>2
  <2> HIDE DEF l
  <2>4. /\ IsList(fp', pl2, rk2, l, page[p].freelist)
        /\ Size(rk2, page[p].freelist) = Size(rk, page[p].freelist)
    BY <2>1, <2>3, ListFrame DEF l
  <2> QED BY <2>2, <2>4 DEF l
<1>3. ASSUME NEW c \in Cpus, OnCpu(c) \notin L
      PROVE  IsList(fp', pl2, rk2, OnCpu(c), cpu_slab'[c].freelist)
  <2>1. IsList(fp, pl, rk, OnCpu(c), cpu_slab[c].freelist)
    BY DEF ListsInv
  <2>2. cpu_slab'[c].freelist = cpu_slab[c].freelist
    BY <1>3
  <2> DEFINE l == OnCpu(c)
  <2>3. /\ \A o \in Objects : pl2[o] = l <=> pl[o] = l
        /\ \A o \in Objects : pl[o] = l => fp'[o] = fp[o] /\ rk2[o] = rk[o]
    BY <1>1, <1>3
  <2> HIDE DEF l
  <2>4. IsList(fp', pl2, rk2, l, cpu_slab[c].freelist)
    BY <2>1, <2>3, ListFrame DEF l
  <2> QED BY <2>2, <2>4 DEF l
<1> QED BY <1>2, <1>3

(* With no list but those of L touched, the lists and counters are as they should. *)
ListsMove(pl, rk, pl2, rk2, L) ==
    /\ \A p \in Pages : OnPage(p) \notin L => page'[p] = page[p]
    /\ \A c \in Cpus : OnCpu(c) \notin L => cpu_slab'[c].freelist = cpu_slab[c].freelist
    /\ \A o \in Objects : pl2[o] # pl[o] => pl[o] \in L /\ pl2[o] \in L
    /\ \A o \in Objects : pl[o] \notin L => fp'[o] = fp[o] /\ rk2[o] = rk[o]
    /\ \A p \in Pages : OnPage(p) \in L =>
          /\ IsList(fp', pl2, rk2, OnPage(p), page'[p].freelist)
          /\ page'[p].slab => page'[p].inuse + Size(rk2, page'[p].freelist) = objects[p]
          /\ ~ page'[p].slab => page'[p] = Unused
    /\ \A c \in Cpus : OnCpu(c) \in L =>
          IsList(fp', pl2, rk2, OnCpu(c), cpu_slab'[c].freelist)

LEMMA ListsStep ==
    ASSUME NEW pl, NEW rk, ListsInv(pl, rk), PageInv(rk), NEW pl2, NEW rk2, NEW L,
           ListsMove(pl, rk, pl2, rk2, L)
    PROVE  ListsInv(pl2, rk2)' /\ PageInv(rk2)'
<1> USE DEF ListsMove
<1>1. /\ \A p \in Pages : OnPage(p) \notin L =>
                 /\ IsList(fp', pl2, rk2, OnPage(p), page'[p].freelist)
                 /\ Size(rk2, page'[p].freelist) = Size(rk, page[p].freelist)
      /\ \A c \in Cpus : OnCpu(c) \notin L =>
                 IsList(fp', pl2, rk2, OnCpu(c), cpu_slab'[c].freelist)
  BY ListsFrame
<1>2. \A p \in Pages : IsList(fp', pl2, rk2, OnPage(p), page'[p].freelist)
  BY <1>1
<1>3. \A c \in Cpus : IsList(fp', pl2, rk2, OnCpu(c), cpu_slab'[c].freelist)
  BY <1>1
<1>4. ListsInv(pl2, rk2)'
  <2>1. Cpus' = Cpus
    BY DEF Cpus
  <2>2. \A p \in Pages : IsList(fp, pl2, rk2, OnPage(p), page[p].freelist)'
    BY <1>2 DEF IsList, OnPage, Objects
  <2>3. \A c \in Cpus : IsList(fp, pl2, rk2, OnCpu(c), cpu_slab[c].freelist)'
    BY <1>3 DEF IsList, OnCpu, Objects
  <2> QED BY <2>1, <2>2, <2>3 DEF ListsInv, OnPage, OnCpu
<1>5. ASSUME NEW p \in Pages
      PROVE  /\ page'[p].slab => page'[p].inuse + Size(rk2, page'[p].freelist) = objects[p]
             /\ ~ page'[p].slab => page'[p] = Unused
  <2>1. CASE OnPage(p) \notin L
    <3>1. /\ page[p].slab => page[p].inuse + Size(rk, page[p].freelist) = objects[p]
          /\ ~ page[p].slab => page[p] = Unused
      BY DEF PageInv
    <3>2. page'[p] = page[p] /\ Size(rk2, page'[p].freelist) = Size(rk, page[p].freelist)
      BY <1>1, <2>1
    <3> QED BY <3>1, <3>2
  <2>2. CASE OnPage(p) \in L
    BY <2>2
  <2> QED BY <2>1, <2>2
<1>6. PageInv(rk2)'
  BY <1>5 DEF PageInv, Size, Unused
<1> QED BY <1>4, <1>6

LEMMA PlaceStep ==
    ASSUME NEW pl, PlaceInv(pl), NEW pl2 \in [Objects -> Places], NEW x \in Ctx, Steps(x),
           \A o \in Objects :
              /\ pl2[o] = WithUser <=> o \in held'
              /\ pl2[o] = Nowhere <=> ~ page'[Slab(o)].slab
              /\ \A p \in Pages : pl2[o] = OnPage(p) => Slab(o) = p
              /\ \A c \in Cpus : pl2[o] = OnCpu(c) /\ cpu_slab'[c].page # NULL
                                    => Slab(o) = cpu_slab'[c].page
              /\ pl2[o] = InCall(x) <=> call'[x].at \in FreePC /\ call'[x].obj = o
              /\ \A y \in Ctx \ {x} : pl2[o] = InCall(y) <=> pl[o] = InCall(y),
           call'[x].at \in FreePC \cup {"list"} => call'[x].obj \in Objects,
           TwoLevels => \A o \in Objects : pl2[o] # Lost
    PROVE  PlaceInv(pl2)'
<1>1. ASSUME NEW y \in Ctx \ {x}, NEW o \in Objects
      PROVE  pl2[o] = InCall(y) <=> call'[y].at \in FreePC /\ call'[y].obj = o
  BY DEF PlaceInv, Steps, Others
<1>2. \A y \in Ctx : call'[y].at \in FreePC \cup {"list"} => call'[y].obj \in Objects
  BY DEF PlaceInv, Steps, Others
<1>3. Objects' = Objects /\ Places' = Places /\ Cpus' = Cpus /\ TwoLevels' = TwoLevels
  BY DEF Objects, Places, Cpus, TwoLevels, OnPage, OnCpu, InCall, WithUser, Lost, Nowhere
<1> QED BY <1>1, <1>2, <1>3 DEF PlaceInv, FreePC, Slab, OnPage, OnCpu, InCall, WithUser, Lost, Nowhere

LEMMA PlaceSame ==
    ASSUME NEW pl, PlaceInv(pl), NEW x \in Ctx, Steps(x), held' = held,
           \A p \in Pages : page'[p].slab = page[p].slab,
           \A c \in Cpus : cpu_slab'[c].page = cpu_slab[c].page,
           call'[x].at \in FreePC <=> call[x].at \in FreePC,
           call[x].at \in FreePC => call'[x].obj = call[x].obj,
           call'[x].at # "list"
    PROVE  PlaceInv(pl)'
<1>1. pl \in [Objects -> Places] /\ \A o \in Objects : Slab(o) \in Pages
  BY ObjectFacts DEF PlaceInv
<1>2. ASSUME NEW o \in Objects
      PROVE  /\ pl[o] = WithUser <=> o \in held'
             /\ pl[o] = Nowhere <=> ~ page'[Slab(o)].slab
             /\ \A p \in Pages : pl[o] = OnPage(p) => Slab(o) = p
             /\ \A c \in Cpus : pl[o] = OnCpu(c) /\ cpu_slab'[c].page # NULL
                                   => Slab(o) = cpu_slab'[c].page
             /\ pl[o] = InCall(x) <=> call'[x].at \in FreePC /\ call'[x].obj = o
  BY <1>1 DEF PlaceInv
<1>3. call'[x].at \in FreePC \cup {"list"} => call'[x].obj \in Objects
  BY DEF PlaceInv
<1>4. TwoLevels => \A o \in Objects : pl[o] # Lost
  BY DEF PlaceInv
<1> QED BY <1>1, <1>2, <1>3, <1>4, PlaceStep

(* Steps that change nothing but the call and the lock. *)
LEMMA CallStep ==
    ASSUME NEW pl, NEW rk, Inv(pl, rk), NEW x \in Ctx, Steps(x), call' \in [Ctx -> Call],
           UNCHANGED <<page, fp, cpu_slab, partial, held>>, list_lock' \in Ctx \cup {NULL},
           bug' = FALSE, call[x].at # "list", call'[x].at # "list",
           call'[x].at \in FreePC <=> call[x].at \in FreePC,
           call[x].at \in FreePC => call'[x].obj = call[x].obj,
           list_lock' = x => call'[x].at \in {"acquire_slab", "slab_cmpxchg"},
           call'[x].at = "acquire_slab" => /\ list_lock' = x /\ call'[x].pg \in Pages
                                           /\ \E i \in DOMAIN partial : partial[i] = call'[x].pg,
           call'[x].at # "free_cmpxchg",
           call'[x].at = "alloc_cmpxchg" => C(x).freelist = call'[x].obj
                             /\ call'[x].obj # NULL /\ call'[x].next = fp[call'[x].obj],
           call'[x].at \in {"lock", "slab_cmpxchg"} => /\ fp[call'[x].obj] = call'[x].old.freelist
                                                       /\ NeedsList(call'[x].old)
                                                             <=> (call'[x].at = "lock" \/ list_lock' = x),
           call'[x].at \in RefillPC => C(x).page = NULL,
           TwoLevels /\ call'[x].at \in RefillPC \cup {"slow"} /\ C(x).page = NULL
              => C(x).freelist = NULL
    PROVE  Inv(pl, rk)'
<1>0. /\ TypeOK /\ ListsInv(pl, rk) /\ PlaceInv(pl) /\ PageInv(rk)
      /\ FrozenInv /\ TidInv /\ IrqInv /\ SlowInv /\ OldInv /\ PartialInv /\ BootInv
  BY DEF Inv
<1>1. TypeOK'
  BY <1>0 DEF TypeOK, Steps, Page, Call, Cpus, Objects
<1>2. ListsInv(pl, rk)' /\ PageInv(rk)'
  <2>1. ListsMove(pl, rk, pl, rk, {})
    BY DEF ListsMove
  <2> QED BY <1>0, <2>1, ListsStep
<1>3. PlaceInv(pl)'
  BY <1>0, PlaceSame
<1>4. FrozenInv'
  BY <1>0, FrozenFrame
<1>5. KeepsLinks(x, pl) /\ \A y \in Ctx : C(y)' = C(y)
  BY DEF KeepsLinks, C
<1>6. TidInv'
  BY <1>0, <1>5, TidStep
<1>7. IrqInv'
  BY <1>0, IrqStep
<1>8. SlowInv'
  BY <1>0, <1>5, SlowStep
<1>9. OldInv'
  BY <1>0, <1>5, OldStep
<1>10. PartialInv'
  <2>1. \A y \in Ctx : call[y].at = "list" => call[y].obj \in Objects
    BY <1>0 DEF PlaceInv
  <2>2. /\ \A p \in Pages : Partly(p)' <=> Partly(p)
        /\ \A p \in Pages : page'[p].inuse <= page[p].inuse
        /\ page' \in [Pages -> Page]
    BY <1>0 DEF Partly, TypeOK, Page
  <2> QED BY <1>0, <2>1, <2>2, PartialStep
<1>11. BootInv'
  BY <1>0, BootStep
<1> QED BY <1>1, <1>2, <1>3, <1>4, <1>6, <1>7, <1>8, <1>9, <1>10, <1>11 DEF Inv, NoBug

-----------------------------------------------------------------------------
(* The actions that move no object *)

LEMMA ReadsObject ==
    ASSUME NEW pl, NEW rk, Inv(pl, rk), NEW x \in Ctx, ReadObject(x), Running(x),
           MayCall(x) \/ call[x].at = "alloc_cmpxchg",
           UNCHANGED <<page, fp, cpu_slab, partial, list_lock, held, smp>>, bug' = FALSE
    PROVE  Inv(pl, rk)'
<1>0. TypeOK /\ IrqInv
  BY DEF Inv
<1>1. C(x).freelist \in Objects \cup {NULL} /\ \A o \in Objects : fp[o] \in Objects \cup {NULL, UserData}
  BY <1>0 DEF TypeOK, C, Cpus
<1> DEFINE o == C(x).freelist
           k == IF o = NULL THEN [Idle EXCEPT !.at = "slow"]
                ELSE [Idle EXCEPT !.at = "alloc_cmpxchg", !.fresh = TRUE,
                                  !.obj = o, !.next = fp[o]]
<1>2. k \in Call
  BY <1>1, Records DEF Idle, Call
<1>3. /\ o = NULL => k.at = "slow" /\ ~ k.fresh
      /\ o # NULL => k.at = "alloc_cmpxchg" /\ k.obj = o /\ k.next = fp[o]
  BY DEF Idle
<1>4. call' = [call EXCEPT ![x] = k]
  BY DEF ReadObject
<1> HIDE DEF k
<1>5. call \in [Ctx -> Call]
  BY <1>0 DEF TypeOK
<1>6. /\ call' \in [Ctx -> Call] /\ call'[x] = k /\ Others(x)
  BY <1>2, <1>4, <1>5, SetCall
<1>7. Steps(x)
  BY <1>6 DEF Steps
<1>8. call[x].at \in {"idle", "alloc_cmpxchg"} /\ list_lock' # x
  BY <1>0 DEF MayCall, IrqInv
<1>9. call[x].at # "list" /\ call[x].at \notin FreePC
  BY <1>8 DEF FreePC
<1>10. call'[x].at \in {"slow", "alloc_cmpxchg"}
  BY <1>3, <1>6
<1>11. call'[x].at \notin FreePC \cup RefillPC \cup {"lock", "slab_cmpxchg", "list", "free_cmpxchg"}
  BY <1>10 DEF FreePC, RefillPC
<1>12. list_lock' \in Ctx \cup {NULL}
  BY <1>0 DEF TypeOK
<1>13. call'[x].at \in RefillPC \cup {"slow"} => C(x).freelist = NULL
  BY <1>3, <1>6, <1>11
<1>14. call'[x].at = "alloc_cmpxchg" => C(x).freelist = call'[x].obj
                             /\ call'[x].obj # NULL /\ call'[x].next = fp[call'[x].obj]
  BY <1>3, <1>6
<1> HIDE DEF o
<1> QED BY <1>6, <1>7, <1>8, <1>9, <1>10, <1>11, <1>12, <1>13, <1>14, CallStep

LEMMA StepAlloc ==
    ASSUME NEW pl, NEW rk, Inv(pl, rk), NEW x \in Ctx, kmem_cache_alloc(x) PROVE IInv'
<1>1. Inv(pl, rk)'
  BY ReadsObject DEF kmem_cache_alloc, MayCall
<1> QED BY <1>1 DEF IInv

(* A call that goes on to another place in the slow path of allocation. *)
LEMMA SlowGoes ==
    ASSUME NEW pl, NEW rk, Inv(pl, rk), NEW x \in Ctx, Running(x),
           call[x].at \in RefillPC \cup {"slow"}, C(x).page = NULL,
           UNCHANGED <<page, fp, cpu_slab, partial, held, smp>>, bug' = FALSE,
           NEW k \in Call, k.at \in {"idle"} \cup RefillPC,
           call' = [call EXCEPT ![x] = k],
           list_lock' = x <=> k.at = "acquire_slab",
           \A y \in Ctx \ {x} : list_lock' = y <=> list_lock = y, list_lock' \in Ctx \cup {NULL},
           k.at = "acquire_slab" => k.pg \in Pages /\ \E i \in DOMAIN partial : partial[i] = k.pg
    PROVE  Inv(pl, rk)'
<1>0. TypeOK /\ SlowInv
  BY DEF Inv
<1>1. call' \in [Ctx -> Call] /\ call'[x] = k /\ Others(x)
  BY <1>0, SetCall DEF TypeOK
<1>2. Steps(x)
  BY <1>1 DEF Steps, RefillPC
<1>3. call[x].at # "list" /\ call[x].at \notin FreePC
  BY DEF FreePC, RefillPC
<1>4. k.at \notin FreePC \cup {"slow", "lock", "slab_cmpxchg", "list", "alloc_cmpxchg", "free_cmpxchg"}
  BY DEF FreePC, RefillPC
<1>5. TwoLevels => C(x).freelist = NULL
  BY <1>0 DEF SlowInv
<1> QED BY <1>1, <1>2, <1>3, <1>4, <1>5, CallStep

LEMMA StepGetPartial ==
    ASSUME NEW pl, NEW rk, Inv(pl, rk), NEW x \in Ctx, get_partial(x) PROVE IInv'
<1>0. TypeOK /\ SlowInv /\ IrqInv
  BY DEF Inv
<1>1. call[x].at = "get_partial" /\ Running(x)
  BY DEF get_partial, At
<1>2. C(x).page = NULL /\ list_lock # x /\ call[x] \in Call
  BY <1>0, <1>1 DEF SlowInv, RefillPC, IrqInv, TypeOK
<1> DEFINE k == [call[x] EXCEPT !.at = IF partial = <<>> THEN "new_slab" ELSE "lock_partial"]
<1>3. call' = [call EXCEPT ![x] = k]
  BY <1>0 DEF get_partial, Goto, TypeOK, Call
<1>4. k \in Call /\ k.at \in {"new_slab", "lock_partial"}
  BY <1>2 DEF Call
<1> HIDE DEF k
<1>5. Inv(pl, rk)'
  BY <1>0, <1>1, <1>2, <1>3, <1>4, SlowGoes DEF get_partial, RefillPC, TypeOK
<1> QED BY <1>5 DEF IInv

LEMMA StepLockPartial ==
    ASSUME NEW pl, NEW rk, Inv(pl, rk), NEW x \in Ctx, lock_partial(x) PROVE IInv'
<1>0. TypeOK /\ SlowInv /\ IrqInv /\ PartialInv
  BY DEF Inv
<1>1. call[x].at = "lock_partial" /\ Running(x) /\ list_lock = NULL
  BY DEF lock_partial, At
<1>2. C(x).page = NULL /\ call[x] \in Call
  BY <1>0, <1>1 DEF SlowInv, RefillPC, TypeOK
<1>3. NULL \notin Ctx
  BY SlubAssumption
<1>4. CASE partial = <<>>
  <2> DEFINE k == [call[x] EXCEPT !.at = "new_slab"]
  <2>1. call' = [call EXCEPT ![x] = k] /\ bug' = FALSE /\ list_lock' = list_lock
    BY <1>0, <1>4 DEF lock_partial, Goto, TypeOK, Call
  <2>2. k \in Call /\ k.at = "new_slab"
    BY <1>2 DEF Call
  <2> HIDE DEF k
  <2>3. Inv(pl, rk)'
    BY <1>0, <1>1, <1>2, <1>3, <2>1, <2>2, SlowGoes DEF lock_partial, RefillPC, TypeOK
  <2> QED BY <2>3 DEF IInv
<1>5. CASE partial # <<>>
  <2> DEFINE p == Head(partial)
             k == [call[x] EXCEPT !.at = "acquire_slab", !.pg = p, !.old = page[p]]
  <2>1. /\ call' = [call EXCEPT ![x] = k] /\ list_lock' = x
        /\ bug' = (page[p].frozen \/ page[p].freelist = NULL)
    BY <1>0, <1>5 DEF lock_partial, TypeOK, Call
  <2>2. p \in Pages /\ 1 \in DOMAIN partial /\ partial[1] = p
    BY <1>0, <1>5 DEF TypeOK
  <2>3. page[p] \in Page
    BY <1>0, <2>2 DEF TypeOK
  <2>4. k \in Call /\ k.at = "acquire_slab" /\ k.pg = p
    BY <1>2, <2>2, <2>3 DEF Call
  <2>5. ~ Relisting(p)
    BY <1>0, <1>1, <1>3 DEF Relisting, IrqInv
  <2>6. ~ page[p].frozen /\ page[p].freelist # NULL
    BY <1>0, <2>2, <2>5 DEF PartialInv, Listed
  <2>7. bug' = FALSE
    BY <2>1, <2>6
  <2>8. \E i \in DOMAIN partial : partial[i] = k.pg
    BY <2>2, <2>4
  <2> HIDE DEF k, p
  <2>9. Inv(pl, rk)'
    <3>1. UNCHANGED <<page, fp, cpu_slab, partial, held, smp>>
      BY DEF lock_partial
    <3>2. call[x].at \in RefillPC \cup {"slow"} /\ k.at \in {"idle"} \cup RefillPC
      BY <1>1, <2>4 DEF RefillPC
    <3>3. /\ list_lock' = x <=> k.at = "acquire_slab"
          /\ \A y \in Ctx \ {x} : list_lock' = y <=> list_lock = y
          /\ list_lock' \in Ctx \cup {NULL}
      BY <1>1, <1>3, <2>1, <2>4
    <3> QED BY <1>1, <1>2, <2>1, <2>2, <2>4, <2>7, <2>8, <3>1, <3>2, <3>3, SlowGoes
  <2> QED BY <2>9 DEF IInv
<1> QED BY <1>4, <1>5

LEMMA StepLock ==
    ASSUME NEW pl, NEW rk, Inv(pl, rk), NEW x \in Ctx, slab_free_lock(x) PROVE IInv'
<1>0. TypeOK /\ OldInv
  BY DEF Inv
<1>1. call[x].at = "lock" /\ Running(x) /\ list_lock = NULL /\ list_lock' = x
  BY DEF slab_free_lock, At
<1>2. call[x] \in Call /\ NULL \notin Ctx
  BY <1>0, SlubAssumption DEF TypeOK
<1> DEFINE k == [call[x] EXCEPT !.at = "slab_cmpxchg"]
<1>3. call' = [call EXCEPT ![x] = k]
  BY <1>0 DEF slab_free_lock, Goto, TypeOK, Call
<1>4. k \in Call /\ k.at = "slab_cmpxchg" /\ k.obj = call[x].obj /\ k.old = call[x].old
  BY <1>2 DEF Call
<1> HIDE DEF k
<1>5. call' \in [Ctx -> Call] /\ call'[x] = k /\ Others(x)
  BY <1>0, <1>3, <1>4, SetCall DEF TypeOK
<1>6. Steps(x)
  BY <1>1, <1>2, <1>5 DEF Steps, slab_free_lock
<1>7. NeedsList(call[x].old) /\ fp[call[x].obj] = call[x].old.freelist
  BY <1>0, <1>1 DEF OldInv
<1>8. k.at \in FreePC /\ call[x].at \in FreePC /\ k.at \notin RefillPC
  BY <1>1, <1>4 DEF FreePC, RefillPC
<1>9. Inv(pl, rk)'
  BY <1>1, <1>4, <1>5, <1>6, <1>7, <1>8, CallStep DEF slab_free_lock
<1> QED BY <1>9 DEF IInv

LEMMA StepSmp ==
    ASSUME NEW pl, NEW rk, Inv(pl, rk), smp_up PROVE IInv'
<1>0. UNCHANGED <<page, fp, cpu_slab, partial, list_lock, call, held>> /\ smp' = TRUE /\ bug' = FALSE
  BY DEF smp_up
<1>1. TypeOK'
  BY <1>0 DEF Inv, TypeOK, Page, Call, Cpus, Objects
<1>2. ListsInv(pl, rk)' /\ PlaceInv(pl)' /\ PageInv(rk)' /\ FrozenInv' /\ TidInv' /\ SlowInv' /\ OldInv'
  BY <1>0 DEF Inv, ListsInv, PlaceInv, PageInv, FrozenInv, TidInv, SlowInv, OldInv, C
<1>3. IrqInv' /\ PartialInv' /\ BootInv' /\ NoBug'
  BY <1>0 DEF Inv, IrqInv, IrqsOff, PartialInv, Relisting, Listed, BootInv, NoBug
<1>4. Inv(pl, rk)'
  BY <1>1, <1>2, <1>3 DEF Inv
<1> QED BY <1>4 DEF IInv

-----------------------------------------------------------------------------
(* The actions on objects *)

(* x is freeing o and writes its link. *)
LEMMA FreeLink ==
    ASSUME NEW pl, NEW rk, Inv(pl, rk), NEW x \in Ctx, Steps(x), call' \in [Ctx -> Call],
           UNCHANGED <<page, cpu_slab, partial, list_lock>>, bug' = FALSE, list_lock # x,
           call[x].at # "list", NEW o \in Objects, pl[o] \in {WithUser, InCall(x)},
           pl[o] = WithUser => call[x].at \notin FreePC,
           held' = held \ {o}, fp' \in [Objects -> Objects \cup {NULL, UserData}],
           \A q \in Objects \ {o} : fp'[q] = fp[q],
           call'[x].at \in {"free_cmpxchg", "slab_free", "lock", "slab_cmpxchg"},
           call'[x].obj = o,
           call'[x].at = "free_cmpxchg" => fp'[o] = C(x).freelist /\ C(x).page = Slab(o),
           call'[x].at \in {"lock", "slab_cmpxchg"} =>
              /\ fp'[o] = call'[x].old.freelist
              /\ NeedsList(call'[x].old) <=> call'[x].at = "lock"
    PROVE  IInv'
<1>0. /\ TypeOK /\ ListsInv(pl, rk) /\ PlaceInv(pl) /\ PageInv(rk)
      /\ FrozenInv /\ TidInv /\ IrqInv /\ SlowInv /\ OldInv /\ PartialInv /\ BootInv
  BY DEF Inv
<1> DEFINE pl2 == [pl EXCEPT ![o] = InCall(x)]
<1>1. TypeOK'
  BY <1>0 DEF TypeOK, Steps, Page, Call, Cpus, Objects
<1>2. /\ pl \in [Objects -> Places] /\ pl2 \in [Objects -> Places] /\ pl2[o] = InCall(x)
      /\ \A q \in Objects \ {o} : pl2[q] = pl[q]
  BY <1>0, PlacesIn DEF PlaceInv
<1> HIDE DEF pl2
<1>3. ListsInv(pl2, rk)' /\ PageInv(rk)'
  <2> DEFINE L == {WithUser, InCall(x)}
  <2>1. /\ \A p \in Pages : OnPage(p) \notin L
        /\ \A c \in Cpus : OnCpu(c) \notin L
    BY PlacesApart
  <2>2. /\ \A q \in Objects : pl2[q] # pl[q] => pl[q] \in L /\ pl2[q] \in L
        /\ \A q \in Objects : pl[q] \notin L => fp'[q] = fp[q]
    BY <1>2
  <2> HIDE DEF L
  <2>m. ListsMove(pl, rk, pl2, rk, L)
    BY <2>1, <2>2 DEF ListsMove
  <2> QED BY <1>0, <2>m, ListsStep
<1>4. \A q \in Objects : pl[q] = InCall(x) <=> call[x].at \in FreePC /\ call[x].obj = q
  BY <1>0 DEF PlaceInv
<1>5. PlaceInv(pl2)'
  <2>1. call'[x].at \in FreePC
    BY DEF FreePC
  <2>2. ASSUME NEW q \in Objects
        PROVE  /\ pl2[q] = WithUser <=> q \in held'
               /\ pl2[q] = Nowhere <=> ~ page'[Slab(q)].slab
               /\ \A p \in Pages : pl2[q] = OnPage(p) => Slab(q) = p
               /\ \A c \in Cpus : pl2[q] = OnCpu(c) /\ cpu_slab'[c].page # NULL
                                     => Slab(q) = cpu_slab'[c].page
               /\ pl2[q] = InCall(x) <=> call'[x].at \in FreePC /\ call'[x].obj = q
               /\ \A y \in Ctx \ {x} : pl2[q] = InCall(y) <=> pl[q] = InCall(y)
    <3>1. CASE q = o
      <4>1. page[Slab(o)].slab
        BY <1>0, PlacesApart DEF PlaceInv
      <4> QED BY <1>2, <2>1, <3>1, <4>1, PlacesApart
    <3>2. CASE q # o
      <4>1. pl2[q] = pl[q] /\ pl[q] # InCall(x)
        BY <1>2, <1>4, <3>2
      <4> QED BY <1>0, <3>2, <4>1 DEF PlaceInv
    <3> QED BY <3>1, <3>2
  <2>3. TwoLevels => \A q \in Objects : pl2[q] # Lost
    BY <1>0, <1>2, PlacesApart DEF PlaceInv
  <2> QED BY <1>0, <1>2, <2>2, <2>3, PlaceStep
<1>6. FrozenInv'
  BY <1>0, FrozenFrame
<1>7. KeepsLinks(x, pl) /\ \A y \in Ctx : C(y)' = C(y)
  BY PlacesApart DEF KeepsLinks, C
<1>8. TidInv'
  <2>1. Slab(o)' = Slab(o)
    BY DEF Slab
  <2> QED BY <1>0, <1>7, TidStep
<1>9. IrqInv'
  BY <1>0, IrqStep
<1>10. SlowInv'
  BY <1>0, <1>7, SlowStep DEF RefillPC
<1>11. OldInv'
  BY <1>0, <1>7, OldStep
<1>12. PartialInv'
  <2>1. \A y \in Ctx : call[y].at = "list" => call[y].obj \in Objects
    BY <1>0 DEF PlaceInv
  <2>2. /\ \A p \in Pages : Partly(p)' <=> Partly(p)
        /\ \A p \in Pages : page'[p].inuse <= page[p].inuse
        /\ page' \in [Pages -> Page]
    BY <1>0 DEF Partly, TypeOK, Page
  <2> QED BY <1>0, <2>1, <2>2, PartialStep
<1>13. BootInv'
  BY <1>0, BootStep
<1>14. Inv(pl2, rk)'
  BY <1>1, <1>3, <1>5, <1>6, <1>8, <1>9, <1>10, <1>11, <1>12, <1>13 DEF Inv, NoBug
<1> QED BY <1>14 DEF IInv

LEMMA LinksToCpu ==
    ASSUME NEW pl, NEW rk, Inv(pl, rk), NEW x \in Ctx, NEW o \in Objects, LinkToCpu(x, o),
           Running(x), \/ MayCall(x) /\ o \in held /\ held' = held \ {o}
                       \/ call[x].at = "free_cmpxchg" /\ call[x].obj = o /\ held' = held,
           UNCHANGED <<page, cpu_slab, partial, list_lock, smp>>, bug' = FALSE
    PROVE  IInv'
<1>0. TypeOK /\ PlaceInv(pl) /\ IrqInv
  BY DEF Inv
<1>1. C(x).freelist \in Objects \cup {NULL}
  BY <1>0 DEF TypeOK, C, Cpus
<1> DEFINE k == IF Slab(o) = C(x).page
                THEN [Idle EXCEPT !.at = "free_cmpxchg", !.obj = o, !.fresh = TRUE]
                ELSE [Idle EXCEPT !.at = "slab_free", !.obj = o]
<1>2. k \in Call /\ k.obj = o /\ k.at = IF Slab(o) = C(x).page THEN "free_cmpxchg" ELSE "slab_free"
  BY Records DEF Idle, Call
<1>3. call' = [call EXCEPT ![x] = k]
  BY DEF LinkToCpu
<1> HIDE DEF k
<1>4. call' \in [Ctx -> Call] /\ call'[x] = k /\ Others(x)
  BY <1>0, <1>2, <1>3, SetCall DEF TypeOK
<1>5. Steps(x)
  BY <1>4 DEF Steps
<1>6. call[x].at \in {"idle", "free_cmpxchg"} /\ list_lock # x
  BY <1>0 DEF MayCall, IrqInv
<1>7. /\ fp' \in [Objects -> Objects \cup {NULL, UserData}]
      /\ \A q \in Objects \ {o} : fp'[q] = fp[q]
      /\ Slab(o) = C(x).page => fp'[o] = C(x).freelist
  BY <1>0, <1>1 DEF LinkToCpu, TypeOK
<1>a. /\ call'[x].obj = o /\ call'[x].at \in {"free_cmpxchg", "slab_free"}
      /\ call'[x].at = "free_cmpxchg" => fp'[o] = C(x).freelist /\ C(x).page = Slab(o)
  BY <1>2, <1>4, <1>7
<1>8. CASE MayCall(x) /\ o \in held /\ held' = held \ {o}
  <2>1. pl[o] = WithUser /\ call[x].at \notin FreePC
    BY <1>0, <1>8 DEF PlaceInv, MayCall, FreePC
  <2> QED BY <1>a, <1>4, <1>5, <1>6, <1>7, <1>8, <2>1, FreeLink
<1>9. CASE call[x].at = "free_cmpxchg" /\ call[x].obj = o /\ held' = held
  <2>1. pl[o] = InCall(x)
    BY <1>0, <1>9 DEF PlaceInv, FreePC
  <2>2. o \notin held
    BY <1>0, <2>1, PlacesApart DEF PlaceInv
  <2>3. /\ held' = held \ {o} /\ pl[o] \in {WithUser, InCall(x)}
        /\ pl[o] = WithUser => call[x].at \notin FreePC
    BY <1>9, <2>1, <2>2, PlacesApart
  <2> QED BY <1>a, <1>4, <1>5, <1>6, <1>7, <2>3, FreeLink
<1> QED BY <1>8, <1>9

LEMMA StepFree ==
    ASSUME NEW pl, NEW rk, Inv(pl, rk), NEW x \in Ctx, NEW o \in Objects, kmem_cache_free(x, o)
    PROVE  IInv'
BY LinksToCpu DEF kmem_cache_free, MayCall

LEMMA StepSlabFree ==
    ASSUME NEW pl, NEW rk, Inv(pl, rk), NEW x \in Ctx, slab_free(x) PROVE IInv'
<1>0. TypeOK /\ PlaceInv(pl) /\ IrqInv
  BY DEF Inv
<1>1. call[x].at = "slab_free" /\ Running(x)
  BY DEF slab_free, At
<1>2. PICK o \in Objects : o = call[x].obj /\ pl[o] = InCall(x) /\ Slab(o) \in Pages
  BY <1>0, <1>1, ObjectFacts DEF PlaceInv, FreePC
<1> DEFINE v == page[Slab(o)]
           k == [call[x] EXCEPT !.old = v, !.at = IF NeedsList(v) THEN "lock" ELSE "slab_cmpxchg"]
<1>3. v \in Page /\ v.freelist \in Objects \cup {NULL} /\ call[x] \in Call
  BY <1>0, <1>2 DEF TypeOK, Page
<1>4. k \in Call /\ k.obj = o /\ k.old = v /\ k.at = IF NeedsList(v) THEN "lock" ELSE "slab_cmpxchg"
  BY <1>2, <1>3 DEF Call
<1>5. call' = [call EXCEPT ![x] = k]
  BY <1>0, <1>2 DEF slab_free, TypeOK, Call
<1>6. /\ fp' = [fp EXCEPT ![o] = v.freelist] /\ bug' = FALSE
      /\ UNCHANGED <<page, cpu_slab, partial, list_lock, held, smp>>
  BY <1>2 DEF slab_free
<1> HIDE DEF k, v
<1>7. call' \in [Ctx -> Call] /\ call'[x] = k /\ Others(x)
  BY <1>0, <1>4, <1>5, SetCall DEF TypeOK
<1>8. Steps(x)
  BY <1>1, <1>6, <1>7 DEF Steps
<1>9. list_lock # x
  BY <1>0, <1>1 DEF IrqInv
<1>10. /\ fp' \in [Objects -> Objects \cup {NULL, UserData}]
       /\ \A q \in Objects \ {o} : fp'[q] = fp[q]
       /\ fp'[o] = v.freelist
  BY <1>0, <1>2, <1>3, <1>6 DEF TypeOK
<1>11. /\ held' = held \ {o} /\ pl[o] \in {WithUser, InCall(x)}
       /\ pl[o] = WithUser => call[x].at \notin FreePC
  BY <1>0, <1>2, <1>6, PlacesApart DEF PlaceInv
<1>12. /\ call'[x].obj = o /\ call'[x].at \in {"lock", "slab_cmpxchg"}
       /\ fp'[o] = call'[x].old.freelist
       /\ NeedsList(call'[x].old) <=> call'[x].at = "lock"
  BY <1>4, <1>7, <1>10
<1> QED BY <1>1, <1>6, <1>7, <1>8, <1>9, <1>10, <1>11, <1>12, FreeLink

(* What setting the freelist and the slab of a CPU leaves alone. *)
LEMMA SetCpu ==
    ASSUME TypeOK, NEW x \in Ctx, NEW h \in Objects \cup {NULL}, NEW p \in Pages \cup {NULL},
           SetC(x, [freelist |-> h, page |-> p])
    PROVE  /\ smp_processor_id[x] \in Cpus /\ C(x) = cpu_slab[smp_processor_id[x]]
           /\ cpu_slab' \in [Cpus -> [freelist : Objects \cup {NULL}, page : Pages \cup {NULL}]]
           /\ C(x)' = [freelist |-> h, page |-> p]
           /\ cpu_slab'[smp_processor_id[x]] = [freelist |-> h, page |-> p]
           /\ \A c \in Cpus \ {smp_processor_id[x]} : cpu_slab'[c] = cpu_slab[c]
           /\ \A y \in Ctx \ {x} : y \notin Neighbours(x) => C(y)' = C(y)
<1>1. smp_processor_id[x] \in Cpus /\ \A y \in Ctx : smp_processor_id[y] \in Cpus
  BY DEF Cpus
<1>2. cpu_slab' = [cpu_slab EXCEPT ![smp_processor_id[x]] = [freelist |-> h, page |-> p]]
  BY DEF SetC
<1>3. [freelist |-> h, page |-> p] \in [freelist : Objects \cup {NULL}, page : Pages \cup {NULL}]
  OBVIOUS
<1>4. cpu_slab \in [Cpus -> [freelist : Objects \cup {NULL}, page : Pages \cup {NULL}]]
  BY DEF TypeOK
<1>5. /\ cpu_slab' \in [Cpus -> [freelist : Objects \cup {NULL}, page : Pages \cup {NULL}]]
      /\ cpu_slab'[smp_processor_id[x]] = [freelist |-> h, page |-> p]
      /\ \A c \in Cpus \ {smp_processor_id[x]} : cpu_slab'[c] = cpu_slab[c]
  BY <1>1, <1>2, <1>3, <1>4
<1>6. \A y \in Ctx \ {x} : y \notin Neighbours(x) => C(y)' = C(y)
  BY <1>1, <1>5 DEF C, Neighbours
<1> QED BY <1>1, <1>5, <1>6 DEF C

(* Object o comes to or leaves the head of the CPU's list, with a new transaction id. *)
CpuMove(x, o, h, pl, rk, pl2, rk2) ==
    /\ Running(x) /\ call[x].at \in {"alloc_cmpxchg", "free_cmpxchg", "slow"} /\ Bump(x, Idle)
    /\ h \in Objects \cup {NULL} /\ SetC(x, [freelist |-> h, page |-> C(x).page])
    /\ UNCHANGED <<page, partial, list_lock, smp>> /\ bug' = FALSE
    /\ fp' \in [Objects -> Objects \cup {NULL, UserData}]
    /\ o \in Objects /\ \A q \in Objects \ {o} : fp'[q] = fp[q]
    /\ pl2 \in [Objects -> Places]
    /\ \A q \in Objects \ {o} : pl2[q] = pl[q] /\ rk2[q] = rk[q]
    /\ \/ /\ pl[o] = OnCpu(smp_processor_id[x]) /\ pl2[o] = WithUser
          /\ held' = held \cup {o} /\ call[x].at # "free_cmpxchg"
       \/ /\ pl[o] = InCall(x) /\ pl2[o] = OnCpu(smp_processor_id[x])
          /\ held' = held
    /\ C(x).page # NULL => Slab(o) = C(x).page
    /\ TwoLevels /\ level[x] = 1 /\ C(x).page = NULL => C(x).freelist # NULL
    /\ IsList(fp', pl2, rk2, OnCpu(smp_processor_id[x]), h)

LEMMA CpuStep ==
    ASSUME NEW pl, NEW rk, Inv(pl, rk), NEW x \in Ctx, NEW o, NEW h, NEW pl2, NEW rk2,
           CpuMove(x, o, h, pl, rk, pl2, rk2)
    PROVE  IInv'
<1> USE DEF CpuMove
<1>0. /\ TypeOK /\ ListsInv(pl, rk) /\ PlaceInv(pl) /\ PageInv(rk)
      /\ FrozenInv /\ TidInv /\ IrqInv /\ SlowInv /\ OldInv /\ PartialInv /\ BootInv
  BY DEF Inv
<1> DEFINE c == smp_processor_id[x]
<1>1. /\ call' \in [Ctx -> Call] /\ call'[x] = Idle /\ Others(x)
      /\ \A y \in Neighbours(x) : ~ call'[y].fresh
      /\ \A y \in Ctx \ {x} : y \notin Neighbours(x) => call'[y] = call[y]
  BY <1>0, Records, BumpCall DEF TypeOK
<1>2. /\ c \in Cpus /\ C(x) = cpu_slab[c]
      /\ cpu_slab' \in [Cpus -> [freelist : Objects \cup {NULL}, page : Pages \cup {NULL}]]
      /\ C(x)' = [freelist |-> h, page |-> C(x).page]
      /\ cpu_slab'[c] = [freelist |-> h, page |-> C(x).page]
      /\ \A d \in Cpus \ {c} : cpu_slab'[d] = cpu_slab[d]
      /\ \A y \in Ctx \ {x} : y \notin Neighbours(x) => C(y)' = C(y)
  <2>1. C(x).page \in Pages \cup {NULL}
    BY <1>0 DEF TypeOK, C, Cpus
  <2>2. PICK p \in Pages \cup {NULL} : p = C(x).page
    BY <2>1
  <2>3. SetC(x, [freelist |-> h, page |-> p]) /\ h \in Objects \cup {NULL}
    BY <2>2
  <2> QED BY <1>0, <2>2, <2>3, SetCpu
<1>3. /\ Idle.at = "idle" /\ ~ Idle.fresh
      /\ "idle" \notin FreePC \cup RefillPC \cup {"list", "slow"}
  BY DEF Idle, FreePC, RefillPC
<1>4. Steps(x)
  BY <1>1 DEF Steps
<1>5. list_lock # x
  BY <1>0 DEF IrqInv
<1>6. TypeOK'
  <2>1. held' \subseteq Objects
    BY <1>0 DEF TypeOK
  <2> QED BY <1>0, <1>1, <1>2, <2>1 DEF TypeOK, Page, Call, Cpus, Objects
<1>7. ListsInv(pl2, rk2)' /\ PageInv(rk2)'
  <2> DEFINE L == {WithUser, InCall(x), OnCpu(c)}
  <2>1. /\ \A p \in Pages : OnPage(p) \notin L
        /\ \A d \in Cpus : OnCpu(d) \in L <=> d = c
    BY PlacesApart
  <2>2. /\ \A q \in Objects : pl2[q] # pl[q] => pl[q] \in L /\ pl2[q] \in L
        /\ \A q \in Objects : pl[q] \notin L => fp'[q] = fp[q] /\ rk2[q] = rk[q]
    OBVIOUS
  <2> HIDE DEF L
  <2>3. \A d \in Cpus : OnCpu(d) \in L => IsList(fp', pl2, rk2, OnCpu(d), cpu_slab'[d].freelist)
    BY <1>2, <2>1
  <2>4. \A d \in Cpus : OnCpu(d) \notin L => cpu_slab'[d].freelist = cpu_slab[d].freelist
    BY <1>2, <2>1
  <2>5. \A p \in Pages : page'[p] = page[p]
    OBVIOUS
  <2> HIDE DEF CpuMove
  <2>m. ListsMove(pl, rk, pl2, rk2, L)
    BY <2>1, <2>2, <2>3, <2>4, <2>5 DEF ListsMove
  <2> QED BY <1>0, <2>m, ListsStep
<1>8. \A q \in Objects : pl[q] = InCall(x) <=> call[x].at \in FreePC /\ call[x].obj = q
  BY <1>0 DEF PlaceInv
<1>9. \A d \in Cpus : cpu_slab'[d].page = cpu_slab[d].page
  BY <1>2
<1>10. PlaceInv(pl2)'
  <2>2. ASSUME NEW q \in Objects
        PROVE  /\ pl2[q] = WithUser <=> q \in held'
               /\ pl2[q] = Nowhere <=> ~ page'[Slab(q)].slab
               /\ \A p \in Pages : pl2[q] = OnPage(p) => Slab(q) = p
               /\ \A d \in Cpus : pl2[q] = OnCpu(d) /\ cpu_slab'[d].page # NULL
                                     => Slab(q) = cpu_slab'[d].page
               /\ pl2[q] = InCall(x) <=> call'[x].at \in FreePC /\ call'[x].obj = q
               /\ \A y \in Ctx \ {x} : pl2[q] = InCall(y) <=> pl[q] = InCall(y)
    <3>1. CASE q = o
      <4>1. page[Slab(o)].slab /\ o \notin held
        BY <1>0, PlacesApart DEF PlaceInv
      <4>2. pl2[o] = OnCpu(c) \/ pl2[o] = WithUser
        OBVIOUS
      <4>3. \A d \in Cpus : pl2[o] = OnCpu(d) /\ cpu_slab'[d].page # NULL
                                     => Slab(o) = cpu_slab'[d].page
        BY <1>2, <1>9, <4>2, PlacesApart
      <4>4. /\ pl2[o] = WithUser <=> o \in held'
            /\ pl2[o] # Nowhere /\ page'[Slab(o)].slab
            /\ \A p \in Pages : pl2[o] # OnPage(p)
            /\ \A y \in Ctx : pl2[o] # InCall(y)
            /\ \A y \in Ctx \ {x} : pl[o] # InCall(y)
        BY <4>1, <4>2, PlacesApart
      <4> QED BY <1>1, <1>3, <3>1, <4>3, <4>4
    <3>2. CASE q # o
      <4>1. pl2[q] = pl[q] /\ pl[q] # InCall(x)
        BY <1>8, <3>2 DEF FreePC
      <4>2. q \in held' <=> q \in held
        BY <3>2
      <4> QED BY <1>0, <1>1, <1>3, <1>9, <4>1, <4>2 DEF PlaceInv
    <3> QED BY <3>1, <3>2
  <2>3. TwoLevels => \A q \in Objects : pl2[q] # Lost
    <3>1. pl2[o] # Lost
      BY PlacesApart
    <3> QED BY <1>0, <3>1 DEF PlaceInv
  <2> QED BY <1>0, <1>1, <1>3, <1>4, <2>2, <2>3, PlaceStep
<1>11. FrozenInv'
  BY <1>0, <1>9, FrozenFrame
<1>12. KeepsLinks(x, pl)
  <2>1. ASSUME NEW y \in Ctx \ {x}, pl[o] = InCall(y) \/ (call'[y].fresh /\ pl[o] = OnCpu(smp_processor_id[y]))
        PROVE  FALSE
    <3>1. pl[o] = OnCpu(c) /\ smp_processor_id[y] = c
      BY <2>1, PlacesApart
    <3>2. y \in Neighbours(x)
      BY <3>1 DEF Neighbours
    <3> QED BY <1>1, <2>1, <3>1, <3>2, PlacesApart
  <2> QED BY <2>1 DEF KeepsLinks
<1>13. TidInv'
  BY <1>0, <1>1, <1>2, <1>3, <1>4, <1>12, TidStep
<1>14. IrqInv'
  BY <1>0, <1>1, <1>3, <1>4, <1>5, IrqStep
<1>15. SlowInv'
  <2>1. ASSUME NEW y \in Neighbours(x), TwoLevels, level[x] = 1, call[y].at = "slow", C(x)'.page = NULL
        PROVE  FALSE
    <3>1. y \in Ctx /\ C(y) = C(x) /\ C(x).page = NULL
      BY <1>2, <2>1 DEF Neighbours, C
    <3>2. C(x).freelist = NULL
      BY <1>0, <2>1, <3>1 DEF SlowInv
    <3> QED BY <2>1, <3>1, <3>2
  <2> QED BY <1>0, <1>1, <1>2, <1>3, <1>4, <2>1, SlowStep
<1>16. OldInv'
  BY <1>0, <1>1, <1>3, <1>4, <1>12, OldStep
<1>17. PartialInv'
  <2>1. \A y \in Ctx : call[y].at = "list" => call[y].obj \in Objects
    BY <1>0 DEF PlaceInv
  <2>2. /\ \A p \in Pages : Partly(p)' <=> Partly(p)
        /\ \A p \in Pages : page'[p].inuse <= page[p].inuse
        /\ page' \in [Pages -> Page]
    BY <1>0 DEF Partly, TypeOK, Page
  <2> QED BY <1>0, <1>1, <1>3, <1>4, <2>1, <2>2, PartialStep
<1>18. BootInv'
  BY <1>0, <1>4, BootStep
<1>19. Inv(pl2, rk2)'
  BY <1>6, <1>7, <1>10, <1>11, <1>13, <1>14, <1>15, <1>16, <1>17, <1>18 DEF Inv, NoBug
<1> QED BY <1>19 DEF IInv

(* The head of the CPU's list goes to the caller. *)
LEMMA PopCpu ==
    ASSUME NEW pl, NEW rk, Inv(pl, rk), NEW x \in Ctx, Running(x),
           call[x].at \in {"alloc_cmpxchg", "slow"}, Bump(x, Idle), C(x).freelist # NULL,
           SetC(x, [freelist |-> fp[C(x).freelist], page |-> C(x).page]),
           Hand(C(x).freelist, fp), UNCHANGED <<page, partial, list_lock, smp>>, bug' = FALSE
    PROVE  IInv'
<1>0. TypeOK /\ ListsInv(pl, rk) /\ PlaceInv(pl)
  BY DEF Inv
<1> DEFINE c == smp_processor_id[x]
<1>1. c \in Cpus /\ IsList(fp, pl, rk, OnCpu(c), C(x).freelist)
  BY <1>0 DEF ListsInv, C, Cpus
<1>2. PICK o \in Objects : o = C(x).freelist /\ o # NULL /\ pl[o] = OnCpu(c)
  BY <1>1 DEF IsList
<1>3. IsList(fp, pl, rk, OnCpu(c), o)
  BY <1>1, <1>2
<1> DEFINE pl2 == [pl EXCEPT ![o] = WithUser]
<1>4. /\ pl2 \in [Objects -> Places] /\ pl2[o] = WithUser
      /\ \A q \in Objects \ {o} : pl2[q] = pl[q]
  BY <1>0, PlacesIn DEF PlaceInv
<1>5. /\ fp' \in [Objects -> Objects \cup {NULL, UserData}]
      /\ \A q \in Objects \ {o} : fp'[q] = fp[q]
      /\ held' = held \cup {o}
  BY <1>0, <1>2 DEF Hand, TypeOK
<1> HIDE DEF pl2
<1>6. /\ IsList(fp', pl2, rk, OnCpu(c), fp[o]) /\ fp[o] \in Objects \cup {NULL}
  BY <1>2, <1>3, <1>4, <1>5, PlacesApart, ListPop
<1>7. PICK h \in Objects \cup {NULL} : h = fp[o]
  BY <1>6
<1>8. IsList(fp', pl2, rk, OnCpu(c), h)
  BY <1>6, <1>7
<1>9. SetC(x, [freelist |-> h, page |-> C(x).page])
  BY <1>2, <1>7
<1>10. C(x).page # NULL => Slab(o) = C(x).page
  BY <1>0, <1>1, <1>2 DEF PlaceInv, C
<1>11. C(x).freelist # NULL /\ call[x].at # "free_cmpxchg"
  OBVIOUS
<1>12. \/ /\ pl[o] = OnCpu(smp_processor_id[x]) /\ pl2[o] = WithUser
          /\ held' = held \cup {o} /\ call[x].at # "free_cmpxchg"
       \/ /\ pl[o] = InCall(x) /\ pl2[o] = OnCpu(smp_processor_id[x])
          /\ held' = held
  BY <1>2, <1>4, <1>5, <1>11
<1>13. \A q \in Objects \ {o} : pl2[q] = pl[q] /\ rk[q] = rk[q]
  BY <1>4
<1>14. CpuMove(x, o, h, pl, rk, pl2, rk)
  BY <1>4, <1>5, <1>8, <1>9, <1>10, <1>11, <1>12, <1>13 DEF CpuMove
<1> QED BY <1>14, CpuStep

LEMMA StepFastAlloc ==
    ASSUME NEW pl, NEW rk, Inv(pl, rk), NEW x \in Ctx, fast_alloc(x) PROVE IInv'
<1>0. TypeOK /\ TidInv
  BY DEF Inv
<1>1. /\ call[x].at = "alloc_cmpxchg" /\ Running(x) /\ bug' = FALSE
      /\ UNCHANGED <<page, partial, list_lock, smp>>
  BY DEF fast_alloc, At
<1>2. CASE C(x).freelist = call[x].obj /\ TidUnchanged(x)
  <2>1. call[x].obj # NULL /\ call[x].next = fp[call[x].obj]
    BY <1>0, <1>1, <1>2 DEF TidInv, TidUnchanged
  <2>2. /\ SetC(x, [C(x) EXCEPT !.freelist = call[x].next])
        /\ Hand(call[x].obj, fp) /\ Bump(x, Idle)
    BY <1>2 DEF fast_alloc
  <2>3. C(x) \in [freelist : Objects \cup {NULL}, page : Pages \cup {NULL}]
    BY <1>0 DEF TypeOK, C, Cpus
  <2>4. [C(x) EXCEPT !.freelist = call[x].next] = [freelist |-> fp[C(x).freelist], page |-> C(x).page]
    BY <1>2, <2>1, <2>3
  <2>5. SetC(x, [freelist |-> fp[C(x).freelist], page |-> C(x).page]) /\ Hand(C(x).freelist, fp)
    BY <1>2, <2>2, <2>4
  <2> QED BY <1>1, <1>2, <2>1, <2>2, <2>5, PopCpu
<1>3. CASE ~ (C(x).freelist = call[x].obj /\ TidUnchanged(x))
  <2>1. ReadObject(x) /\ UNCHANGED <<cpu_slab, held, fp>>
    BY <1>3 DEF fast_alloc
  <2>2. Inv(pl, rk)'
    BY <1>1, <2>1, ReadsObject
  <2> QED BY <2>2 DEF IInv
<1> QED BY <1>2, <1>3

LEMMA StepFastFree ==
    ASSUME NEW pl, NEW rk, Inv(pl, rk), NEW x \in Ctx, fast_free(x) PROVE IInv'
<1>0. TypeOK /\ TidInv /\ ListsInv(pl, rk) /\ PlaceInv(pl)
  BY DEF Inv
<1>1. /\ call[x].at = "free_cmpxchg" /\ Running(x) /\ bug' = FALSE
      /\ UNCHANGED <<page, partial, list_lock, held, smp>>
  BY DEF fast_free, At
<1>2. PICK o \in Objects : o = call[x].obj /\ pl[o] = InCall(x)
  BY <1>0, <1>1 DEF PlaceInv, FreePC
<1>3. CASE TidUnchanged(x)
  <2> DEFINE c == smp_processor_id[x]
             pl2 == [pl EXCEPT ![o] = OnCpu(c)]
  <2>1. /\ fp[o] = C(x).freelist
        /\ \/ C(x).page = Slab(o)
           \/ C(x) = NoSlab /\ ~ (TwoLevels /\ level[x] = 1)
    BY <1>0, <1>1, <1>2, <1>3 DEF TidInv, TidUnchanged
  <2>2. C(x) \in [freelist : Objects \cup {NULL}, page : Pages \cup {NULL}] /\ c \in Cpus
    BY <1>0 DEF TypeOK, C, Cpus
  <2>3. SetC(x, [freelist |-> o, page |-> C(x).page]) /\ Bump(x, Idle) /\ fp' = fp
    <3>1. [C(x) EXCEPT !.freelist = call[x].obj] = [freelist |-> o, page |-> C(x).page]
      BY <1>2, <2>2
    <3> QED BY <1>3, <3>1 DEF fast_free
  <2>4. IsList(fp, pl, rk, OnCpu(c), C(x).freelist)
    BY <1>0, <2>2 DEF ListsInv, C
  <2>a. PICK s \in Nat : s = Size(rk, C(x).freelist)
    BY <2>4, SizeType
  <2> DEFINE rk2 == [q \in Objects |-> IF q = o THEN s + 1 ELSE rk[q]]
  <2>5. /\ pl2 \in [Objects -> Places] /\ pl2[o] = OnCpu(c)
        /\ \A q \in Objects \ {o} : pl2[q] = pl[q]
    BY <1>0, <2>2, PlacesIn DEF PlaceInv
  <2>6. rk2[o] = Size(rk, C(x).freelist) + 1 /\ \A q \in Objects \ {o} : rk2[q] = rk[q]
    BY <2>a
  <2> HIDE DEF pl2, rk2
  <2>7. IsList(fp, pl2, rk2, OnCpu(c), o)
    BY <1>2, <2>1, <2>4, <2>5, <2>6, PlacesApart, ListPush
  <2>8. IsList(fp', pl2, rk2, OnCpu(c), o)
    BY <2>3, <2>7
  <2>9. C(x).page # NULL => Slab(o) = C(x).page
    BY <2>1 DEF NoSlab
  <2>10. TwoLevels /\ level[x] = 1 /\ C(x).page = NULL => C(x).freelist # NULL
    <3>1. Slab(o) # NULL
      BY ObjectFacts
    <3> QED BY <2>1, <3>1
  <2>11. /\ fp' \in [Objects -> Objects \cup {NULL, UserData}]
         /\ \A q \in Objects \ {o} : fp'[q] = fp[q]
    BY <1>0, <2>3 DEF TypeOK
  <2>12. call[x].at \in {"alloc_cmpxchg", "free_cmpxchg", "slow"} /\ o \in Objects \cup {NULL}
    BY <1>1
  <2>13. \/ /\ pl[o] = OnCpu(smp_processor_id[x]) /\ pl2[o] = WithUser
            /\ held' = held \cup {o} /\ call[x].at # "free_cmpxchg"
         \/ /\ pl[o] = InCall(x) /\ pl2[o] = OnCpu(smp_processor_id[x])
            /\ held' = held
    BY <1>1, <1>2, <2>5
  <2>14. \A q \in Objects \ {o} : pl2[q] = pl[q] /\ rk2[q] = rk[q]
    BY <2>5, <2>6
  <2>15. CpuMove(x, o, o, pl, rk, pl2, rk2)
    BY <1>1, <2>3, <2>5, <2>8, <2>9, <2>10, <2>11, <2>12, <2>13, <2>14 DEF CpuMove
  <2> QED BY <2>15, CpuStep
<1>4. CASE ~ TidUnchanged(x)
  <2>1. LinkToCpu(x, o) /\ UNCHANGED cpu_slab
    BY <1>2, <1>4 DEF fast_free
  <2> QED BY <1>1, <1>2, <2>1, LinksToCpu
<1> QED BY <1>3, <1>4

(* Slab p becomes the CPU's with its free objects, of which o goes to the caller.
   What was on the list of the CPU is lost. *)
RefillMove(x, p, h, o, pl, rk, pl2, rk2) ==
    /\ Running(x) /\ call[x].at \in {"slow", "acquire_slab", "new_slab"} /\ Bump(x, Idle)
    /\ p \in Pages /\ h \in Objects \cup {NULL} /\ SetC(x, [freelist |-> h, page |-> p])
    /\ o \in Objects /\ held' = held \cup {o}
    /\ fp' \in [Objects -> Objects \cup {NULL, UserData}]
    /\ page' = [page EXCEPT ![p] = allocate_slab(p)]
    /\ partial' \in Seq(Pages) /\ PartialInv'
    /\ \A y \in Ctx \ {x} : call[y].at = "acquire_slab" => partial' = partial
    /\ list_lock' \in Ctx \cup {NULL} /\ list_lock' # x
    /\ \A y \in Ctx \ {x} : list_lock' = y <=> list_lock = y
    /\ smp' = smp /\ bug' = FALSE
    /\ C(x).page = p \/ (C(x).page = NULL /\ ~ page[p].frozen)
    /\ pl2 \in [Objects -> Places]
    /\ \A q \in Objects :
          LET c == smp_processor_id[x] IN
          /\ pl2[q] # pl[q] => /\ pl[q] \in {OnPage(p), OnCpu(c), Nowhere}
                               /\ pl2[q] \in {OnCpu(c), WithUser, Lost}
          /\ pl[q] \notin {OnPage(p), OnCpu(c), Nowhere} => fp'[q] = fp[q] /\ rk2[q] = rk[q]
          /\ pl2[q] = WithUser <=> q \in held'
          /\ pl2[q] = OnCpu(c) => Slab(q) = p
          /\ pl2[q] # OnPage(p)
          /\ pl2[q] = Nowhere <=> pl[q] = Nowhere /\ Slab(q) # p
          /\ TwoLevels => pl2[q] # Lost
    /\ IsList(fp', pl2, rk2, OnCpu(smp_processor_id[x]), h)

LEMMA Refill ==
    ASSUME NEW pl, NEW rk, Inv(pl, rk), NEW x \in Ctx, NEW p, NEW h, NEW o, NEW pl2, NEW rk2,
           RefillMove(x, p, h, o, pl, rk, pl2, rk2)
    PROVE  IInv'
<1>0. /\ TypeOK /\ ListsInv(pl, rk) /\ PlaceInv(pl) /\ PageInv(rk)
      /\ FrozenInv /\ TidInv /\ IrqInv /\ SlowInv /\ OldInv /\ PartialInv /\ BootInv
  BY DEF Inv
<1> DEFINE c == smp_processor_id[x]
           N == {OnPage(p), OnCpu(c), Nowhere}
<1>1. /\ call' \in [Ctx -> Call] /\ call'[x] = Idle /\ Others(x)
      /\ \A y \in Neighbours(x) : ~ call'[y].fresh
      /\ \A y \in Ctx \ {x} : y \notin Neighbours(x) => call'[y] = call[y]
  BY <1>0, Records, BumpCall DEF TypeOK, RefillMove
<1>2. /\ c \in Cpus /\ C(x) = cpu_slab[c]
      /\ cpu_slab' \in [Cpus -> [freelist : Objects \cup {NULL}, page : Pages \cup {NULL}]]
      /\ C(x)' = [freelist |-> h, page |-> p]
      /\ cpu_slab'[c] = [freelist |-> h, page |-> p]
      /\ \A d \in Cpus \ {c} : cpu_slab'[d] = cpu_slab[d]
      /\ \A y \in Ctx \ {x} : y \notin Neighbours(x) => C(y)' = C(y)
  BY <1>0, SetCpu DEF RefillMove
<1>3. /\ Idle.at = "idle" /\ ~ Idle.fresh
      /\ "idle" \notin FreePC \cup RefillPC \cup {"list", "slow"}
  BY DEF Idle, FreePC, RefillPC
<1>4. Steps(x)
  BY <1>1 DEF Steps, RefillMove
<1>5. allocate_slab(p) \in Page /\ p \in Pages /\ p # NULL /\ objects[p] \in Nat
  BY ObjectFacts DEF allocate_slab, Page, RefillMove
<1>6. /\ page' \in [Pages -> Page] /\ page'[p] = allocate_slab(p)
      /\ \A q \in Pages \ {p} : page'[q] = page[q]
  BY <1>0, <1>5 DEF RefillMove, TypeOK
<1>7. TypeOK'
  <2>1. held' \subseteq Objects
    BY <1>0 DEF TypeOK, RefillMove
  <2> QED BY <1>0, <1>1, <1>2, <1>6, <2>1 DEF TypeOK, Page, Call, Cpus, Objects, RefillMove
<1>a. /\ pl2 \in [Objects -> Places]
      /\ \A q \in Objects :
          /\ pl2[q] # pl[q] => pl[q] \in N /\ pl2[q] \in {OnCpu(c), WithUser, Lost}
          /\ pl[q] \notin N => fp'[q] = fp[q] /\ rk2[q] = rk[q]
          /\ pl2[q] = WithUser <=> q \in held'
          /\ pl2[q] = OnCpu(c) => Slab(q) = p
          /\ pl2[q] # OnPage(p)
          /\ pl2[q] = Nowhere <=> pl[q] = Nowhere /\ Slab(q) # p
          /\ TwoLevels => pl2[q] # Lost
      /\ IsList(fp', pl2, rk2, OnCpu(c), h)
  BY DEF RefillMove
<1>8. ListsInv(pl2, rk2)' /\ PageInv(rk2)'
  <2> DEFINE L == {OnPage(p), OnCpu(c), WithUser, Lost, Nowhere}
  <2>1. /\ \A q \in Pages : OnPage(q) \in L <=> q = p
        /\ \A d \in Cpus : OnCpu(d) \in L <=> d = c
    BY PlacesApart
  <2>2. /\ \A q \in Objects : pl2[q] # pl[q] => pl[q] \in L /\ pl2[q] \in L
        /\ \A q \in Objects : pl[q] \notin L => fp'[q] = fp[q] /\ rk2[q] = rk[q]
    BY <1>a
  <2> HIDE DEF L
  <2>3. \A d \in Cpus : OnCpu(d) \in L => IsList(fp', pl2, rk2, OnCpu(d), cpu_slab'[d].freelist)
    BY <1>2, <1>a, <2>1
  <2>4. \A d \in Cpus : OnCpu(d) \notin L => cpu_slab'[d].freelist = cpu_slab[d].freelist
    BY <1>2, <2>1
  <2>5. \A q \in Pages : OnPage(q) \notin L => page'[q] = page[q]
    BY <1>6, <2>1
  <2>6. page'[p].slab /\ page'[p].freelist = NULL /\ page'[p].inuse = objects[p]
    BY <1>6 DEF allocate_slab
  <2>7. IsList(fp', pl2, rk2, OnPage(p), NULL)
    BY <1>a, ListEmpty
  <2>8. page'[p].inuse + Size(rk2, page'[p].freelist) = objects[p]
    BY <1>5, <2>6 DEF Size
  <2>9. \A q \in Pages : OnPage(q) \in L =>
              /\ IsList(fp', pl2, rk2, OnPage(q), page'[q].freelist)
              /\ page'[q].slab => page'[q].inuse + Size(rk2, page'[q].freelist) = objects[q]
              /\ ~ page'[q].slab => page'[q] = Unused
    BY <2>1, <2>6, <2>7, <2>8
  <2>m. ListsMove(pl, rk, pl2, rk2, L)
    BY <2>2, <2>3, <2>4, <2>5, <2>9 DEF ListsMove
  <2> QED BY <1>0, <2>m, ListsStep
<1>9. PlaceInv(pl2)'
  <2>2. ASSUME NEW q \in Objects
        PROVE  /\ pl2[q] = WithUser <=> q \in held'
               /\ pl2[q] = Nowhere <=> ~ page'[Slab(q)].slab
               /\ \A r \in Pages : pl2[q] = OnPage(r) => Slab(q) = r
               /\ \A d \in Cpus : pl2[q] = OnCpu(d) /\ cpu_slab'[d].page # NULL
                                     => Slab(q) = cpu_slab'[d].page
               /\ pl2[q] = InCall(x) <=> call'[x].at \in FreePC /\ call'[x].obj = q
               /\ \A y \in Ctx \ {x} : pl2[q] = InCall(y) <=> pl[q] = InCall(y)
    <3>1. pl2[q] = Nowhere <=> ~ page'[Slab(q)].slab
      <4>1. pl[q] = Nowhere <=> ~ page[Slab(q)].slab
        BY <1>0 DEF PlaceInv
      <4>2. CASE Slab(q) = p
        BY <1>6, <1>a, <4>2 DEF allocate_slab
      <4>3. CASE Slab(q) # p
        BY <1>6, <1>a, <4>1, <4>3, ObjectFacts
      <4> QED BY <4>2, <4>3
    <3>2. \A r \in Pages : pl2[q] = OnPage(r) => Slab(q) = r
      <4>1. \A r \in Pages : pl2[q] = OnPage(r) => pl[q] = OnPage(r)
        BY <1>a, PlacesApart
      <4> QED BY <1>0, <4>1 DEF PlaceInv
    <3>3. \A d \in Cpus : pl2[q] = OnCpu(d) /\ cpu_slab'[d].page # NULL
                                     => Slab(q) = cpu_slab'[d].page
      <4>1. \A d \in Cpus : pl2[q] = OnCpu(d) => d = c \/ pl[q] = OnCpu(d)
        BY <1>a, PlacesApart
      <4>2. \A d \in Cpus \ {c} : pl[q] = OnCpu(d) /\ cpu_slab[d].page # NULL => Slab(q) = cpu_slab[d].page
        BY <1>0 DEF PlaceInv
      <4> QED BY <1>2, <1>a, <4>1, <4>2
    <3>4. \A y \in Ctx : pl2[q] = InCall(y) <=> pl[q] = InCall(y)
      BY <1>a, PlacesApart
    <3>5. pl[q] # InCall(x) /\ call'[x].at \notin FreePC
      BY <1>0, <1>1, <1>3 DEF PlaceInv, FreePC, RefillMove
    <3> QED BY <1>a, <3>1, <3>2, <3>3, <3>4, <3>5
  <2>3. TwoLevels => \A q \in Objects : pl2[q] # Lost
    BY <1>a
  <2>4. call'[x].at \in FreePC \cup {"list"} => call'[x].obj \in Objects
    BY <1>1, <1>3
  <2> QED BY <1>0, <1>4, <1>a, <2>2, <2>3, <2>4, PlaceStep
<1>10. FrozenInv'
  <2>1. C(x).page = p \/ (C(x).page = NULL /\ ~ page[p].frozen)
    BY DEF RefillMove
  <2>2. \A d \in Cpus \ {c} : cpu_slab[d].page # p
    BY <1>0, <1>2, <1>5, <2>1 DEF FrozenInv
  <2>3. ASSUME NEW q \in Pages PROVE page'[q].frozen <=> \E d \in Cpus : cpu_slab'[d].page = q
    <3>1. CASE q = p
      BY <1>2, <1>6, <3>1 DEF allocate_slab
    <3>2. CASE q # p
      <4>1. page[q].frozen <=> \E d \in Cpus : cpu_slab[d].page = q
        BY <1>0 DEF FrozenInv
      <4>2. \A d \in Cpus : cpu_slab'[d].page = q <=> cpu_slab[d].page = q
        BY <1>2, <1>5, <2>1, <3>2, ObjectFacts
      <4> QED BY <1>6, <3>2, <4>1, <4>2
    <3> QED BY <3>1, <3>2
  <2>4. \A d, e \in Cpus : cpu_slab'[d].page = cpu_slab'[e].page /\ cpu_slab'[d].page # NULL => d = e
    BY <1>0, <1>2, <2>2 DEF FrozenInv
  <2>5. Cpus' = Cpus
    BY DEF Cpus
  <2> QED BY <2>3, <2>4, <2>5 DEF FrozenInv
<1>11. KeepsLinks(x, pl)
  <2>1. ASSUME NEW y \in Ctx \ {x}, NEW q \in Objects,
               pl[q] = InCall(y) \/ (call'[y].fresh /\ pl[q] = OnCpu(smp_processor_id[y]))
        PROVE  fp'[q] = fp[q]
    <3>1. CASE pl[q] = InCall(y)
      BY <1>a, <3>1, PlacesApart
    <3>2. CASE call'[y].fresh /\ pl[q] = OnCpu(smp_processor_id[y])
      <4>1. y \notin Neighbours(x)
        BY <1>1, <3>2
      <4>2. smp_processor_id[y] # c
        BY <4>1 DEF Neighbours
      <4> QED BY <1>a, <3>2, <4>2, PlacesApart
    <3> QED BY <2>1, <3>1, <3>2
  <2> QED BY <2>1 DEF KeepsLinks
<1>12. TidInv'
  BY <1>0, <1>1, <1>2, <1>3, <1>4, <1>11, TidStep
<1>13. IrqInv'
  <2>1. list_lock' # x
    BY DEF RefillMove
  <2> QED BY <1>0, <1>1, <1>3, <1>4, <2>1, IrqStep
<1>14. SlowInv'
  <2>1. C(x)'.page # NULL
    BY <1>2, <1>5
  <2> QED BY <1>0, <1>1, <1>2, <1>3, <1>4, <2>1, SlowStep
<1>15. OldInv'
  <2>1. \A y \in Ctx \ {x} : call[y].at = "acquire_slab" => partial' = partial
    BY DEF RefillMove
  <2> QED BY <1>0, <1>1, <1>3, <1>4, <1>11, <2>1, OldStep
<1>16. BootInv'
  BY <1>0, <1>4, BootStep
<1>17. PartialInv' /\ NoBug'
  BY DEF RefillMove, NoBug
<1>18. Inv(pl2, rk2)'
  BY <1>7, <1>8, <1>9, <1>10, <1>12, <1>13, <1>14, <1>15, <1>16, <1>17 DEF Inv
<1> QED BY <1>18 DEF IInv

LEMMA ListDel ==
    ASSUME NEW s \in Seq(Pages), NEW p \in Pages, \A i, j \in DOMAIN s : s[i] = s[j] => i = j,
           \E i \in DOMAIN s : s[i] = p
    PROVE  /\ list_del(s, p) \in Seq(Pages)
           /\ \A i, j \in DOMAIN list_del(s, p) : list_del(s, p)[i] = list_del(s, p)[j] => i = j
           /\ \A q : (\E i \in DOMAIN list_del(s, p) : list_del(s, p)[i] = q)
                        <=> q # p /\ \E i \in DOMAIN s : s[i] = q
<1> DEFINE i == CHOOSE i \in DOMAIN s : s[i] = p
           n == Len(s)
           t == [j \in 1 .. n - 1 |-> IF j < i THEN s[j] ELSE s[j + 1]]
<1>1. i \in DOMAIN s /\ s[i] = p
  OBVIOUS
<1>2. list_del(s, p) = t
  BY DEF list_del
<1>3. n \in Nat /\ DOMAIN s = 1 .. n /\ i \in 1 .. n /\ n - 1 \in Nat
  BY <1>1
<1> HIDE DEF i, n
<1>4. \A j \in 1 .. n - 1 : j + 1 \in 1 .. n /\ j \in 1 .. n
  BY <1>3
<1>5. t \in Seq(Pages) /\ DOMAIN t = 1 .. n - 1
  BY <1>3, <1>4
<1>6. \A j \in 1 .. n - 1 : t[j] = IF j < i THEN s[j] ELSE s[j + 1]
  OBVIOUS
<1> HIDE DEF t
<1>7. \A j, k \in 1 .. n - 1 : t[j] = t[k] => j = k
  <2> SUFFICES ASSUME NEW j \in 1 .. n - 1, NEW k \in 1 .. n - 1, t[j] = t[k] PROVE j = k
    OBVIOUS
  <2> DEFINE a == IF j < i THEN j ELSE j + 1
             b == IF k < i THEN k ELSE k + 1
  <2>1. a \in 1 .. n /\ b \in 1 .. n /\ t[j] = s[a] /\ t[k] = s[b]
    BY <1>4, <1>6
  <2>2. a = b
    BY <1>3, <2>1
  <2> QED BY <1>3, <2>2
<1>8. ASSUME NEW j \in 1 .. n - 1 PROVE t[j] # p /\ \E k \in 1 .. n : s[k] = t[j]
  <2> DEFINE a == IF j < i THEN j ELSE j + 1
  <2>1. a \in 1 .. n /\ t[j] = s[a] /\ a # i
    BY <1>3, <1>4, <1>6
  <2> QED BY <1>1, <1>3, <2>1
<1>9. ASSUME NEW k \in 1 .. n, s[k] # p PROVE \E j \in 1 .. n - 1 : t[j] = s[k]
  <2> DEFINE j == IF k < i THEN k ELSE k - 1
  <2>1. k # i
    BY <1>1, <1>9
  <2>2. j \in 1 .. n - 1 /\ (IF j < i THEN j ELSE j + 1) = k
    BY <1>3, <2>1
  <2>3. t[j] = s[k]
    BY <1>6, <2>2
  <2> QED BY <2>2, <2>3
<1>10. \A q : (\E j \in DOMAIN t : t[j] = q) <=> q # p /\ \E k \in DOMAIN s : s[k] = q
  <2> TAKE q
  <2>1. ASSUME NEW j \in DOMAIN t, t[j] = q PROVE q # p /\ \E k \in DOMAIN s : s[k] = q
    BY <1>3, <1>5, <1>8, <2>1
  <2>2. ASSUME q # p, NEW k \in DOMAIN s, s[k] = q PROVE \E j \in DOMAIN t : t[j] = q
    BY <1>3, <1>5, <1>9, <2>2
  <2> QED BY <2>1, <2>2
<1> QED BY <1>2, <1>5, <1>7, <1>10

(* Nobody is about to change the list. *)
LEMMA PartialQuiet ==
    ASSUME \A y \in Ctx : call'[y].at # "list",
           \A i, j \in DOMAIN partial' : partial'[i] = partial'[j] => i = j,
           \A p \in Pages : Listed(p)' <=> Partly(p)'
    PROVE  PartialInv'
BY DEF PartialInv, Partly, Listed

(* The list of slab p goes to the CPU, its head to the caller. *)
LEMMA TakeList ==
    ASSUME NEW pl, NEW rk, NEW p, NEW c, NEW o \in Objects, NEW f,
           IsList(fp, pl, rk, OnPage(p), o), NEW pl2,
           \A q \in Objects : pl2[q] = IF q = o THEN WithUser
                                       ELSE IF pl[q] = OnPage(p) THEN OnCpu(c)
                                       ELSE IF pl[q] = OnCpu(c) THEN Lost ELSE pl[q],
           \A q \in Objects \ {o} : f[q] = fp[q]
    PROVE  IsList(f, pl2, rk, OnCpu(c), fp[o]) /\ fp[o] \in Objects \cup {NULL}
<1> DEFINE pl1 == [q \in Objects |-> IF pl[q] = OnPage(p) THEN OnCpu(c)
                                     ELSE IF pl[q] = OnCpu(c) THEN Lost ELSE pl[q]]
<1>1. /\ \A q \in Objects : pl1[q] = OnCpu(c) <=> pl[q] = OnPage(p)
      /\ \A q \in Objects \ {o} : pl2[q] = pl1[q]
      /\ pl2[o] # OnCpu(c) /\ o # NULL
  BY PlacesApart, ObjectFacts
<1> HIDE DEF pl1
<1>2. IsList(fp, pl1, rk, OnCpu(c), o)
  BY <1>1, ListMove
<1> QED BY <1>1, <1>2, ListPop

TakeMove(x, p, o) ==
    /\ Running(x) /\ call[x].at \in {"slow", "acquire_slab"}
    /\ p \in Pages /\ page[p].slab /\ o \in Objects /\ page[p].freelist = o
    /\ load_freelist(x, o, p, Taken(p, TRUE), TRUE)
    /\ partial' \in Seq(Pages) /\ PartialInv'
    /\ \A y \in Ctx \ {x} : call[y].at = "acquire_slab" => partial' = partial
    /\ list_lock' \in Ctx \cup {NULL} /\ list_lock' # x
    /\ \A y \in Ctx \ {x} : list_lock' = y <=> list_lock = y
    /\ smp' = smp
    /\ C(x).page = p \/ (C(x).page = NULL /\ ~ page[p].frozen)
    /\ TwoLevels => C(x).freelist = NULL

LEMMA TakePage ==
    ASSUME NEW pl, NEW rk, Inv(pl, rk), NEW x \in Ctx, NEW p \in Pages, NEW o \in Objects,
           TakeMove(x, p, o)
    PROVE  IInv'
<1> USE DEF TakeMove
<1>0. TypeOK /\ ListsInv(pl, rk) /\ PlaceInv(pl)
  BY DEF Inv
<1> DEFINE c == smp_processor_id[x]
           pl2 == [q \in Objects |-> IF q = o THEN WithUser
                                     ELSE IF pl[q] = OnPage(p) THEN OnCpu(c)
                                     ELSE IF pl[q] = OnCpu(c) THEN Lost ELSE pl[q]]
<1>1. c \in Cpus /\ IsList(fp, pl, rk, OnCpu(c), C(x).freelist)
  BY <1>0 DEF ListsInv, C, Cpus
<1>2. IsList(fp, pl, rk, OnPage(p), o) /\ pl[o] = OnPage(p)
  <2>1. IsList(fp, pl, rk, OnPage(p), page[p].freelist) /\ o # NULL
    BY <1>0, ObjectFacts DEF ListsInv
  <2> QED BY <2>1 DEF IsList
<1>3. page[p] \in Page
  BY <1>0 DEF TypeOK
<1>4. /\ page' = [page EXCEPT ![p] = allocate_slab(p)] /\ bug' = FALSE
      /\ SetC(x, [freelist |-> fp[o], page |-> p]) /\ Hand(o, fp) /\ Bump(x, Idle)
  <2>1. Taken(p, TRUE) = [page EXCEPT ![p] = allocate_slab(p)]
    <3> DEFINE t == Taken(p, TRUE)
    <3>1. DOMAIN t = Pages /\ \A q \in Pages \ {p} : t[q] = page[q]
      BY <1>0 DEF Taken, TypeOK
    <3>2. t[p] = allocate_slab(p)
      BY <1>0, <1>3 DEF Taken, TypeOK, allocate_slab, Page
    <3>3. t = [q \in Pages |-> t[q]]
      BY <1>0 DEF Taken, TypeOK
    <3> HIDE DEF t
    <3>4. t = [page EXCEPT ![p] = allocate_slab(p)]
      BY <1>0, <3>1, <3>2, <3>3 DEF TypeOK
    <3> QED BY <3>4 DEF t
  <2>2. [page EXCEPT ![p] = allocate_slab(p)][p].frozen
    BY <1>0 DEF TypeOK, allocate_slab
  <2> QED BY <2>1, <2>2 DEF load_freelist
<1>5. /\ fp' \in [Objects -> Objects \cup {NULL, UserData}]
      /\ \A q \in Objects \ {o} : fp'[q] = fp[q]
      /\ held' = held \cup {o}
  BY <1>0, <1>4 DEF Hand, TypeOK
<1>6. \A q \in Objects : pl2[q] = IF q = o THEN WithUser
                                  ELSE IF pl[q] = OnPage(p) THEN OnCpu(c)
                                  ELSE IF pl[q] = OnCpu(c) THEN Lost ELSE pl[q]
  OBVIOUS
<1>7. pl2 \in [Objects -> Places]
  BY <1>0, <1>1, PlacesIn DEF PlaceInv
<1> HIDE DEF pl2
<1>8. IsList(fp', pl2, rk, OnCpu(c), fp[o]) /\ fp[o] \in Objects \cup {NULL}
  BY <1>2, <1>5, <1>6, TakeList
<1>9. PICK h \in Objects \cup {NULL} : h = fp[o]
  BY <1>8
<1>10. ASSUME NEW q \in Objects
       PROVE  /\ pl2[q] # pl[q] => /\ pl[q] \in {OnPage(p), OnCpu(c), Nowhere}
                                   /\ pl2[q] \in {OnCpu(c), WithUser, Lost}
              /\ pl[q] \notin {OnPage(p), OnCpu(c), Nowhere} => fp'[q] = fp[q] /\ rk[q] = rk[q]
              /\ pl2[q] = WithUser <=> q \in held'
              /\ pl2[q] = OnCpu(c) => Slab(q) = p
              /\ pl2[q] # OnPage(p)
              /\ pl2[q] = Nowhere <=> pl[q] = Nowhere /\ Slab(q) # p
              /\ TwoLevels => pl2[q] # Lost
  <2>1. /\ pl[q] = WithUser <=> q \in held
        /\ pl[q] = OnPage(p) => Slab(q) = p
        /\ pl[q] = Nowhere => Slab(q) # p
        /\ TwoLevels => pl[q] # Lost
    BY <1>0 DEF PlaceInv
  <2>2. TwoLevels => pl[q] # OnCpu(c)
    BY <1>1 DEF IsList
  <2>3. CASE q = o
    BY <1>2, <1>5, <1>6, <2>1, <2>3, PlacesApart
  <2>4. CASE q # o /\ pl[q] = OnPage(p)
    BY <1>5, <1>6, <2>1, <2>4, PlacesApart
  <2>5. CASE q # o /\ pl[q] = OnCpu(c) /\ pl[q] # OnPage(p)
    BY <1>5, <1>6, <2>1, <2>2, <2>5, PlacesApart
  <2>6. CASE q # o /\ pl[q] # OnCpu(c) /\ pl[q] # OnPage(p)
    BY <1>5, <1>6, <2>1, <2>6, PlacesApart
  <2> QED BY <2>3, <2>4, <2>5, <2>6
<1>11. SetC(x, [freelist |-> h, page |-> p]) /\ IsList(fp', pl2, rk, OnCpu(c), h)
  BY <1>4, <1>8, <1>9
<1>12. RefillMove(x, p, h, o, pl, rk, pl2, rk)
  BY <1>4, <1>5, <1>7, <1>9, <1>10, <1>11 DEF RefillMove
<1> QED BY <1>12, Refill

(* A frozen page is a slab. *)
LEMMA FrozenSlab ==
    ASSUME NEW rk, PageInv(rk), NEW p \in Pages, page[p].frozen PROVE page[p].slab
BY DEF PageInv, Unused

(* The slab of the CPU has nothing left and is let go: the transaction id stays. *)
LetsGo(x, p) ==
    /\ page' = Taken(p, FALSE)
    /\ SetC(x, NoSlab)
    /\ GotoSlow(x, "get_partial")

LEMMA LetGo ==
    ASSUME NEW pl, NEW rk, Inv(pl, rk), NEW x \in Ctx, Running(x), call[x].at = "slow",
           NEW p \in Pages, C(x).page = p, C(x).freelist = NULL, page[p].freelist = NULL,
           LetsGo(x, p), bug' = FALSE, UNCHANGED <<fp, held, partial, list_lock, smp>>
    PROVE  IInv'
<1>0. /\ TypeOK /\ ListsInv(pl, rk) /\ PlaceInv(pl) /\ PageInv(rk)
      /\ FrozenInv /\ TidInv /\ IrqInv /\ SlowInv /\ OldInv /\ PartialInv /\ BootInv
  BY DEF Inv
<1> DEFINE c == smp_processor_id[x]
           k == [Idle EXCEPT !.at = "get_partial", !.obj = call[x].obj]
<1>1. k \in Call /\ k.at = "get_partial" /\ ~ k.fresh
  <2>1. call[x].obj \in Objects \cup {NULL}
    BY <1>0 DEF TypeOK, Call
  <2> QED BY <2>1, Records DEF Idle, Call
<1>2. call' = [call EXCEPT ![x] = k]
  BY DEF GotoSlow, LetsGo
<1> HIDE DEF k
<1>3. /\ call' \in [Ctx -> Call] /\ call'[x] = k /\ Others(x)
      /\ \A y \in Ctx \ {x} : call'[y] = call[y]
  BY <1>0, <1>1, <1>2, SetCall DEF TypeOK
<1>4. /\ c \in Cpus /\ C(x) = cpu_slab[c]
      /\ cpu_slab' \in [Cpus -> [freelist : Objects \cup {NULL}, page : Pages \cup {NULL}]]
      /\ C(x)' = NoSlab /\ cpu_slab'[c] = NoSlab
      /\ \A d \in Cpus \ {c} : cpu_slab'[d] = cpu_slab[d]
      /\ \A y \in Ctx \ {x} : y \notin Neighbours(x) => C(y)' = C(y)
  BY <1>0, SetCpu DEF NoSlab, LetsGo
<1>b. /\ cpu_slab[c].freelist = NULL /\ cpu_slab[c].page = p
      /\ cpu_slab'[c].freelist = NULL /\ cpu_slab'[c].page = NULL
  BY <1>4 DEF NoSlab
<1>5. Steps(x)
  BY <1>3 DEF Steps
<1>6. /\ page[p] \in Page /\ page[p].frozen /\ page[p].slab /\ p # NULL
      /\ page[p].inuse = objects[p] /\ objects[p] \in Nat
  <2>1. page[p] \in Page /\ objects[p] \in Nat /\ p # NULL
    BY <1>0, ObjectFacts DEF TypeOK
  <2>2. page[p].frozen
    BY <1>0, <1>4 DEF FrozenInv
  <2>3. page[p].slab
    BY <1>0, <2>2, FrozenSlab
  <2>4. page[p].inuse \in Nat /\ page[p].inuse + Size(rk, NULL) = objects[p]
    BY <1>0, <2>1, <2>3 DEF PageInv, Page
  <2> QED BY <2>1, <2>2, <2>3, <2>4 DEF Size
<1>7. /\ page' \in [Pages -> Page] /\ \A q \in Pages \ {p} : page'[q] = page[q]
      /\ page'[p].slab /\ ~ page'[p].frozen /\ page'[p].freelist = NULL
      /\ page'[p].inuse = page[p].inuse
  BY <1>0, <1>6 DEF Taken, TypeOK, Page, LetsGo
<1>8. TypeOK'
  BY <1>0, <1>3, <1>4, <1>7 DEF TypeOK, Page, Call, Cpus, Objects
<1>9. ListsInv(pl, rk)' /\ PageInv(rk)'
  <2> DEFINE L == {OnPage(p)}
  <2>1. /\ \A q \in Pages : OnPage(q) \in L <=> q = p
        /\ \A d \in Cpus : OnCpu(d) \notin L
    BY PlacesApart
  <2> HIDE DEF L
  <2>2. IsList(fp', pl, rk, OnPage(p), page'[p].freelist)
    <3>1. IsList(fp, pl, rk, OnPage(p), page[p].freelist)
      BY <1>0 DEF ListsInv
    <3>2. page'[p].freelist = page[p].freelist /\ fp' = fp
      BY <1>7
    <3> QED BY <3>1, <3>2
  <2>3. page'[p].inuse + Size(rk, page'[p].freelist) = objects[p]
    BY <1>6, <1>7 DEF Size
  <2>4. \A d \in Cpus : cpu_slab'[d].freelist = cpu_slab[d].freelist
    BY <1>4, <1>b
  <2>5. /\ \A q \in Pages : OnPage(q) \notin L => page'[q] = page[q]
        /\ \A q \in Pages : OnPage(q) \in L =>
              /\ IsList(fp', pl, rk, OnPage(q), page'[q].freelist)
              /\ page'[q].slab => page'[q].inuse + Size(rk, page'[q].freelist) = objects[q]
              /\ ~ page'[q].slab => page'[q] = Unused
    BY <1>7, <2>1, <2>2, <2>3
  <2>6. \A q \in Objects : fp'[q] = fp[q]
    OBVIOUS
  <2>m. ListsMove(pl, rk, pl, rk, L)
    BY <2>1, <2>4, <2>5, <2>6 DEF ListsMove
  <2> QED BY <1>0, <2>m, ListsStep
<1>10. PlaceInv(pl)'
  <2>1. ASSUME NEW q \in Objects PROVE pl[q] # OnCpu(c)
    <3>1. IsList(fp, pl, rk, OnCpu(c), NULL)
      <4>1. IsList(fp, pl, rk, OnCpu(c), cpu_slab[c].freelist)
        BY <1>0, <1>4 DEF ListsInv
      <4> QED BY <1>b, <4>1
    <3> QED BY <3>1 DEF IsList
  <2>2. ASSUME NEW q \in Objects
        PROVE  /\ pl[q] = WithUser <=> q \in held'
               /\ pl[q] = Nowhere <=> ~ page'[Slab(q)].slab
               /\ \A r \in Pages : pl[q] = OnPage(r) => Slab(q) = r
               /\ \A d \in Cpus : pl[q] = OnCpu(d) /\ cpu_slab'[d].page # NULL
                                     => Slab(q) = cpu_slab'[d].page
               /\ pl[q] = InCall(x) <=> call'[x].at \in FreePC /\ call'[x].obj = q
    <3>1. page'[Slab(q)].slab <=> page[Slab(q)].slab
      <4>1. CASE Slab(q) = p
        BY <1>6, <1>7, <4>1
      <4>2. CASE Slab(q) # p
        BY <1>7, <4>2, ObjectFacts
      <4> QED BY <4>1, <4>2
    <3>2. pl[q] # InCall(x) /\ call'[x].at \notin FreePC
      BY <1>0, <1>1, <1>3 DEF PlaceInv, FreePC
    <3>3. \A d \in Cpus \ {c} : cpu_slab'[d].page = cpu_slab[d].page
      BY <1>4
    <3> QED BY <1>0, <2>1, <3>1, <3>2, <3>3 DEF PlaceInv
  <2>3. call'[x].at \in FreePC \cup {"list"} => call'[x].obj \in Objects
    BY <1>1, <1>3 DEF FreePC
  <2>4. pl \in [Objects -> Places] /\ (TwoLevels => \A o \in Objects : pl[o] # Lost)
    BY <1>0 DEF PlaceInv
  <2> QED BY <1>0, <1>5, <2>2, <2>3, <2>4, PlaceStep
<1>11. FrozenInv'
  <2>1. ASSUME NEW q \in Pages PROVE page'[q].frozen <=> \E d \in Cpus : cpu_slab'[d].page = q
    <3>1. \A d \in Cpus : cpu_slab'[d].page = q <=> d # c /\ cpu_slab[d].page = q
      BY <1>4, <1>b, ObjectFacts
    <3>2. CASE q = p
      <4>1. \A d \in Cpus \ {c} : cpu_slab[d].page # p
        BY <1>0, <1>4, <1>6, <1>b DEF FrozenInv
      <4> QED BY <1>7, <3>1, <3>2, <4>1
    <3>3. CASE q # p
      <4>1. page[q].frozen <=> \E d \in Cpus : cpu_slab[d].page = q
        BY <1>0 DEF FrozenInv
      <4>2. cpu_slab[c].page # q
        BY <1>b, <3>3
      <4> QED BY <1>7, <3>1, <3>3, <4>1, <4>2
    <3> QED BY <3>2, <3>3
  <2>2. \A d, e \in Cpus : cpu_slab'[d].page = cpu_slab'[e].page /\ cpu_slab'[d].page # NULL => d = e
    BY <1>0, <1>4, <1>b DEF FrozenInv
  <2>3. Cpus' = Cpus
    BY DEF Cpus
  <2> QED BY <2>1, <2>2, <2>3 DEF FrozenInv
<1>12. KeepsLinks(x, pl)
  BY DEF KeepsLinks
<1>13. TidInv'
  <2>1. ASSUME NEW y \in Ctx, call'[y].fresh
        PROVE  /\ call'[y].at = "alloc_cmpxchg" =>
                    /\ C(y)'.freelist = call'[y].obj /\ call'[y].obj # NULL
                    /\ call'[y].next = fp'[call'[y].obj]
               /\ call'[y].at = "free_cmpxchg" =>
                    /\ fp'[call'[y].obj] = C(y)'.freelist
                    /\ \/ C(y)'.page = Slab(call'[y].obj)
                       \/ C(y)' = NoSlab /\ ~ (TwoLevels /\ level[y] = 1)
    <3>1. y # x /\ call'[y] = call[y]
      BY <1>1, <1>3, <2>1
    <3>2. /\ call[y].at = "alloc_cmpxchg" =>
               C(y).freelist = call[y].obj /\ call[y].obj # NULL /\ call[y].next = fp[call[y].obj]
          /\ call[y].at = "free_cmpxchg" =>
               /\ fp[call[y].obj] = C(y).freelist
               /\ \/ C(y).page = Slab(call[y].obj)
                  \/ C(y) = NoSlab /\ ~ (TwoLevels /\ level[y] = 1)
      BY <1>0, <2>1, <3>1 DEF TidInv
    <3>3. CASE y \notin Neighbours(x)
      BY <1>4, <3>1, <3>2, <3>3
    <3>4. CASE y \in Neighbours(x)
      <4>1. C(y) = C(x) /\ C(y)' = NoSlab
        BY <1>4, <3>4 DEF C, Neighbours
      <4>2. call[y].at # "idle" => level[y] < level[x]
        BY <1>0, <1>5, <3>4, Alone DEF Steps
      <4>3. call[y].at # "idle" => ~ (TwoLevels /\ level[y] = 1)
        <5>1. TwoLevels => level[x] \in {0, 1}
          BY DEF TwoLevels
        <5> QED BY <4>2, <5>1
      <4> QED BY <3>1, <3>2, <4>1, <4>3 DEF NoSlab
    <3> QED BY <3>3, <3>4
  <2> QED BY <2>1 DEF TidInv, Slab, TwoLevels, NoSlab
<1>14. IrqInv'
  <2>1. list_lock # x
    BY <1>0 DEF IrqInv
  <2> QED BY <1>0, <1>1, <1>3, <1>5, <2>1, IrqStep
<1>15. SlowInv'
  BY <1>0, <1>4, <1>5, SlowStep DEF NoSlab
<1>16. OldInv'
  BY <1>0, <1>1, <1>3, <1>5, <1>12, OldStep
<1>17. PartialInv'
  <2>1. \A y \in Ctx : call[y].at = "list" => call[y].obj \in Objects
    BY <1>0 DEF PlaceInv
  <2>2. \A q \in Pages : Partly(q)' <=> Partly(q)
    BY <1>6, <1>7 DEF Partly
  <2>3. \A q \in Pages : page'[q].inuse <= page[q].inuse
    <3>1. \A q \in Pages : page[q].inuse \in Nat /\ page'[q].inuse = page[q].inuse
      BY <1>0, <1>6, <1>7 DEF TypeOK, Page
    <3> QED BY <3>1
  <2> QED BY <1>0, <1>1, <1>3, <1>5, <1>7, <2>1, <2>2, <2>3, PartialStep
<1>18. BootInv'
  BY <1>0, <1>5, BootStep
<1>19. Inv(pl, rk)'
  BY <1>8, <1>9, <1>10, <1>11, <1>13, <1>14, <1>15, <1>16, <1>17, <1>18 DEF Inv, NoBug
<1> QED BY <1>19 DEF IInv

LEMMA StepSlabAlloc ==
    ASSUME NEW pl, NEW rk, Inv(pl, rk), NEW x \in Ctx, slab_alloc(x) PROVE IInv'
<1>0. /\ TypeOK /\ PlaceInv(pl) /\ PageInv(rk) /\ FrozenInv /\ IrqInv /\ SlowInv /\ PartialInv
  BY DEF Inv
<1>1. call[x].at = "slow" /\ Running(x) /\ UNCHANGED <<partial, list_lock, smp>>
  BY DEF slab_alloc, At
<1>2. C(x) \in [freelist : Objects \cup {NULL}, page : Pages \cup {NULL}] /\ list_lock # x
  BY <1>0, <1>1 DEF TypeOK, C, Cpus, IrqInv
<1>3. PICK p \in Pages \cup {NULL} : p = C(x).page
  BY <1>2
<1>4. p # NULL => p \in Pages /\ page[p].frozen /\ page[p].slab /\ page[p] \in Page
  <2>1. p # NULL => p \in Pages /\ page[p].frozen /\ page[p] \in Page
    BY <1>0, <1>3 DEF FrozenInv, C, Cpus, TypeOK
  <2> QED BY <1>0, <2>1, FrozenSlab
<1>5. CASE /\ p = NULL /\ GotoSlow(x, "get_partial") /\ bug' = FALSE
           /\ UNCHANGED <<page, fp, cpu_slab, held>>
  <2> DEFINE k == [Idle EXCEPT !.at = "get_partial", !.obj = call[x].obj]
  <2>1. k \in Call /\ k.at = "get_partial"
    <3>1. call[x].obj \in Objects \cup {NULL}
      BY <1>0 DEF TypeOK, Call
    <3> QED BY <3>1, Records DEF Idle, Call
  <2>2. call' = [call EXCEPT ![x] = k]
    BY <1>5 DEF GotoSlow
  <2> HIDE DEF k
  <2>3. call[x].at \in RefillPC \cup {"slow"} /\ k.at \in {"idle"} \cup RefillPC
    BY <1>1, <2>1 DEF RefillPC
  <2>4. list_lock' \in Ctx \cup {NULL} /\ UNCHANGED <<page, fp, cpu_slab, partial, held, smp>>
    BY <1>0, <1>1, <1>5 DEF TypeOK
  <2>5. Inv(pl, rk)'
    BY <1>1, <1>2, <1>3, <1>5, <2>1, <2>2, <2>3, <2>4, SlowGoes
  <2> QED BY <2>5 DEF IInv
<1>6. CASE p # NULL /\ C(x).freelist # NULL /\ load_freelist(x, C(x).freelist, p, page, TRUE)
  <2>1. /\ SetC(x, [freelist |-> fp[C(x).freelist], page |-> C(x).page])
        /\ Hand(C(x).freelist, fp) /\ Bump(x, Idle) /\ page' = page /\ bug' = FALSE
    BY <1>3, <1>4, <1>6 DEF load_freelist
  <2> QED BY <1>1, <1>6, <2>1, PopCpu
<1>7. CASE /\ p # NULL /\ C(x).freelist = NULL /\ page[p].freelist # NULL
           /\ load_freelist(x, page[p].freelist, p, get_freelist(p), page[p].frozen)
  <2>1. PICK o \in Objects : o = page[p].freelist
    BY <1>4, <1>7 DEF Page
  <2>2. load_freelist(x, o, p, Taken(p, TRUE), TRUE)
    <3>1. get_freelist(p) = Taken(p, TRUE)
      <4>1. (page[p].freelist # NULL) = TRUE
        BY <1>7
      <4> QED BY <4>1 DEF get_freelist
    <3>2. page[p].frozen = TRUE
      BY <1>4, <1>7 DEF Page
    <3> QED BY <1>7, <2>1, <3>1, <3>2
  <2>3. /\ partial' \in Seq(Pages) /\ list_lock' \in Ctx \cup {NULL}
    BY <1>0, <1>1 DEF TypeOK
  <2>4. PartialInv'
    <3>1. \A y \in Ctx : call[y].at = "list" => call[y].obj \in Objects
      BY <1>0 DEF PlaceInv
    <3>2. call'[x] = Idle /\ Others(x) /\ Idle.at = "idle"
      <4>1. Bump(x, Idle)
        BY <2>2 DEF load_freelist
      <4> QED BY <1>0, <4>1, Records, BumpCall DEF TypeOK, Idle
    <3>3. Steps(x)
      BY <1>1, <3>2 DEF Steps
    <3>4. page' \in [Pages -> Page] /\ page'[p].frozen /\ \A q \in Pages \ {p} : page'[q] = page[q]
      <4>1. page' = Taken(p, TRUE) /\ objects[p] \in Nat
        BY <1>4, <1>7, <2>2, ObjectFacts DEF load_freelist
      <4> QED BY <1>0, <1>4, <1>7, <4>1 DEF Taken, TypeOK, Page
    <3>5. /\ \A q \in Pages : Partly(q)' <=> Partly(q)
          /\ \A q \in Pages : Partly(q) => page'[q].inuse = page[q].inuse
      BY <1>4, <1>7, <3>4 DEF Partly
    <3>6. \A q \in Pages : page[q].inuse \in Nat
      BY <1>0 DEF TypeOK, Page
    <3>7. \A q \in Pages : Partly(q) => page'[q].inuse <= page[q].inuse
      BY <3>5, <3>6
    <3> QED BY <1>0, <1>1, <3>1, <3>2, <3>3, <3>4, <3>5, <3>7, PartialStep
  <2>5. list_lock' # x /\ \A y \in Ctx \ {x} : list_lock' = y <=> list_lock = y
    BY <1>1, <1>2
  <2>6. TakeMove(x, p, o)
    BY <1>1, <1>3, <1>4, <1>7, <2>1, <2>2, <2>3, <2>4, <2>5 DEF TakeMove
  <2> QED BY <1>4, <1>7, <2>6, TakePage
<1>8. CASE /\ p # NULL /\ C(x).freelist = NULL /\ page[p].freelist = NULL
           /\ page' = get_freelist(p) /\ SetC(x, NoSlab) /\ GotoSlow(x, "get_partial")
           /\ bug' = ~ page[p].frozen /\ UNCHANGED <<fp, held>>
  <2>1. get_freelist(p) = Taken(p, FALSE)
    <3>1. (page[p].freelist # NULL) = FALSE
      BY <1>8
    <3> QED BY <3>1 DEF get_freelist
  <2>2. LetsGo(x, p)
    BY <1>8, <2>1 DEF LetsGo
  <2>3. bug' = FALSE
    BY <1>4, <1>8
  <2> QED BY <1>1, <1>3, <1>4, <1>8, <2>2, <2>3, LetGo
<1> QED BY <1>3, <1>5, <1>6, <1>7, <1>8 DEF slab_alloc

LEMMA StepAcquire ==
    ASSUME NEW pl, NEW rk, Inv(pl, rk), NEW x \in Ctx, acquire_slab(x) PROVE IInv'
<1>0. /\ TypeOK /\ PlaceInv(pl) /\ PageInv(rk) /\ IrqInv /\ SlowInv /\ OldInv /\ PartialInv
  BY DEF Inv
<1>1. call[x].at = "acquire_slab" /\ Running(x) /\ list_lock' = NULL /\ smp' = smp
  BY DEF acquire_slab, At
<1>2. /\ list_lock = x /\ C(x).page = NULL /\ (TwoLevels => C(x).freelist = NULL)
      /\ call[x] \in Call /\ NULL \notin Ctx
  BY <1>0, <1>1, SlubAssumption DEF IrqInv, SlowInv, RefillPC, TypeOK
<1>3. PICK p \in Pages : p = call[x].pg /\ Listed(p)
  BY <1>0, <1>1 DEF OldInv, Listed
<1>4. /\ \A y \in Ctx : call[y].at # "list"
      /\ \A y \in Ctx \ {x} : call[y].at # "acquire_slab"
  BY <1>0, <1>1, <1>2 DEF IrqInv
<1>5. \A q \in Pages : Listed(q) <=> Partly(q)
  BY <1>0, <1>4 DEF PartialInv, Relisting, Partly
<1>6. page[p].slab /\ ~ page[p].frozen /\ page[p].freelist # NULL /\ page[p] \in Page
  BY <1>0, <1>3, <1>5 DEF Partly, TypeOK
<1>7. list_lock' \in Ctx \cup {NULL} /\ list_lock' # x /\ \A y \in Ctx \ {x} : list_lock' = y <=> list_lock = y
  BY <1>1, <1>2
<1>8. CASE /\ page[p] = call[x].old /\ call[x].old.freelist # NULL
           /\ partial' = list_del(partial, p)
           /\ load_freelist(x, call[x].old.freelist, p, Taken(p, TRUE), TRUE)
  <2>1. PICK o \in Objects : o = page[p].freelist
    BY <1>6 DEF Page
  <2>2. load_freelist(x, o, p, Taken(p, TRUE), TRUE)
    BY <1>8, <2>1
  <2>3. /\ partial' \in Seq(Pages)
        /\ \A i, j \in DOMAIN partial' : partial'[i] = partial'[j] => i = j
        /\ \A q : (\E i \in DOMAIN partial' : partial'[i] = q)
                     <=> q # p /\ \E i \in DOMAIN partial : partial[i] = q
    <3>1. /\ partial \in Seq(Pages) /\ \A i, j \in DOMAIN partial : partial[i] = partial[j] => i = j
          /\ \E i \in DOMAIN partial : partial[i] = p
      BY <1>0, <1>3 DEF TypeOK, PartialInv, Listed
    <3> DEFINE t == list_del(partial, p)
    <3>2. /\ t \in Seq(Pages)
          /\ \A i, j \in DOMAIN t : t[i] = t[j] => i = j
          /\ \A q : (\E i \in DOMAIN t : t[i] = q)
                     <=> q # p /\ \E i \in DOMAIN partial : partial[i] = q
      BY <3>1, ListDel
    <3>3. partial' = t
      BY <1>8
    <3> HIDE DEF t
    <3> QED BY <3>2, <3>3
  <2>4. PartialInv'
    <3>1. call'[x] = Idle /\ Others(x) /\ Idle.at = "idle"
      <4>1. Bump(x, Idle)
        BY <2>2 DEF load_freelist
      <4> QED BY <1>0, <4>1, Records, BumpCall DEF TypeOK, Idle
    <3>2. \A y \in Ctx : call'[y].at # "list"
      BY <1>4, <3>1 DEF Others
    <3>3. page'[p].frozen /\ \A q \in Pages \ {p} : page'[q] = page[q]
      <4>1. page' = Taken(p, TRUE)
        BY <2>2 DEF load_freelist
      <4> QED BY <1>0, <1>6, <4>1 DEF Taken, TypeOK, Page
    <3>4. \A q \in Pages : Listed(q)' <=> Partly(q)'
      <4>1. \A q \in Pages : Listed(q)' <=> q # p /\ Listed(q)
        BY <2>3 DEF Listed
      <4>2. \A q \in Pages : Partly(q)' <=> q # p /\ Partly(q)
        BY <3>3 DEF Partly
      <4> QED BY <1>5, <4>1, <4>2
    <3> QED BY <2>3, <3>2, <3>4, PartialQuiet
  <2>5. /\ C(x).page = p \/ (C(x).page = NULL /\ ~ page[p].frozen)
        /\ call[x].at \in {"slow", "acquire_slab"}
        /\ \A y \in Ctx \ {x} : call[y].at = "acquire_slab" => partial' = partial
    BY <1>1, <1>2, <1>4, <1>6
  <2>6. TakeMove(x, p, o)
    BY <1>1, <1>2, <1>6, <1>7, <2>1, <2>2, <2>3, <2>4, <2>5 DEF TakeMove
  <2> QED BY <2>6, TakePage
<1>9. CASE /\ GotoSlow(x, "new_slab") /\ bug' = FALSE
           /\ UNCHANGED <<page, fp, cpu_slab, partial, held>>
  <2> DEFINE k == [Idle EXCEPT !.at = "new_slab", !.obj = call[x].obj]
  <2>1. k \in Call /\ k.at = "new_slab"
    <3>1. call[x].obj \in Objects \cup {NULL}
      BY <1>2 DEF Call
    <3> QED BY <3>1, Records DEF Idle, Call
  <2>2. call' = [call EXCEPT ![x] = k]
    BY <1>9 DEF GotoSlow
  <2> HIDE DEF k
  <2>3. call[x].at \in RefillPC \cup {"slow"} /\ k.at \in {"idle"} \cup RefillPC
    BY <1>1, <2>1 DEF RefillPC
  <2>4. Inv(pl, rk)'
    BY <1>1, <1>2, <1>7, <1>9, <2>1, <2>2, <2>3, SlowGoes
  <2> QED BY <2>4 DEF IInv
<1> QED BY <1>3, <1>8, <1>9 DEF acquire_slab

LEMMA StepNewSlab ==
    ASSUME NEW pl, NEW rk, Inv(pl, rk), NEW x \in Ctx, new_slab_objects(x) PROVE IInv'
<1>0. /\ TypeOK /\ ListsInv(pl, rk) /\ PlaceInv(pl) /\ PageInv(rk) /\ IrqInv /\ SlowInv /\ PartialInv
  BY DEF Inv
<1>1. /\ call[x].at = "new_slab" /\ Running(x) /\ bug' = FALSE
      /\ UNCHANGED <<partial, list_lock, smp>>
  BY DEF new_slab_objects, At
<1>2. /\ C(x).page = NULL /\ (TwoLevels => C(x).freelist = NULL)
      /\ list_lock # x /\ list_lock \in Ctx \cup {NULL} /\ partial \in Seq(Pages)
  BY <1>0, <1>1 DEF SlowInv, RefillPC, IrqInv, TypeOK
<1>3. CASE Return(x) /\ UNCHANGED <<page, cpu_slab, held, fp>>
  <2>1. Idle \in Call /\ Idle.at = "idle"
    BY Records DEF Idle
  <2>2. call' = [call EXCEPT ![x] = Idle]
    BY <1>3 DEF Return
  <2>3. call[x].at \in RefillPC \cup {"slow"} /\ Idle.at \in {"idle"} \cup RefillPC
    BY <1>1, <2>1 DEF RefillPC
  <2>4. UNCHANGED <<page, fp, cpu_slab, partial, held, smp>>
    BY <1>1, <1>3
  <2>5. Inv(pl, rk)'
    BY <1>1, <1>2, <2>1, <2>2, <2>3, <2>4, SlowGoes
  <2> QED BY <2>5 DEF IInv
<1>4. CASE \E p \in alloc_slab_page :
             /\ page' = [page EXCEPT ![p] = allocate_slab(p)]
             /\ SetC(x, [freelist |-> NewLinks(p)[<<p, 1>>], page |-> p])
             /\ Hand(<<p, 1>>, NewLinks(p))
             /\ Bump(x, Idle)
  <2>1. PICK p \in alloc_slab_page :
             /\ page' = [page EXCEPT ![p] = allocate_slab(p)]
             /\ SetC(x, [freelist |-> NewLinks(p)[<<p, 1>>], page |-> p])
             /\ Hand(<<p, 1>>, NewLinks(p))
             /\ Bump(x, Idle)
    BY <1>4
  <2>2. /\ p \in Pages /\ ~ page[p].slab /\ ~ page[p].frozen
        /\ objects[p] \in Nat \ {0} /\ 1 \in 1 .. objects[p]
    BY <1>0, <2>1, ObjectFacts DEF alloc_slab_page, PageInv, Unused
  <2> DEFINE c == smp_processor_id[x]
             o == <<p, 1>>
             h == IF 1 < objects[p] THEN <<p, 2>> ELSE NULL
             pl2 == [q \in Objects |-> IF q = o THEN WithUser
                                       ELSE IF Slab(q) = p THEN OnCpu(c)
                                       ELSE IF pl[q] = OnCpu(c) THEN Lost ELSE pl[q]]
             rk2 == [q \in Objects |-> IF Slab(q) = p THEN objects[p] - q[2] + 1 ELSE rk[q]]
  <2>3. o \in Objects /\ Slab(o) = p /\ o[2] = 1 /\ h \in Objects \cup {NULL}
    <3>1. 1 < objects[p] => 2 \in 1 .. objects[p]
      BY <2>2
    <3> QED BY <2>2, <3>1, ObjectFacts
  <2>4. c \in Cpus /\ IsList(fp, pl, rk, OnCpu(c), C(x).freelist)
    BY <1>0 DEF ListsInv, C, Cpus
  <2>5. NewLinks(p)[o] = h
    BY <2>2, <2>3 DEF NewLinks
  <2>6. /\ fp' \in [Objects -> Objects \cup {NULL, UserData}]
        /\ \A q \in Objects : /\ Slab(q) # p => fp'[q] = fp[q]
                              /\ Slab(q) = p /\ q[2] # 1
                                    => fp'[q] = IF q[2] < objects[p] THEN <<p, q[2] + 1>> ELSE NULL
        /\ held' = held \cup {o}
    <3>1. fp' = [NewLinks(p) EXCEPT ![o] = UserData] /\ held' = held \cup {o}
      BY <2>1 DEF Hand
    <3>2. \A q \in Objects : NewLinks(p)[q] \in Objects \cup {NULL, UserData}
      <4> TAKE q \in Objects
      <4>1. CASE Slab(q) # p
        BY <1>0, <4>1 DEF NewLinks, TypeOK
      <4>2. CASE Slab(q) = p /\ q[2] < objects[p]
        <5>1. q[2] + 1 \in 1 .. objects[p]
          BY <2>2, <4>2, ObjectFacts
        <5>2. <<p, q[2] + 1>> \in Objects
          BY <2>2, <5>1, ObjectFacts
        <5> QED BY <4>2, <5>2 DEF NewLinks
      <4>3. CASE Slab(q) = p /\ ~ (q[2] < objects[p])
        BY <4>3 DEF NewLinks
      <4> QED BY <4>1, <4>2, <4>3
    <3>3. fp' \in [Objects -> Objects \cup {NULL, UserData}]
      BY <3>1, <3>2 DEF NewLinks
    <3>4. \A q \in Objects : q # o => fp'[q] = NewLinks(p)[q]
      BY <3>1 DEF NewLinks
    <3> QED BY <2>3, <3>1, <3>3, <3>4 DEF NewLinks
  <2>7. \A q \in Objects : /\ q = o <=> Slab(q) = p /\ q[2] = 1
                           /\ Slab(q) = p => pl[q] = Nowhere
    BY <1>0, <2>2, <2>3, ObjectFacts DEF PlaceInv
  <2>8. /\ \A q \in Objects : pl2[q] = IF q = o THEN WithUser
                                       ELSE IF Slab(q) = p THEN OnCpu(c)
                                       ELSE IF pl[q] = OnCpu(c) THEN Lost ELSE pl[q]
        /\ \A q \in Objects : /\ Slab(q) = p => rk2[q] = objects[p] - q[2] + 1
                              /\ Slab(q) # p => rk2[q] = rk[q]
    OBVIOUS
  <2>9. pl2 \in [Objects -> Places]
    BY <1>0, <2>4, PlacesIn DEF PlaceInv
  <2> HIDE DEF pl2, rk2, o
  <2>10. IsList(fp', pl2, rk2, OnCpu(c), h)
    <3>1. \A q \in Objects : pl2[q] = OnCpu(c) <=> Slab(q) = p /\ q[2] # 1
      BY <2>7, <2>8, PlacesApart
    <3>2. \A q \in Objects : Slab(q) = p /\ q[2] # 1 =>
              /\ rk2[q] = objects[p] - q[2] + 1
              /\ fp'[q] = IF q[2] < objects[p] THEN <<p, q[2] + 1>> ELSE NULL
      BY <2>6, <2>8
    <3>3. IsNew(p, OnCpu(c), fp', pl2, rk2)
      BY <3>1, <3>2 DEF IsNew
    <3> QED BY <2>2, <3>3, ListNew
  <2>11. ASSUME NEW q \in Objects
         PROVE  /\ pl2[q] # pl[q] => /\ pl[q] \in {OnPage(p), OnCpu(c), Nowhere}
                                     /\ pl2[q] \in {OnCpu(c), WithUser, Lost}
                /\ pl[q] \notin {OnPage(p), OnCpu(c), Nowhere} => fp'[q] = fp[q] /\ rk2[q] = rk[q]
                /\ pl2[q] = WithUser <=> q \in held'
                /\ pl2[q] = OnCpu(c) => Slab(q) = p
                /\ pl2[q] # OnPage(p)
                /\ pl2[q] = Nowhere <=> pl[q] = Nowhere /\ Slab(q) # p
                /\ TwoLevels => pl2[q] # Lost
    <3>1. /\ pl[q] = WithUser <=> q \in held
          /\ pl[q] = OnPage(p) => Slab(q) = p
          /\ TwoLevels => pl[q] # Lost
      BY <1>0, <2>2 DEF PlaceInv
    <3>2. TwoLevels => pl[q] # OnCpu(c)
      BY <1>2, <2>4 DEF IsList
    <3>3. CASE q = o
      BY <2>3, <2>6, <2>7, <2>8, <3>3, PlacesApart
    <3>4. CASE q # o /\ Slab(q) = p
      BY <2>6, <2>7, <2>8, <3>1, <3>4, PlacesApart
    <3>5. CASE Slab(q) # p /\ pl[q] = OnCpu(c)
      BY <2>3, <2>6, <2>8, <3>1, <3>2, <3>5, PlacesApart
    <3>6. CASE Slab(q) # p /\ pl[q] # OnCpu(c)
      BY <2>3, <2>6, <2>8, <3>1, <3>6, PlacesApart
    <3> QED BY <3>3, <3>4, <3>5, <3>6
  <2>12. PartialInv'
    <3>1. \A y \in Ctx : call[y].at = "list" => call[y].obj \in Objects
      BY <1>0 DEF PlaceInv
    <3>2. call'[x] = Idle /\ Others(x) /\ Idle.at = "idle"
      BY <1>0, <2>1, Records, BumpCall DEF TypeOK, Idle
    <3>3. Steps(x)
      BY <1>1, <3>2 DEF Steps
    <3>4. page' \in [Pages -> Page] /\ page'[p].frozen /\ \A q \in Pages \ {p} : page'[q] = page[q]
      <4>1. allocate_slab(p) \in Page /\ allocate_slab(p).frozen
        BY <2>2 DEF allocate_slab, Page
      <4> QED BY <1>0, <2>1, <2>2, <4>1 DEF TypeOK
    <3>5. /\ \A q \in Pages : Partly(q)' <=> Partly(q)
          /\ \A q \in Pages : Partly(q) => page'[q].inuse = page[q].inuse
      BY <2>2, <3>4 DEF Partly
    <3>6. \A q \in Pages : page[q].inuse \in Nat
      BY <1>0 DEF TypeOK, Page
    <3>7. \A q \in Pages : Partly(q) => page'[q].inuse <= page[q].inuse
      BY <3>5, <3>6
    <3> QED BY <1>0, <1>1, <3>1, <3>2, <3>3, <3>4, <3>5, <3>7, PartialStep
  <2>13. SetC(x, [freelist |-> h, page |-> p])
    BY <2>1, <2>5 DEF o
  <2>14. page' = [page EXCEPT ![p] = allocate_slab(p)] /\ Bump(x, Idle)
    BY <2>1
  <2> HIDE DEF h
  <2>15. /\ call[x].at \in {"slow", "acquire_slab", "new_slab"}
         /\ partial' \in Seq(Pages) /\ partial' = partial /\ smp' = smp
         /\ list_lock' \in Ctx \cup {NULL} /\ list_lock' # x
         /\ \A y \in Ctx \ {x} : list_lock' = y <=> list_lock = y
         /\ C(x).page = NULL /\ ~ page[p].frozen
    BY <1>1, <1>2, <2>2
  <2>16. RefillMove(x, p, h, o, pl, rk, pl2, rk2)
    BY <1>1, <2>2, <2>3, <2>6, <2>9, <2>10, <2>11, <2>12, <2>13, <2>14, <2>15 DEF RefillMove
  <2> QED BY <2>16, Refill
<1> QED BY <1>3, <1>4 DEF new_slab_objects

(* o joins the list of its slab. *)
Pushes(x, o, p) ==
    /\ page' = [page EXCEPT ![p].freelist = o, ![p].inuse = call[x].old.inuse - 1]
    /\ IF list_lock = x THEN Goto(x, "list") ELSE Return(x)

LEMMA PushPage ==
    ASSUME NEW pl, NEW rk, Inv(pl, rk), NEW x \in Ctx, Running(x), call[x].at = "slab_cmpxchg",
           NEW o \in Objects, o = call[x].obj, NEW p \in Pages, p = Slab(o),
           page[p] = call[x].old, Pushes(x, o, p), bug' = FALSE,
           UNCHANGED <<fp, cpu_slab, partial, list_lock, held, smp>>
    PROVE  IInv'
<1>0. /\ TypeOK /\ ListsInv(pl, rk) /\ PlaceInv(pl) /\ PageInv(rk)
      /\ FrozenInv /\ TidInv /\ IrqInv /\ SlowInv /\ OldInv /\ PartialInv /\ BootInv
  BY DEF Inv
<1>1. /\ pl[o] = InCall(x) /\ page[p].slab /\ page[p] \in Page /\ o # NULL /\ call[x] \in Call
      /\ fp[o] = page[p].freelist /\ (list_lock = x <=> NeedsList(page[p]))
      /\ page[p].inuse \in Nat /\ objects[p] \in Nat
  <2>1. pl[o] = InCall(x)
    BY <1>0 DEF PlaceInv, FreePC
  <2>2. page[p].slab
    BY <1>0, <2>1, PlacesApart DEF PlaceInv
  <2>3. page[p] \in Page /\ o # NULL /\ call[x] \in Call /\ objects[p] \in Nat
    BY <1>0, ObjectFacts DEF TypeOK
  <2>4. fp[o] = page[p].freelist /\ (list_lock = x <=> NeedsList(page[p]))
    BY <1>0 DEF OldInv
  <2> QED BY <2>1, <2>2, <2>3, <2>4 DEF Page
<1>2. IsList(fp, pl, rk, OnPage(p), page[p].freelist)
  BY <1>0 DEF ListsInv
<1>3. PICK s \in Nat : s = Size(rk, page[p].freelist)
  BY <1>2, SizeType
<1> DEFINE pl2 == [pl EXCEPT ![o] = OnPage(p)]
           rk2 == [q \in Objects |-> IF q = o THEN s + 1 ELSE rk[q]]
<1>4. /\ pl2 \in [Objects -> Places] /\ pl2[o] = OnPage(p)
      /\ \A q \in Objects \ {o} : pl2[q] = pl[q] /\ rk2[q] = rk[q]
      /\ rk2[o] = Size(rk, page[p].freelist) + 1
  BY <1>0, <1>3, PlacesIn DEF PlaceInv
<1> HIDE DEF pl2, rk2
<1>5. IsList(fp, pl2, rk2, OnPage(p), o) /\ Size(rk2, o) = s + 1
  BY <1>1, <1>2, <1>3, <1>4, PlacesApart, ListPush
<1>6. \A q \in Objects, r \in Pages : pl2[q] = OnPage(r) => Slab(q) = r
  BY <1>0, <1>4, PlacesApart DEF PlaceInv
<1>7. s + 1 <= objects[p] /\ page[p].inuse + s = objects[p]
  <2>1. Size(rk2, o) <= objects[p]
    BY <1>5, <1>6, PageBound
  <2>2. page[p].inuse + s = objects[p]
    BY <1>0, <1>1, <1>3 DEF PageInv
  <2> QED BY <1>5, <2>1, <2>2
<1>8. /\ page[p].inuse - 1 \in Nat /\ page[p].inuse - 1 < page[p].inuse
      /\ page[p].inuse - 1 + (s + 1) = objects[p]
  BY <1>1, <1>7
<1>9. /\ page' \in [Pages -> Page] /\ \A q \in Pages \ {p} : page'[q] = page[q]
      /\ page'[p].slab /\ page'[p].frozen = page[p].frozen /\ page'[p].freelist = o
      /\ page'[p].inuse = page[p].inuse - 1
  BY <1>0, <1>1, <1>8 DEF Pushes, TypeOK, Page
<1> DEFINE k == IF list_lock = x THEN [call[x] EXCEPT !.at = "list"] ELSE Idle
<1>10. /\ k \in Call
       /\ list_lock = x => k.at = "list" /\ k.obj = o /\ k.old = page[p]
       /\ list_lock # x => k.at = "idle"
  BY <1>1, Records DEF Call, Idle
<1>11. call' = [call EXCEPT ![x] = k]
  BY <1>0 DEF Pushes, Goto, Return, TypeOK, Call
<1> HIDE DEF k
<1>12. call' \in [Ctx -> Call] /\ call'[x] = k /\ Others(x)
  BY <1>0, <1>10, <1>11, SetCall DEF TypeOK
<1>13. Steps(x)
  BY <1>12 DEF Steps
<1>14. k.at \notin FreePC \cup RefillPC \cup {"slow", "acquire_slab", "lock", "slab_cmpxchg",
                                              "alloc_cmpxchg", "free_cmpxchg"}
  BY <1>10 DEF FreePC, RefillPC
<1>15. TypeOK'
  BY <1>0, <1>9, <1>12 DEF TypeOK, Page, Call, Cpus, Objects
<1>16. ListsInv(pl2, rk2)' /\ PageInv(rk2)'
  <2> DEFINE L == {OnPage(p), InCall(x)}
  <2>1. /\ \A q \in Pages : OnPage(q) \in L <=> q = p
        /\ \A d \in Cpus : OnCpu(d) \notin L
    BY PlacesApart
  <2>2. /\ \A q \in Objects : pl2[q] # pl[q] => pl[q] \in L /\ pl2[q] \in L
        /\ \A q \in Objects : pl[q] \notin L => fp'[q] = fp[q] /\ rk2[q] = rk[q]
    BY <1>1, <1>4
  <2> HIDE DEF L
  <2>3. IsList(fp', pl2, rk2, OnPage(p), page'[p].freelist)
    BY <1>5, <1>9
  <2>4. page'[p].inuse + Size(rk2, page'[p].freelist) = objects[p]
    BY <1>5, <1>8, <1>9
  <2>5. /\ \A q \in Pages : OnPage(q) \notin L => page'[q] = page[q]
        /\ \A q \in Pages : OnPage(q) \in L =>
              /\ IsList(fp', pl2, rk2, OnPage(q), page'[q].freelist)
              /\ page'[q].slab => page'[q].inuse + Size(rk2, page'[q].freelist) = objects[q]
              /\ ~ page'[q].slab => page'[q] = Unused
    BY <1>9, <2>1, <2>3, <2>4
  <2>6. \A d \in Cpus : cpu_slab'[d].freelist = cpu_slab[d].freelist
    OBVIOUS
  <2>m. ListsMove(pl, rk, pl2, rk2, L)
    BY <2>1, <2>2, <2>5, <2>6 DEF ListsMove
  <2> QED BY <1>0, <2>m, ListsStep
<1>17. PlaceInv(pl2)'
  <2>2. ASSUME NEW q \in Objects
        PROVE  /\ pl2[q] = WithUser <=> q \in held'
               /\ pl2[q] = Nowhere <=> ~ page'[Slab(q)].slab
               /\ \A r \in Pages : pl2[q] = OnPage(r) => Slab(q) = r
               /\ \A d \in Cpus : pl2[q] = OnCpu(d) /\ cpu_slab'[d].page # NULL
                                     => Slab(q) = cpu_slab'[d].page
               /\ pl2[q] = InCall(x) <=> call'[x].at \in FreePC /\ call'[x].obj = q
               /\ \A y \in Ctx \ {x} : pl2[q] = InCall(y) <=> pl[q] = InCall(y)
    <3>0. page'[Slab(q)].slab <=> page[Slab(q)].slab
      BY <1>1, <1>9, ObjectFacts
    <3>1. CASE q = o
      <4>1. o \notin held
        BY <1>0, <1>1, PlacesApart DEF PlaceInv
      <4> QED BY <1>1, <1>4, <1>6, <1>9, <1>12, <1>14, <3>1, <4>1, PlacesApart
    <3>2. CASE q # o
      <4>1. pl2[q] = pl[q] /\ pl[q] # InCall(x)
        BY <1>0, <1>4, <3>2 DEF PlaceInv
      <4> QED BY <1>0, <1>12, <1>14, <3>0, <4>1 DEF PlaceInv
    <3> QED BY <3>1, <3>2
  <2>3. TwoLevels => \A q \in Objects : pl2[q] # Lost
    BY <1>0, <1>4, PlacesApart DEF PlaceInv
  <2>4. call'[x].at \in FreePC \cup {"list"} => call'[x].obj \in Objects
    BY <1>10, <1>12, <1>14
  <2> QED BY <1>0, <1>4, <1>13, <2>2, <2>3, <2>4, PlaceStep
<1>18. FrozenInv'
  BY <1>0, <1>9, FrozenFrame
<1>19. KeepsLinks(x, pl) /\ \A y \in Ctx : C(y)' = C(y)
  BY DEF KeepsLinks, C
<1>20. TidInv'
  BY <1>0, <1>12, <1>13, <1>14, <1>19, TidStep
<1>21. IrqInv'
  BY <1>0, <1>10, <1>12, <1>13, IrqStep
<1>22. SlowInv'
  BY <1>0, <1>12, <1>13, <1>14, <1>19, SlowStep
<1>23. OldInv'
  BY <1>0, <1>12, <1>13, <1>14, <1>19, OldStep
<1>24. PartialInv'
  <2>1. CASE list_lock = x
    <3>1. \A y \in Ctx \ {x} : call'[y].at # "list" /\ call[y].at # "list"
      BY <1>0, <1>12, <2>1 DEF IrqInv, Others
    <3>2. \A q \in Pages : Listed(q) <=> Partly(q)
      BY <1>0, <3>1 DEF PartialInv, Relisting, Partly
    <3>3. call'[x].at = "list" /\ call'[x].obj = o /\ call'[x].old = page[p] /\ ~ page[p].frozen
      BY <1>1, <1>10, <1>12, <2>1 DEF NeedsList
    <3>4. \A q \in Pages : Relisting(q)' <=> q = p
      BY <3>1, <3>3 DEF Relisting, Slab
    <3>5. \A q \in Pages \ {p} : Listed(q)' <=> Partly(q)'
      BY <1>9, <3>2 DEF Listed, Partly
    <3>6. /\ page'[p].slab /\ ~ page'[p].frozen /\ page'[p].freelist # NULL
          /\ page'[p].inuse < page[p].inuse
          /\ (\E i \in DOMAIN partial' : partial'[i] = p) <=> page[p].freelist # NULL
      <4>1. Listed(p) <=> page[p].freelist # NULL
        BY <1>1, <3>2, <3>3 DEF Partly
      <4> QED BY <1>1, <1>8, <1>9, <3>3, <4>1 DEF Listed
    <3>7. \A i, j \in DOMAIN partial' : partial'[i] = partial'[j] => i = j
      BY <1>0 DEF PartialInv
    <3>8. \A q \in Pages : ~ Relisting(q)' => (Listed(q)' <=> Partly(q)')
      BY <3>4, <3>5
    <3>9. \A y \in Ctx : call'[y].at = "list" =>
            LET r == Slab(call'[y].obj)
                v == call'[y].old
            IN  /\ page'[r].slab /\ ~ page'[r].frozen /\ page'[r].freelist # NULL
                /\ page'[r].inuse < v.inuse
                /\ (\E i \in DOMAIN partial' : partial'[i] = r) <=> v.freelist # NULL
      BY <3>1, <3>3, <3>6
    <3> QED BY <3>7, <3>8, <3>9 DEF PartialInv, Partly, Listed, Slab
  <2>2. CASE list_lock # x
    <3>1. \A y \in Ctx : call[y].at = "list" => call[y].obj \in Objects
      BY <1>0 DEF PlaceInv
    <3>2. \A q \in Pages : Partly(q)' <=> Partly(q)
      <4>1. ~ page[p].frozen => page[p].freelist # NULL
        BY <1>1, <2>2 DEF NeedsList
      <4>2. Partly(p)' <=> Partly(p)
        BY <1>1, <1>9, <4>1 DEF Partly
      <4>3. \A q \in Pages \ {p} : Partly(q)' <=> Partly(q)
        BY <1>9 DEF Partly
      <4> QED BY <4>2, <4>3
    <3>3. \A q \in Pages : page'[q].inuse <= page[q].inuse
      <4>1. \A q \in Pages : page[q].inuse \in Nat
        BY <1>0 DEF TypeOK, Page
      <4> QED BY <1>8, <1>9, <4>1
    <3>4. call'[x].at # "list" /\ call[x].at # "list" /\ partial' = partial
      BY <1>10, <1>12, <2>2
    <3> QED BY <1>0, <1>9, <1>13, <3>1, <3>2, <3>3, <3>4, PartialStep
  <2> QED BY <2>1, <2>2
<1>25. BootInv'
  BY <1>0, <1>13, BootStep
<1>26. Inv(pl2, rk2)'
  BY <1>15, <1>16, <1>17, <1>18, <1>20, <1>21, <1>22, <1>23, <1>24, <1>25 DEF Inv, NoBug
<1> QED BY <1>26 DEF IInv

LEMMA StepSlabCmpxchg ==
    ASSUME NEW pl, NEW rk, Inv(pl, rk), NEW x \in Ctx, slab_free_cmpxchg(x) PROVE IInv'
<1>0. TypeOK /\ PlaceInv(pl) /\ OldInv
  BY DEF Inv
<1>1. /\ call[x].at = "slab_cmpxchg" /\ Running(x) /\ bug' = FALSE
      /\ UNCHANGED <<fp, cpu_slab, partial, held, smp>>
  BY DEF slab_free_cmpxchg, At
<1>2. PICK o \in Objects : o = call[x].obj
  BY <1>0, <1>1 DEF PlaceInv, FreePC
<1>3. PICK p \in Pages : p = Slab(o)
  BY ObjectFacts
<1>4. CASE page[p] = call[x].old
  <2>1. Pushes(x, o, p) /\ list_lock' = list_lock
    BY <1>2, <1>3, <1>4 DEF slab_free_cmpxchg, Unchanged, Pushes
  <2> QED BY <1>1, <1>2, <1>3, <1>4, <2>1, PushPage
<1>5. CASE page[p] # call[x].old
  <2>1. /\ GotoSlow(x, "slab_free") /\ page' = page
        /\ list_lock' = IF list_lock = x THEN NULL ELSE list_lock
    BY <1>2, <1>3, <1>5 DEF slab_free_cmpxchg, Unchanged
  <2> DEFINE k == [Idle EXCEPT !.at = "slab_free", !.obj = call[x].obj]
  <2>2. k \in Call /\ k.at = "slab_free" /\ k.obj = call[x].obj
    BY <1>2, Records DEF Idle, Call
  <2>3. call' = [call EXCEPT ![x] = k]
    BY <2>1 DEF GotoSlow
  <2> HIDE DEF k
  <2>4. call' \in [Ctx -> Call] /\ call'[x] = k /\ Others(x)
    BY <1>0, <2>2, <2>3, SetCall DEF TypeOK
  <2>5. /\ list_lock' \in Ctx \cup {NULL} /\ list_lock' # x
        /\ \A y \in Ctx \ {x} : list_lock' = y <=> list_lock = y
    BY <1>0, <2>1, SlubAssumption DEF TypeOK
  <2>6. Steps(x)
    BY <1>1, <2>4, <2>5 DEF Steps
  <2>7. k.at \in FreePC /\ call[x].at \in FreePC /\ k.at \notin RefillPC
    BY <1>1, <2>2 DEF FreePC, RefillPC
  <2>8. UNCHANGED <<page, fp, cpu_slab, partial, held>>
    BY <1>1, <2>1
  <2>9. Inv(pl, rk)'
    BY <1>1, <2>2, <2>4, <2>5, <2>6, <2>7, <2>8, CallStep
  <2> QED BY <2>9 DEF IInv
<1> QED BY <1>4, <1>5

(* The holder of the lock brings the list up to date: the slab stays or is discarded. *)
LEMMA StepList ==
    ASSUME NEW pl, NEW rk, Inv(pl, rk), NEW x \in Ctx, slab_free_list(x) PROVE IInv'
<1>0. /\ TypeOK /\ ListsInv(pl, rk) /\ PlaceInv(pl) /\ PageInv(rk)
      /\ FrozenInv /\ TidInv /\ IrqInv /\ SlowInv /\ OldInv /\ PartialInv /\ BootInv
  BY DEF Inv
<1>1. /\ call[x].at = "list" /\ Running(x) /\ bug' = FALSE /\ list_lock' = NULL
      /\ Return(x) /\ UNCHANGED <<cpu_slab, held, smp>>
  BY DEF slab_free_list, At
<1>2. PICK o \in Objects : o = call[x].obj
  BY <1>0, <1>1 DEF PlaceInv
<1>3. PICK p \in Pages : p = Slab(o)
  BY ObjectFacts
<1> DEFINE v == call[x].old
<1>4. /\ list_lock = x /\ NULL \notin Ctx
      /\ \A y \in Ctx \ {x} : call[y].at # "list" /\ call[y].at # "acquire_slab"
  BY <1>0, <1>1, SlubAssumption DEF IrqInv
<1>5. /\ call' \in [Ctx -> Call] /\ call'[x] = Idle /\ Others(x)
      /\ Idle.at = "idle" /\ ~ Idle.fresh
      /\ "idle" \notin FreePC \cup RefillPC \cup {"list", "slow"}
  <2>1. call' = [call EXCEPT ![x] = Idle]
    BY <1>1 DEF Return
  <2> QED BY <1>0, <2>1, Records, SetCall DEF TypeOK, Idle, FreePC, RefillPC
<1>6. \A y \in Ctx \ {x} : list_lock' = y <=> list_lock = y
  BY <1>1, <1>4
<1>7. Steps(x)
  BY <1>1, <1>5, <1>6 DEF Steps
<1>8. /\ page[p].slab /\ ~ page[p].frozen /\ page[p].freelist # NULL
      /\ page[p].inuse < v.inuse /\ (Listed(p) <=> v.freelist # NULL)
  BY <1>0, <1>1, <1>2, <1>3 DEF PartialInv
<1>9. \A q \in Pages \ {p} : Listed(q) <=> Partly(q)
  <2>1. \A q \in Pages \ {p} : ~ Relisting(q)
    BY <1>2, <1>3, <1>4 DEF Relisting
  <2> QED BY <1>0, <2>1 DEF PartialInv, Partly
<1>10. \A q \in Objects : pl[q] # InCall(x)
  BY <1>0, <1>1 DEF PlaceInv, FreePC
<1>11. partial \in Seq(Pages) /\ \A i, j \in DOMAIN partial : partial[i] = partial[j] => i = j
  BY <1>0 DEF TypeOK, PartialInv
<1>12. \A y \in Ctx : C(y)' = C(y)
  BY <1>1 DEF C
<1>13. /\ IrqInv' /\ SlowInv' /\ BootInv'
  <2>1. IrqInv'
    BY <1>0, <1>1, <1>4, <1>5, <1>7, IrqStep
  <2>2. SlowInv'
    BY <1>0, <1>5, <1>7, <1>12, SlowStep
  <2>3. BootInv'
    BY <1>0, <1>7, BootStep
  <2> QED BY <2>1, <2>2, <2>3
<1>14. \A y \in Ctx : call'[y].at # "list"
  BY <1>4, <1>5 DEF Others
<1>15. CASE /\ ~ Surplus(v.inuse - 1, Len(partial))
            /\ partial' = IF v.freelist = NULL THEN Append(partial, p) ELSE partial
            /\ UNCHANGED <<page, fp>>
  <2>1. /\ partial' \in Seq(Pages)
        /\ \A i, j \in DOMAIN partial' : partial'[i] = partial'[j] => i = j
        /\ \A q : (\E i \in DOMAIN partial' : partial'[i] = q)
                     <=> q = p \/ \E i \in DOMAIN partial : partial[i] = q
    <3>1. CASE v.freelist = NULL
      <4>1. partial' = Append(partial, p) /\ \A i \in DOMAIN partial : partial[i] # p
        BY <1>8, <1>15, <3>1 DEF Listed
      <4> DEFINE n == Len(partial)
      <4>2. /\ n \in Nat /\ partial' \in Seq(Pages) /\ DOMAIN partial = 1 .. n
            /\ DOMAIN partial' = 1 .. n + 1 /\ partial'[n + 1] = p
            /\ \A i \in 1 .. n : partial'[i] = partial[i]
        BY <1>11, <4>1
      <4> HIDE DEF n
      <4>3. \A i \in 1 .. n + 1 : i \in 1 .. n \/ i = n + 1
        BY <4>2
      <4>4. \A i \in 1 .. n : i \in 1 .. n + 1
        BY <4>2
      <4>5. n + 1 \in 1 .. n + 1
        BY <4>2
      <4>6. \A i, j \in DOMAIN partial' : partial'[i] = partial'[j] => i = j
        BY <1>11, <4>1, <4>2, <4>3
      <4>7. \A q : (\E i \in DOMAIN partial' : partial'[i] = q)
                     <=> q = p \/ \E i \in DOMAIN partial : partial[i] = q
        BY <4>2, <4>3, <4>4, <4>5
      <4> QED BY <4>2, <4>6, <4>7
    <3>2. CASE v.freelist # NULL
      BY <1>8, <1>11, <1>15, <3>2 DEF Listed
    <3> QED BY <3>1, <3>2
  <2>2. PartialInv'
    <3>1. \A q \in Pages : Listed(q)' <=> q = p \/ Listed(q)
      BY <2>1 DEF Listed
    <3>2. \A q \in Pages : Partly(q)' <=> Partly(q)
      BY <1>15 DEF Partly
    <3>3. Partly(p)
      BY <1>8 DEF Partly
    <3> QED BY <1>9, <1>14, <2>1, <3>1, <3>2, <3>3, PartialQuiet
  <2>3. TypeOK'
    <3>1. UNCHANGED <<page, fp, cpu_slab, held, smp>>
      BY <1>1, <1>15
    <3> QED BY <1>0, <1>1, <1>5, <2>1, <3>1 DEF TypeOK, Page, Call, Cpus, Objects
  <2>4. UNCHANGED <<page, fp, cpu_slab, held>>
    BY <1>1, <1>15
  <2>5. ListsInv(pl, rk)' /\ PageInv(rk)'
    <3> DEFINE L == {}
    <3>1. /\ \A q \in Pages : OnPage(q) \notin L
          /\ \A d \in Cpus : OnCpu(d) \notin L
      OBVIOUS
    <3> HIDE DEF L
    <3>m. ListsMove(pl, rk, pl, rk, L)
      BY <2>4, <3>1 DEF ListsMove
    <3> QED BY <1>0, <3>m, ListsStep
  <2>6. PlaceInv(pl)'
    <3>1. call'[x].at \notin FreePC \cup {"list"} /\ call[x].at \notin FreePC
      BY <1>1, <1>5 DEF FreePC
    <3> QED BY <1>0, <1>7, <2>4, <3>1, PlaceSame
  <2>7. FrozenInv'
    BY <1>0, <2>4, FrozenFrame
  <2>8. KeepsLinks(x, pl)
    BY <2>4 DEF KeepsLinks
  <2>9. TidInv' /\ OldInv'
    <3>1. TidInv'
      BY <1>0, <1>5, <1>7, <1>12, <2>8, TidStep
    <3>2. OldInv'
      BY <1>0, <1>4, <1>5, <1>7, <2>8, OldStep
    <3> QED BY <3>1, <3>2
  <2>10. Inv(pl, rk)'
    BY <1>1, <1>13, <2>2, <2>3, <2>5, <2>6, <2>7, <2>9 DEF Inv, NoBug
  <2> QED BY <2>10 DEF IInv
<1>16. CASE /\ Surplus(v.inuse - 1, Len(partial))
            /\ partial' = IF v.freelist = NULL THEN partial ELSE list_del(partial, p)
            /\ discard_slab(p, fp)
  <2>1. /\ partial' \in Seq(Pages)
        /\ \A i, j \in DOMAIN partial' : partial'[i] = partial'[j] => i = j
        /\ \A q : (\E i \in DOMAIN partial' : partial'[i] = q)
                     <=> q # p /\ \E i \in DOMAIN partial : partial[i] = q
    <3>1. CASE v.freelist = NULL
      BY <1>8, <1>11, <1>16, <3>1 DEF Listed
    <3>2. CASE v.freelist # NULL
      <4>1. \E i \in DOMAIN partial : partial[i] = p
        BY <1>8, <3>2 DEF Listed
      <4> DEFINE t == list_del(partial, p)
      <4>2. /\ t \in Seq(Pages)
            /\ \A i, j \in DOMAIN t : t[i] = t[j] => i = j
            /\ \A q : (\E i \in DOMAIN t : t[i] = q)
                       <=> q # p /\ \E i \in DOMAIN partial : partial[i] = q
        BY <1>11, <4>1, ListDel
      <4>3. partial' = t
        BY <1>16, <3>2
      <4> HIDE DEF t
      <4> QED BY <4>2, <4>3
    <3> QED BY <3>1, <3>2
  <2>2. /\ page' = [page EXCEPT ![p] = Unused]
        /\ fp' = [q \in Objects |-> IF Slab(q) = p THEN UserData ELSE fp[q]]
    BY <1>16 DEF discard_slab
  <2>3. /\ page' \in [Pages -> Page] /\ page'[p] = Unused
        /\ \A q \in Pages \ {p} : page'[q] = page[q]
        /\ ~ Unused.slab /\ ~ Unused.frozen /\ Unused.freelist = NULL
    BY <1>0, <2>2, Records DEF TypeOK, Unused
  <2>4. /\ fp' \in [Objects -> Objects \cup {NULL, UserData}]
        /\ \A q \in Objects : Slab(q) # p => fp'[q] = fp[q]
    BY <1>0, <2>2 DEF TypeOK
  <2>5. \A q \in Objects : pl[q] = OnPage(p) <=> Slab(q) = p
    <3>1. IsList(fp, pl, rk, OnPage(p), page[p].freelist)
      BY <1>0 DEF ListsInv
    <3>2. \A q \in Objects : pl[q] = OnPage(p) => Slab(q) = p
      BY <1>0 DEF PlaceInv
    <3>3. Size(rk, page[p].freelist) = objects[p]
      <4>1. page[p].inuse \in Nat /\ v.inuse \in Nat /\ v.inuse - 1 = 0
        BY <1>0, <1>16 DEF TypeOK, Page, Call, Surplus
      <4>2. page[p].inuse = 0
        BY <1>8, <4>1
      <4>3. Size(rk, page[p].freelist) \in Nat /\ objects[p] \in Nat
        BY <3>1, SizeType, ObjectFacts
      <4>4. page[p].inuse + Size(rk, page[p].freelist) = objects[p]
        BY <1>0, <1>8 DEF PageInv
      <4> QED BY <4>2, <4>3, <4>4
    <3>4. \A q \in Objects : Slab(q) = p => pl[q] = OnPage(p)
      BY <3>1, <3>2, <3>3, PageBound
    <3> QED BY <3>2, <3>4
  <2> DEFINE pl2 == [q \in Objects |-> IF Slab(q) = p THEN Nowhere ELSE pl[q]]
  <2>6. /\ pl2 \in [Objects -> Places]
        /\ \A q \in Objects : /\ Slab(q) = p => pl2[q] = Nowhere
                              /\ Slab(q) # p => pl2[q] = pl[q]
    BY <1>0, PlacesIn DEF PlaceInv
  <2> HIDE DEF pl2
  <2>7. PartialInv'
    <3>1. \A q \in Pages : Listed(q)' <=> q # p /\ Listed(q)
      BY <2>1 DEF Listed
    <3>2. \A q \in Pages : Partly(q)' <=> q # p /\ Partly(q)
      BY <2>3 DEF Partly
    <3> QED BY <1>9, <1>14, <2>1, <3>1, <3>2, PartialQuiet
  <2>8. TypeOK'
    <3>1. UNCHANGED <<cpu_slab, held, smp>>
      BY <1>1
    <3> QED BY <1>0, <1>1, <1>5, <2>1, <2>3, <2>4, <3>1 DEF TypeOK, Page, Call, Cpus, Objects
  <2>9. ListsInv(pl2, rk)' /\ PageInv(rk)'
    <3> DEFINE L == {OnPage(p), Nowhere}
    <3>1. /\ \A q \in Pages : OnPage(q) \in L <=> q = p
          /\ \A d \in Cpus : OnCpu(d) \notin L
      BY PlacesApart
    <3>2. /\ \A q \in Objects : pl2[q] # pl[q] => pl[q] \in L /\ pl2[q] \in L
          /\ \A q \in Objects : pl[q] \notin L => fp'[q] = fp[q]
      BY <2>4, <2>5, <2>6
    <3> HIDE DEF L
    <3>3. \A q \in Objects : pl2[q] # OnPage(p)
      BY <2>5, <2>6, PlacesApart
    <3>4. IsList(fp', pl2, rk, OnPage(p), NULL)
      BY <3>3, ListEmpty
    <3>5. /\ \A q \in Pages : OnPage(q) \notin L => page'[q] = page[q]
          /\ \A q \in Pages : OnPage(q) \in L =>
                /\ IsList(fp', pl2, rk, OnPage(q), page'[q].freelist)
                /\ page'[q].slab => page'[q].inuse + Size(rk, page'[q].freelist) = objects[q]
                /\ ~ page'[q].slab => page'[q] = Unused
      BY <2>3, <3>1, <3>4
    <3>6. \A d \in Cpus : cpu_slab'[d].freelist = cpu_slab[d].freelist
      BY <1>1
    <3>m. ListsMove(pl, rk, pl2, rk, L)
      BY <3>1, <3>2, <3>5, <3>6 DEF ListsMove
    <3> QED BY <1>0, <3>m, ListsStep
  <2>10. PlaceInv(pl2)'
    <3>1. ASSUME NEW q \in Objects
          PROVE  /\ pl2[q] = WithUser <=> q \in held'
                 /\ pl2[q] = Nowhere <=> ~ page'[Slab(q)].slab
                 /\ \A r \in Pages : pl2[q] = OnPage(r) => Slab(q) = r
                 /\ \A d \in Cpus : pl2[q] = OnCpu(d) /\ cpu_slab'[d].page # NULL
                                       => Slab(q) = cpu_slab'[d].page
                 /\ pl2[q] = InCall(x) <=> call'[x].at \in FreePC /\ call'[x].obj = q
                 /\ \A y \in Ctx \ {x} : pl2[q] = InCall(y) <=> pl[q] = InCall(y)
      <4>1. CASE Slab(q) = p
        <5>1. pl[q] = OnPage(p) /\ pl2[q] = Nowhere /\ q \notin held
          BY <1>0, <2>5, <2>6, <4>1, PlacesApart DEF PlaceInv
        <5> QED BY <1>1, <1>5, <2>3, <4>1, <5>1, PlacesApart
      <4>2. CASE Slab(q) # p
        <5>1. pl2[q] = pl[q] /\ pl[q] # InCall(x) /\ page'[Slab(q)] = page[Slab(q)]
          BY <1>10, <2>3, <2>6, <4>2, ObjectFacts
        <5>2. call'[x].at \notin FreePC /\ UNCHANGED <<cpu_slab, held>>
          BY <1>1, <1>5
        <5> QED BY <1>0, <5>1, <5>2 DEF PlaceInv
      <4> QED BY <4>1, <4>2
    <3>2. TwoLevels => \A q \in Objects : pl2[q] # Lost
      BY <1>0, <2>6, PlacesApart DEF PlaceInv
    <3>3. call'[x].at \in FreePC \cup {"list"} => call'[x].obj \in Objects
      BY <1>5
    <3> QED BY <1>0, <1>7, <2>6, <3>1, <3>2, <3>3, PlaceStep
  <2>11. FrozenInv'
    <3>1. \A q \in Pages : page'[q].frozen <=> page[q].frozen
      BY <1>8, <2>3
    <3>2. \A c \in Cpus : cpu_slab'[c] = cpu_slab[c]
      BY <1>1
    <3>3. Cpus' = Cpus
      BY DEF Cpus
    <3> QED BY <1>0, <3>1, <3>2, <3>3 DEF FrozenInv
  <2>12. KeepsLinks(x, pl)
    BY <2>4, <2>5, PlacesApart DEF KeepsLinks
  <2>13. TidInv' /\ OldInv'
    <3>1. TidInv'
      BY <1>0, <1>5, <1>7, <1>12, <2>12, TidStep
    <3>2. OldInv'
      BY <1>0, <1>4, <1>5, <1>7, <2>12, OldStep
    <3> QED BY <3>1, <3>2
  <2>14. Inv(pl2, rk)'
    BY <1>1, <1>13, <2>7, <2>8, <2>9, <2>10, <2>11, <2>13 DEF Inv, NoBug
  <2> QED BY <2>14 DEF IInv
<1> QED BY <1>2, <1>3, <1>15, <1>16 DEF slab_free_list

-----------------------------------------------------------------------------
(* Boot *)

(* The list of place m goes, reversed, in front of the list of place l. *)
Reverses(f, pl, rk, l, h, m, g, f2, pl2, rk2, e) ==
    /\ IsList(f, pl, rk, l, h) /\ IsList(f, pl, rk, m, g) /\ l # m /\ g # NULL
    /\ e \in Objects /\ pl[e] = m /\ rk[e] = 1
    /\ \A o \in Objects : pl2[o] = l <=> pl[o] \in {l, m}
    /\ \A o \in Objects : pl[o] = l => f2[o] = f[o] /\ rk2[o] = rk[o]
    /\ \A o \in Objects : pl[o] = m =>
          /\ rk2[o] = Size(rk, h) + Size(rk, g) - rk[o] + 1
          /\ o = g => f2[o] = h
          /\ o # g => f2[o] \in Objects /\ pl[f2[o]] = m /\ rk[f2[o]] = rk[o] + 1

LEMMA ListReversed ==
    ASSUME NEW f, NEW pl, NEW rk, NEW l, NEW h, NEW m, NEW g, NEW f2, NEW pl2, NEW rk2, NEW e,
           Reverses(f, pl, rk, l, h, m, g, f2, pl2, rk2, e)
    PROVE  IsList(f2, pl2, rk2, l, e) /\ Size(rk2, e) = Size(rk, h) + Size(rk, g)
<1>1. /\ IsList(f, pl, rk, l, h) /\ IsList(f, pl, rk, m, g) /\ l # m /\ g # NULL
      /\ e \in Objects /\ pl[e] = m /\ rk[e] = 1
      /\ \A o \in Objects : pl2[o] = l <=> pl[o] \in {l, m}
      /\ \A o \in Objects : pl[o] = l => f2[o] = f[o] /\ rk2[o] = rk[o]
      /\ \A o \in Objects : pl[o] = m =>
            /\ rk2[o] = Size(rk, h) + Size(rk, g) - rk[o] + 1
            /\ o = g => f2[o] = h
            /\ o # g => f2[o] \in Objects /\ pl[f2[o]] = m /\ rk[f2[o]] = rk[o] + 1
  BY DEF Reverses
<1> QED BY <1>1, ListReverse

(* deactivate_slab: the objects of CPU c go to the list of slab p. *)
LEMMA Pushing ==
    ASSUME NEW pl, NEW rk, NEW p \in Pages, NEW c, NEW g, TypeOK,
           IsList(fp, pl, rk, OnPage(p), page[p].freelist), IsList(fp, pl, rk, OnCpu(c), g),
           NEW pl2, NEW rk2,
           \A o \in Objects : pl2[o] = IF pl[o] = OnCpu(c) THEN OnPage(p) ELSE pl[o],
           \A o \in Objects : rk2[o] = IF pl[o] = OnCpu(c)
                                       THEN Size(rk, page[p].freelist) + Size(rk, g) - rk[o] + 1
                                       ELSE rk[o]
    PROVE  LET l == List(g)
               e == IF l = <<>> THEN page[p].freelist ELSE Last(l)
           IN  /\ Len(l) = Size(rk, g) /\ e \in Objects \cup {NULL}
               /\ Pushed(p, l) \in [Objects -> Objects \cup {NULL, UserData}]
               /\ \A o \in Objects : pl[o] # OnCpu(c) => Pushed(p, l)[o] = fp[o]
               /\ IsList(Pushed(p, l), pl2, rk2, OnPage(p), e)
               /\ Size(rk2, e) = Size(rk, page[p].freelist) + Size(rk, g)
<1> DEFINE l == List(g)
           e == IF l = <<>> THEN page[p].freelist ELSE Last(l)
           f == Pushed(p, l)
<1>1. PICK s \in Nat : s = Size(rk, g) /\ (s = 0 <=> g = NULL)
                       /\ \A o \in Objects : pl[o] = OnCpu(c) => rk[o] \in 1 .. s
  BY SizeType
<1>2. /\ l = [i \in 1 .. s |-> Walk(g)[i - 1]]
      /\ \A i \in 1 .. s : /\ Walk(g)[i - 1] \in Objects /\ pl[Walk(g)[i - 1]] = OnCpu(c)
                           /\ rk[Walk(g)[i - 1]] = s - i + 1
  <2>1. /\ List(g) = [i \in 1 .. Size(rk, g) |-> Walk(g)[i - 1]]
        /\ \A i \in 1 .. Size(rk, g) :
              /\ Walk(g)[i - 1] \in Objects /\ pl[Walk(g)[i - 1]] = OnCpu(c)
              /\ rk[Walk(g)[i - 1]] = Size(rk, g) - i + 1
    BY LinkedIs
  <2> QED BY <1>1, <2>1
<1>3. /\ l \in Seq(Objects) /\ Len(l) = s /\ DOMAIN l = 1 .. s
      /\ \A i \in 1 .. s : l[i] \in Objects /\ pl[l[i]] = OnCpu(c) /\ rk[l[i]] = s - i + 1
  <2> HIDE DEF l
  <2>1. DOMAIN l = 1 .. s /\ \A i \in 1 .. s : l[i] = Walk(g)[i - 1]
    BY <1>2
  <2>2. l \in [1 .. s -> Objects]
    BY <1>2
  <2>3. l \in Seq(Objects) /\ Len(l) = s
    BY <2>2
  <2> QED BY <1>2, <2>1, <2>3
<1>4. page[p].freelist \in Objects \cup {NULL}
  BY DEF TypeOK, Page
<1> HIDE DEF l
<1>5. ASSUME NEW o \in Objects, pl[o] = OnCpu(c)
      PROVE  s - rk[o] + 1 \in 1 .. s /\ l[s - rk[o] + 1] = o
  <2>1. rk[o] \in 1 .. s
    BY <1>1, <1>5
  <2>2. s - rk[o] + 1 \in 1 .. s /\ s - (s - rk[o] + 1) + 1 = rk[o]
    BY <2>1
  <2>3. l[s - rk[o] + 1] \in Objects /\ pl[l[s - rk[o] + 1]] = OnCpu(c) /\ rk[l[s - rk[o] + 1]] = rk[o]
    BY <1>3, <2>2
  <2> QED BY <1>5, <2>2, <2>3 DEF IsList
<1>6. ASSUME NEW o \in Objects, pl[o] = OnCpu(c)
      PROVE  f[o] = IF rk[o] = s THEN page[p].freelist ELSE l[s - rk[o]]
  <2> DEFINE j == CHOOSE i \in DOMAIN l : l[i] = o
  <2>1. \E i \in DOMAIN l : l[i] = o
    BY <1>3, <1>5, <1>6
  <2>2. j \in 1 .. s /\ l[j] = o
    BY <1>3, <2>1
  <2>3. rk[o] = s - j + 1
    BY <1>3, <2>2
  <2>4. f[o] = IF j = 1 THEN page[p].freelist ELSE l[j - 1]
    BY <2>1 DEF Pushed
  <2> HIDE DEF j
  <2>5. (j = 1 <=> rk[o] = s) /\ j - 1 = s - rk[o]
    BY <2>2, <2>3
  <2> QED BY <2>4, <2>5
<1>7. ASSUME NEW o \in Objects, pl[o] # OnCpu(c) PROVE f[o] = fp[o]
  <2>1. ~ \E i \in DOMAIN l : l[i] = o
    BY <1>3, <1>7
  <2> QED BY <2>1 DEF Pushed
<1>8. ASSUME NEW o \in Objects, pl[o] = OnCpu(c), rk[o] # s
      PROVE  /\ f[o] = l[s - rk[o]] /\ f[o] \in Objects /\ pl[f[o]] = OnCpu(c)
             /\ rk[f[o]] = rk[o] + 1
  <2>1. rk[o] \in 1 .. s
    BY <1>1, <1>8
  <2>2. s - rk[o] \in 1 .. s /\ s - (s - rk[o]) + 1 = rk[o] + 1
    BY <1>8, <2>1
  <2> QED BY <1>3, <1>6, <1>8, <2>2
<1>9. f \in [Objects -> Objects \cup {NULL, UserData}]
  <2>1. \A o \in Objects : f[o] \in Objects \cup {NULL, UserData}
    BY <1>4, <1>6, <1>7, <1>8 DEF TypeOK
  <2>2. f = [o \in Objects |-> f[o]]
    BY DEF Pushed
  <2> QED BY <2>1, <2>2
<1> HIDE DEF f
<1>10. CASE g = NULL
  <2>1. s = 0 /\ l = <<>> /\ \A o \in Objects : pl[o] # OnCpu(c)
    BY <1>1, <1>3, <1>10 DEF IsList
  <2>2. e = page[p].freelist
    BY <2>1
  <2>3. /\ \A o \in Objects : pl2[o] = OnPage(p) <=> pl[o] = OnPage(p)
        /\ \A o \in Objects : pl[o] = OnPage(p) => f[o] = fp[o] /\ rk2[o] = rk[o]
    BY <1>7, <2>1
  <2> HIDE DEF e
  <2>4. IsList(f, pl2, rk2, OnPage(p), e) /\ Size(rk2, e) = Size(rk, page[p].freelist)
    BY <2>2, <2>3, ListFrame
  <2>5. Size(rk, page[p].freelist) \in Nat
    BY SizeType
  <2> QED BY <1>1, <1>3, <1>4, <1>7, <1>9, <2>1, <2>2, <2>4, <2>5 DEF l, e, f
<1>11. CASE g # NULL
  <2>1. s # 0 /\ l # <<>> /\ g \in Objects /\ pl[g] = OnCpu(c) /\ rk[g] = s
    BY <1>1, <1>3, <1>11 DEF IsList, Size
  <2>2. e = l[s] /\ e \in Objects /\ pl[e] = OnCpu(c) /\ rk[e] = 1
    <3>1. s \in 1 .. s /\ s - s + 1 = 1
      BY <2>1
    <3>2. e = l[s]
      BY <1>3, <2>1 DEF Last
    <3> QED BY <1>3, <3>1, <3>2
  <2> HIDE DEF e
  <2>3. OnPage(p) # OnCpu(c)
    BY PlacesApart
  <2>4. /\ \A o \in Objects : pl2[o] = OnPage(p) <=> pl[o] \in {OnPage(p), OnCpu(c)}
        /\ \A o \in Objects : pl[o] = OnPage(p) => f[o] = fp[o] /\ rk2[o] = rk[o]
    BY <1>7, <2>3
  <2>5. ASSUME NEW o \in Objects, pl[o] = OnCpu(c)
        PROVE  /\ rk2[o] = Size(rk, page[p].freelist) + Size(rk, g) - rk[o] + 1
               /\ o = g => f[o] = page[p].freelist
               /\ o # g => f[o] \in Objects /\ pl[f[o]] = OnCpu(c) /\ rk[f[o]] = rk[o] + 1
    <3>1. o # g => rk[o] # s
      BY <2>1, <2>5 DEF IsList
    <3> QED BY <1>6, <1>8, <2>1, <2>5, <3>1
  <2>6. IsList(f, pl2, rk2, OnPage(p), e) /\ Size(rk2, e) = Size(rk, page[p].freelist) + Size(rk, g)
    <3>1. Reverses(fp, pl, rk, OnPage(p), page[p].freelist, OnCpu(c), g, f, pl2, rk2, e)
      BY <1>11, <2>2, <2>3, <2>4, <2>5 DEF Reverses
    <3> QED BY <3>1, ListReversed
  <2> QED BY <1>1, <1>3, <1>7, <1>9, <2>2, <2>6 DEF l, e, f
<1> QED BY <1>10, <1>11

(* The slab that is put on the list. *)
LEMMA ListAdd ==
    ASSUME NEW s \in Seq(Pages), NEW p \in Pages, \A i \in DOMAIN s : s[i] # p,
           \A i, j \in DOMAIN s : s[i] = s[j] => i = j,
           NEW t, t = Append(s, p) \/ t = <<p>> \o s
    PROVE  /\ t \in Seq(Pages)
           /\ \A i, j \in DOMAIN t : t[i] = t[j] => i = j
           /\ \A q : (\E i \in DOMAIN t : t[i] = q) <=> q = p \/ \E i \in DOMAIN s : s[i] = q
<1>1. CASE t = Append(s, p)
  <2>1. /\ t \in Seq(Pages) /\ Len(t) = Len(s) + 1 /\ Len(s) \in Nat
        /\ DOMAIN s = 1 .. Len(s) /\ DOMAIN t = 1 .. Len(s) + 1
        /\ t[Len(s) + 1] = p /\ \A i \in 1 .. Len(s) : t[i] = s[i]
    BY <1>1
  <2>2. \A q : (\E i \in DOMAIN t : t[i] = q) <=> q = p \/ \E i \in DOMAIN s : s[i] = q
    <3> TAKE q
    <3>1. ASSUME NEW i \in DOMAIN t, t[i] = q PROVE q = p \/ \E j \in DOMAIN s : s[j] = q
      BY <2>1, <3>1
    <3>2. ASSUME NEW i \in DOMAIN s, s[i] = q PROVE \E j \in DOMAIN t : t[j] = q
      BY <2>1, <3>2
    <3>3. Len(s) + 1 \in DOMAIN t
      BY <2>1
    <3> QED BY <2>1, <3>1, <3>2, <3>3
  <2>3. \A i, j \in DOMAIN t : t[i] = t[j] => i = j
    BY <2>1
  <2> QED BY <2>1, <2>2, <2>3
<1>2. CASE t = <<p>> \o s
  <2>1. /\ t \in Seq(Pages) /\ Len(t) = Len(s) + 1 /\ Len(s) \in Nat
        /\ DOMAIN s = 1 .. Len(s) /\ DOMAIN t = 1 .. Len(s) + 1
        /\ t[1] = p /\ \A i \in 2 .. Len(s) + 1 : t[i] = s[i - 1]
    BY <1>2
  <2>2. \A q : (\E i \in DOMAIN t : t[i] = q) <=> q = p \/ \E i \in DOMAIN s : s[i] = q
    <3> TAKE q
    <3>1. ASSUME NEW i \in DOMAIN t, t[i] = q PROVE q = p \/ \E j \in DOMAIN s : s[j] = q
      <4>1. CASE i = 1
        BY <2>1, <3>1, <4>1
      <4>2. CASE i # 1
        <5>1. i \in 2 .. Len(s) + 1 /\ i - 1 \in DOMAIN s
          BY <2>1, <4>2
        <5> QED BY <2>1, <3>1, <5>1
      <4> QED BY <4>1, <4>2
    <3>2. ASSUME NEW i \in DOMAIN s, s[i] = q PROVE \E j \in DOMAIN t : t[j] = q
      <4>1. i + 1 \in DOMAIN t /\ i + 1 \in 2 .. Len(s) + 1 /\ (i + 1) - 1 = i
        BY <2>1
      <4>2. t[i + 1] = q
        BY <2>1, <3>2, <4>1
      <4> QED BY <4>1, <4>2
    <3>3. 1 \in DOMAIN t
      BY <2>1
    <3> QED BY <2>1, <3>1, <3>2, <3>3
  <2>3. \A i, j \in DOMAIN t : t[i] = t[j] => i = j
    <3> SUFFICES ASSUME NEW i \in DOMAIN t, NEW j \in DOMAIN t, t[i] = t[j] PROVE i = j
      OBVIOUS
    <3>1. i # 1 => i \in 2 .. Len(s) + 1 /\ i - 1 \in DOMAIN s
      BY <2>1
    <3>2. j # 1 => j \in 2 .. Len(s) + 1 /\ j - 1 \in DOMAIN s
      BY <2>1
    <3>3. CASE i = 1 \/ j = 1
      BY <2>1, <3>1, <3>2, <3>3
    <3>4. CASE i # 1 /\ j # 1
      <4>1. s[i - 1] = s[j - 1]
        BY <2>1, <3>1, <3>2, <3>4
      <4>2. i - 1 = j - 1
        BY <3>1, <3>2, <3>4, <4>1
      <4> QED BY <2>1, <4>2
    <3> QED BY <3>3, <3>4
  <2> QED BY <2>1, <2>2, <2>3
<1> QED BY <1>1, <1>2

(* A state in which nobody is inside a call. *)
LEMMA QuietStep ==
    ASSUME \A y \in Ctx : call'[y].at = "idle", list_lock' = NULL
    PROVE  TidInv' /\ IrqInv' /\ SlowInv' /\ OldInv' /\ BootInv'
<1>1. NULL \notin Ctx
  BY SlubAssumption
<1>2. IrqInv'
  BY <1>1 DEF IrqInv, IrqsOff
<1>3. TidInv' /\ OldInv' /\ BootInv'
  BY DEF TidInv, OldInv, BootInv
<1>4. SlowInv'
  BY DEF SlowInv, RefillPC
<1> QED BY <1>2, <1>3, <1>4

(* What flush_cpu_slab does: D are the pages and f the links after deactivate_slab. *)
Flushes(x, p, D, f) ==
    /\ \/ Surplus(D[p].inuse, Len(partial)) /\ discard_slab(p, f) /\ UNCHANGED partial
       \/ /\ ~ Surplus(D[p].inuse, Len(partial))
          /\ page' = D /\ fp' = f
          /\ partial' = IF D[p].freelist = NULL THEN partial
                        ELSE IF page[p].freelist # NULL THEN Append(partial, p)
                        ELSE <<p>> \o partial
    /\ SetC(x, NoSlab) /\ Bump(x, Idle)
    /\ UNCHANGED <<list_lock, held, smp>>

LEMMA StepFlush ==
    ASSUME NEW pl, NEW rk, Inv(pl, rk), NEW x \in Ctx, flush_cpu_slab(x)
    PROVE  IInv'
<1>0. /\ TypeOK /\ ListsInv(pl, rk) /\ PlaceInv(pl) /\ PageInv(rk)
      /\ FrozenInv /\ TidInv /\ IrqInv /\ SlowInv /\ OldInv /\ PartialInv /\ BootInv
  BY DEF Inv
<1> DEFINE c == smp_processor_id[x]
<1>1. /\ ~ smp /\ x = Boot /\ MayCall(x) /\ Running(x) /\ call[x].at = "idle"
      /\ C(x).page # NULL /\ c \in Cpus
  BY DEF flush_cpu_slab, MayCall, Cpus
<1>2. PICK p \in Pages, g \in Objects \cup {NULL} :
         /\ p = C(x).page /\ g = C(x).freelist
         /\ p = cpu_slab[c].page /\ g = cpu_slab[c].freelist
  <2>1. cpu_slab[c] \in [freelist : Objects \cup {NULL}, page : Pages \cup {NULL}]
    BY <1>0, <1>1 DEF TypeOK
  <2> QED BY <1>1, <2>1 DEF C
<1>3. PICK h \in Objects \cup {NULL}, n \in Nat : /\ h = page[p].freelist /\ n = page[p].inuse
                                                  /\ page[p].frozen /\ page[p].slab
  <2>1. page[p] \in Page
    BY <1>0 DEF TypeOK
  <2>2. page[p].frozen
    BY <1>0, <1>1, <1>2 DEF FrozenInv
  <2>3. page[p].slab
    BY <1>0, <2>2, FrozenSlab
  <2> QED BY <2>1, <2>2, <2>3 DEF Page
<1>4. PICK l : l = List(g)
  OBVIOUS
<1>5. PICK f, e : f = Pushed(p, l) /\ e = IF l = <<>> THEN h ELSE Last(l)
  OBVIOUS
<1>6. PICK D : D = Deactivated(p, l)
  OBVIOUS
<1>7. bug' = FALSE /\ Flushes(x, p, D, f)
  BY <1>2, <1>3, <1>4, <1>5, <1>6 DEF flush_cpu_slab, Flushes
<1>8. \A y \in Ctx : call[y].at = "idle" /\ list_lock = NULL
  <2>1. \A y \in Ctx : call[y].at = "idle"
    BY <1>0, <1>1 DEF BootInv
  <2>2. list_lock \in Ctx \cup {NULL}
    BY <1>0 DEF TypeOK
  <2> QED BY <1>0, <2>1, <2>2 DEF IrqInv
<1> DEFINE pl1 == [o \in Objects |-> IF pl[o] = OnCpu(c) THEN OnPage(p) ELSE pl[o]]
           rk1 == [o \in Objects |-> IF pl[o] = OnCpu(c)
                                     THEN Size(rk, h) + Size(rk, g) - rk[o] + 1 ELSE rk[o]]
<1>9. /\ IsList(fp, pl, rk, OnPage(p), h) /\ IsList(fp, pl, rk, OnCpu(c), g)
      /\ Size(rk, h) \in Nat /\ Size(rk, g) \in Nat
      /\ n + Size(rk, h) = objects[p] /\ objects[p] \in Nat \ {0}
  <2>1. IsList(fp, pl, rk, OnPage(p), h) /\ IsList(fp, pl, rk, OnCpu(c), g)
    BY <1>0, <1>1, <1>2, <1>3 DEF ListsInv
  <2>2. n + Size(rk, h) = objects[p]
    BY <1>0, <1>3 DEF PageInv
  <2> QED BY <2>1, <2>2, SizeType, ObjectFacts
<1>10. /\ \A o \in Objects : pl1[o] = IF pl[o] = OnCpu(c) THEN OnPage(p) ELSE pl[o]
       /\ \A o \in Objects : rk1[o] = IF pl[o] = OnCpu(c)
                                      THEN Size(rk, h) + Size(rk, g) - rk[o] + 1 ELSE rk[o]
       /\ pl1 \in [Objects -> Places]
  BY <1>0, PlacesIn DEF PlaceInv
<1> HIDE DEF pl1, rk1
<1>11. /\ Len(l) = Size(rk, g) /\ e \in Objects \cup {NULL}
       /\ f \in [Objects -> Objects \cup {NULL, UserData}]
       /\ \A o \in Objects : pl[o] # OnCpu(c) => f[o] = fp[o]
       /\ IsList(f, pl1, rk1, OnPage(p), e)
       /\ Size(rk1, e) = Size(rk, h) + Size(rk, g)
  <2>1. /\ IsList(fp, pl, rk, OnPage(p), page[p].freelist)
        /\ \A o \in Objects : rk1[o] = IF pl[o] = OnCpu(c)
                              THEN Size(rk, page[p].freelist) + Size(rk, g) - rk[o] + 1 ELSE rk[o]
    BY <1>3, <1>9, <1>10
  <2> QED BY <1>0, <1>3, <1>4, <1>5, <1>9, <1>10, <2>1, Pushing
<1>12. \A o \in Objects : pl1[o] = OnPage(p) => Slab(o) = p
  <2>1. \A o \in Objects : pl[o] = OnCpu(c) => Slab(o) = p
    BY <1>0, <1>1, <1>2 DEF PlaceInv
  <2>2. \A o \in Objects : pl[o] = OnPage(p) => Slab(o) = p
    BY <1>0 DEF PlaceInv
  <2> QED BY <1>10, <2>1, <2>2
<1>13. /\ n - Len(l) \in Nat /\ (n - Len(l)) + Size(rk1, e) = objects[p]
       /\ n - Len(l) = 0 => \A o \in Objects : Slab(o) = p => pl1[o] = OnPage(p)
  <2>1. /\ Size(rk1, e) <= objects[p]
        /\ Size(rk1, e) = objects[p] => \A o \in Objects : Slab(o) = p => pl1[o] = OnPage(p)
    BY <1>11, <1>12, PageBound
  <2> QED BY <1>9, <1>11, <2>1
<1>14. /\ D \in [Pages -> Page] /\ \A q \in Pages \ {p} : D[q] = page[q]
       /\ D[p].freelist = e /\ D[p].inuse = n - Len(l) /\ D[p].slab /\ ~ D[p].frozen
  <2>1. page \in [Pages -> Page] /\ page[p] \in Page
    BY <1>0 DEF TypeOK
  <2>2. D = [page EXCEPT ![p] = [slab |-> TRUE, freelist |-> e, inuse |-> n - Len(l),
                                 frozen |-> FALSE]]
    BY <1>3, <1>5, <1>6, <2>1 DEF Deactivated, Page
  <2>3. [slab |-> TRUE, freelist |-> e, inuse |-> n - Len(l), frozen |-> FALSE] \in Page
    BY <1>11, <1>13 DEF Page
  <2> QED BY <2>1, <2>2, <2>3
<1>15. /\ Idle \in Call /\ Idle.at = "idle" /\ Idle.obj = NULL
       /\ call' \in [Ctx -> Call] /\ call'[x] = Idle /\ Others(x)
  <2>1. Idle \in Call /\ Idle.at = "idle" /\ Idle.obj = NULL
    BY Records DEF Idle
  <2>2. Bump(x, Idle)
    BY <1>7 DEF Flushes
  <2> QED BY <1>0, <2>1, <2>2, BumpCall DEF TypeOK
<1>16. /\ cpu_slab' \in [Cpus -> [freelist : Objects \cup {NULL}, page : Pages \cup {NULL}]]
       /\ cpu_slab'[c].freelist = NULL /\ cpu_slab'[c].page = NULL
       /\ \A d \in Cpus \ {c} : cpu_slab'[d] = cpu_slab[d]
  BY <1>0, <1>7, SetCpu DEF NoSlab, Flushes
<1>17. list_lock' = NULL /\ held' = held /\ smp' = smp
  BY <1>1, <1>8 DEF Flushes, flush_cpu_slab
<1>18. \A y \in Ctx : call'[y].at = "idle"
  BY <1>8, <1>15 DEF Others
<1>19. Steps(x)
  BY <1>1, <1>8, <1>15, <1>17 DEF Steps
<1>20. TidInv' /\ IrqInv' /\ SlowInv' /\ OldInv' /\ BootInv'
  BY <1>17, <1>18, QuietStep
<1>21. ASSUME ~ page'[p].frozen, \A q \in Pages \ {p} : page'[q] = page[q] PROVE FrozenInv'
  <2>1. ASSUME NEW q \in Pages PROVE page'[q].frozen <=> \E d \in Cpus : cpu_slab'[d].page = q
    <3>1. \A d \in Cpus : cpu_slab'[d].page = q <=> d # c /\ cpu_slab[d].page = q
      BY <1>16, ObjectFacts
    <3>2. CASE q = p
      <4>1. \A d \in Cpus \ {c} : cpu_slab[d].page # p
        BY <1>0, <1>1, <1>2, ObjectFacts DEF FrozenInv
      <4> QED BY <1>21, <3>1, <3>2, <4>1
    <3>3. CASE q # p
      <4>1. page[q].frozen <=> \E d \in Cpus : cpu_slab[d].page = q
        BY <1>0 DEF FrozenInv
      <4>2. cpu_slab[c].page # q
        BY <1>2, <3>3
      <4> QED BY <1>21, <3>1, <3>3, <4>1, <4>2
    <3> QED BY <3>2, <3>3
  <2>2. \A d, k \in Cpus : cpu_slab'[d].page = cpu_slab'[k].page /\ cpu_slab'[d].page # NULL => d = k
    BY <1>0, <1>1, <1>16 DEF FrozenInv
  <2>3. Cpus' = Cpus
    BY DEF Cpus
  <2> QED BY <2>1, <2>2, <2>3 DEF FrozenInv
<1>22. /\ \A q \in Pages : Listed(q) <=> Partly(q)
       /\ ~ Partly(p)
       /\ \A i, j \in DOMAIN partial : partial[i] = partial[j] => i = j
       /\ partial \in Seq(Pages)
  BY <1>0, <1>3, <1>8 DEF PartialInv, Partly, Relisting, TypeOK
<1>23. /\ \A o \in Objects : pl1[o] # OnCpu(c) /\ (pl1[o] # OnPage(p) => pl1[o] = pl[o])
       /\ \A q \in Pages : OnPage(q) \in {OnPage(p), OnCpu(c)} <=> q = p
       /\ \A d \in Cpus : OnCpu(d) \in {OnPage(p), OnCpu(c)} <=> d = c
  BY <1>10, PlacesApart
<1>24. CASE Surplus(D[p].inuse, Len(partial))
  <2>1. /\ partial' = partial /\ page' = [page EXCEPT ![p] = Unused]
        /\ fp' = [o \in Objects |-> IF Slab(o) = p THEN UserData ELSE f[o]]
    BY <1>7, <1>24 DEF Flushes, discard_slab
  <2>2. /\ page' \in [Pages -> Page] /\ page'[p] = Unused
        /\ \A q \in Pages \ {p} : page'[q] = page[q]
        /\ ~ Unused.slab /\ ~ Unused.frozen /\ Unused.freelist = NULL
    BY <1>0, <2>1, Records DEF TypeOK, Unused
  <2>3. \A q \in Objects : pl1[q] = OnPage(p) <=> Slab(q) = p
    <3>1. n - Len(l) = 0
      BY <1>14, <1>24 DEF Surplus
    <3> QED BY <1>12, <1>13, <3>1
  <2>4. /\ fp' \in [Objects -> Objects \cup {NULL, UserData}]
        /\ \A q \in Objects : Slab(q) # p => fp'[q] = fp[q]
    <3>1. \A q \in Objects : Slab(q) # p => pl[q] # OnCpu(c)
      BY <1>10, <2>3
    <3> QED BY <1>11, <2>1, <3>1
  <2> DEFINE pl2 == [q \in Objects |-> IF Slab(q) = p THEN Nowhere ELSE pl[q]]
  <2>5. /\ pl2 \in [Objects -> Places]
        /\ \A q \in Objects : /\ Slab(q) = p => pl2[q] = Nowhere
                              /\ Slab(q) # p => pl2[q] = pl[q]
    BY <1>0, PlacesIn DEF PlaceInv
  <2> HIDE DEF pl2
  <2>6. \A q \in Objects : pl[q] \in {OnPage(p), OnCpu(c)} <=> Slab(q) = p
    BY <1>10, <2>3, PlacesApart
  <2>7. PartialInv'
    <3>1. \A q \in Pages : Listed(q)' <=> Listed(q)
      BY <2>1 DEF Listed
    <3>2. \A q \in Pages : Partly(q)' <=> Partly(q)
      BY <1>22, <2>2 DEF Partly
    <3> QED BY <1>18, <1>22, <2>1, <3>1, <3>2, PartialQuiet
  <2>8. TypeOK'
    BY <1>0, <1>7, <1>15, <1>16, <1>17, <2>1, <2>2, <2>4 DEF TypeOK, Page, Call, Cpus, Objects
  <2>9. ListsInv(pl2, rk)' /\ PageInv(rk)'
    <3> DEFINE L == {OnPage(p), OnCpu(c), Nowhere}
    <3>1. /\ \A q \in Pages : OnPage(q) \in L <=> q = p
          /\ \A d \in Cpus : OnCpu(d) \in L <=> d = c
      BY PlacesApart
    <3>2. /\ \A q \in Objects : pl2[q] # pl[q] => pl[q] \in L /\ pl2[q] \in L
          /\ \A q \in Objects : pl[q] \notin L => fp'[q] = fp[q]
      BY <2>4, <2>5, <2>6
    <3> HIDE DEF L
    <3>3. \A q \in Objects : pl2[q] # OnPage(p) /\ pl2[q] # OnCpu(c)
      BY <2>5, <2>6, PlacesApart
    <3>4. IsList(fp', pl2, rk, OnPage(p), NULL) /\ IsList(fp', pl2, rk, OnCpu(c), NULL)
      BY <3>3, ListEmpty
    <3>5. /\ \A q \in Pages : OnPage(q) \notin L => page'[q] = page[q]
          /\ \A q \in Pages : OnPage(q) \in L =>
                /\ IsList(fp', pl2, rk, OnPage(q), page'[q].freelist)
                /\ page'[q].slab => page'[q].inuse + Size(rk, page'[q].freelist) = objects[q]
                /\ ~ page'[q].slab => page'[q] = Unused
      BY <2>2, <3>1, <3>4
    <3>6. /\ \A d \in Cpus : OnCpu(d) \notin L => cpu_slab'[d].freelist = cpu_slab[d].freelist
          /\ \A d \in Cpus : OnCpu(d) \in L =>
                IsList(fp', pl2, rk, OnCpu(d), cpu_slab'[d].freelist)
      BY <1>16, <3>1, <3>4
    <3>m. ListsMove(pl, rk, pl2, rk, L)
      BY <3>2, <3>5, <3>6 DEF ListsMove
    <3> QED BY <1>0, <3>m, ListsStep
  <2>10. PlaceInv(pl2)'
    <3>1. ASSUME NEW q \in Objects
          PROVE  /\ pl2[q] = WithUser <=> q \in held'
                 /\ pl2[q] = Nowhere <=> ~ page'[Slab(q)].slab
                 /\ \A r \in Pages : pl2[q] = OnPage(r) => Slab(q) = r
                 /\ \A d \in Cpus : pl2[q] = OnCpu(d) /\ cpu_slab'[d].page # NULL
                                       => Slab(q) = cpu_slab'[d].page
                 /\ pl2[q] = InCall(x) <=> call'[x].at \in FreePC /\ call'[x].obj = q
                 /\ \A y \in Ctx \ {x} : pl2[q] = InCall(y) <=> pl[q] = InCall(y)
      <4>0. call'[x].at \notin FreePC /\ \A y \in Ctx : pl[q] # InCall(y)
        BY <1>0, <1>8, <1>18 DEF PlaceInv, FreePC
      <4>1. CASE Slab(q) = p
        <5>1. pl[q] # WithUser /\ q \notin held /\ pl2[q] = Nowhere
          BY <1>0, <2>5, <2>6, <4>1, PlacesApart DEF PlaceInv
        <5> QED BY <1>17, <2>2, <4>0, <4>1, <5>1, PlacesApart
      <4>2. CASE Slab(q) # p
        <5>1. pl2[q] = pl[q] /\ pl[q] # OnCpu(c) /\ page'[Slab(q)] = page[Slab(q)]
          BY <2>2, <2>5, <2>6, <4>2, ObjectFacts
        <5>2. \A d \in Cpus \ {c} : cpu_slab'[d].page = cpu_slab[d].page
          BY <1>16
        <5> QED BY <1>0, <1>17, <4>0, <5>1, <5>2 DEF PlaceInv
      <4> QED BY <4>1, <4>2
    <3>2. TwoLevels => \A q \in Objects : pl2[q] # Lost
      BY <1>0, <2>5, PlacesApart DEF PlaceInv
    <3>3. call'[x].at \notin FreePC \cup {"list"}
      BY <1>18 DEF FreePC
    <3> QED BY <1>0, <1>19, <2>5, <3>1, <3>2, <3>3, PlaceStep
  <2>11. FrozenInv'
    BY <1>21, <2>2
  <2>12. Inv(pl2, rk)'
    BY <1>7, <1>20, <2>7, <2>8, <2>9, <2>10, <2>11 DEF Inv, NoBug
  <2> QED BY <2>12 DEF IInv
<1>25. CASE ~ Surplus(D[p].inuse, Len(partial))
  <2>1. /\ page' = D /\ fp' = f
        /\ partial' = IF e = NULL THEN partial
                      ELSE IF h # NULL THEN Append(partial, p) ELSE <<p>> \o partial
    BY <1>3, <1>7, <1>14, <1>25 DEF Flushes
  <2>2. /\ page' \in [Pages -> Page] /\ \A q \in Pages \ {p} : page'[q] = page[q]
        /\ page'[p].freelist = e /\ page'[p].inuse = n - Len(l)
        /\ page'[p].slab /\ ~ page'[p].frozen
    BY <1>14, <2>1
  <2>3. partial' \in Seq(Pages) /\ PartialInv'
    <3>1. \A q \in Pages : Partly(q)' <=> (q = p /\ e # NULL) \/ Partly(q)
      BY <1>22, <2>2 DEF Partly
    <3>2. CASE e = NULL
      <4>1. partial' = partial
        BY <2>1, <3>2
      <4>2. \A q \in Pages : Listed(q)' <=> Listed(q)
        BY <4>1 DEF Listed
      <4> QED BY <1>18, <1>22, <3>1, <3>2, <4>1, <4>2, PartialQuiet
    <3>3. CASE e # NULL
      <4>1. partial' = Append(partial, p) \/ partial' = <<p>> \o partial
        BY <2>1, <3>3
      <4>2. PICK s, t : s = partial /\ t = partial'
        OBVIOUS
      <4>3. /\ t \in Seq(Pages)
            /\ \A i, j \in DOMAIN t : t[i] = t[j] => i = j
            /\ \A q : (\E i \in DOMAIN t : t[i] = q) <=> q = p \/ \E i \in DOMAIN s : s[i] = q
        <5>1. /\ s \in Seq(Pages) /\ \A i \in DOMAIN s : s[i] # p
              /\ \A i, j \in DOMAIN s : s[i] = s[j] => i = j
          BY <1>22, <4>2 DEF Listed
        <5>2. t = Append(s, p) \/ t = <<p>> \o s
          BY <4>1, <4>2
        <5> QED BY <5>1, <5>2, ListAdd
      <4>4. \A q \in Pages : Listed(q)' <=> q = p \/ Listed(q)
        BY <4>2, <4>3 DEF Listed
      <4>5. /\ partial' \in Seq(Pages)
            /\ \A i, j \in DOMAIN partial' : partial'[i] = partial'[j] => i = j
        BY <4>2, <4>3
      <4> QED BY <1>18, <1>22, <3>1, <3>3, <4>4, <4>5, PartialQuiet
    <3> QED BY <3>2, <3>3
  <2>4. TypeOK'
    <3>1. fp' \in [Objects -> Objects \cup {NULL, UserData}]
      BY <1>11, <2>1
    <3> QED BY <1>0, <1>7, <1>15, <1>16, <1>17, <2>2, <2>3, <3>1 DEF TypeOK, Page, Call, Cpus, Objects
  <2>5. ListsInv(pl1, rk1)' /\ PageInv(rk1)'
    <3> DEFINE L == {OnPage(p), OnCpu(c)}
    <3>1. /\ \A q \in Pages : OnPage(q) \in L <=> q = p
          /\ \A d \in Cpus : OnCpu(d) \in L <=> d = c
      BY <1>23
    <3>2. /\ \A q \in Objects : pl1[q] # pl[q] => pl[q] \in L /\ pl1[q] \in L
          /\ \A q \in Objects : pl[q] \notin L => fp'[q] = fp[q] /\ rk1[q] = rk[q]
      BY <1>10, <1>11, <2>1
    <3> HIDE DEF L
    <3>3. IsList(fp', pl1, rk1, OnCpu(c), NULL)
      BY <1>23, ListEmpty
    <3>4. IsList(fp', pl1, rk1, OnPage(p), page'[p].freelist)
      BY <1>11, <2>1, <2>2
    <3>5. page'[p].inuse + Size(rk1, page'[p].freelist) = objects[p]
      BY <1>13, <2>2
    <3>6. /\ \A q \in Pages : OnPage(q) \notin L => page'[q] = page[q]
          /\ \A q \in Pages : OnPage(q) \in L =>
                /\ IsList(fp', pl1, rk1, OnPage(q), page'[q].freelist)
                /\ page'[q].slab => page'[q].inuse + Size(rk1, page'[q].freelist) = objects[q]
                /\ ~ page'[q].slab => page'[q] = Unused
      BY <2>2, <3>1, <3>4, <3>5
    <3>7. /\ \A d \in Cpus : OnCpu(d) \notin L => cpu_slab'[d].freelist = cpu_slab[d].freelist
          /\ \A d \in Cpus : OnCpu(d) \in L =>
                IsList(fp', pl1, rk1, OnCpu(d), cpu_slab'[d].freelist)
      BY <1>16, <3>1, <3>3
    <3>m. ListsMove(pl, rk, pl1, rk1, L)
      BY <3>2, <3>6, <3>7 DEF ListsMove
    <3> QED BY <1>0, <3>m, ListsStep
  <2>6. PlaceInv(pl1)'
    <3>1. ASSUME NEW q \in Objects
          PROVE  /\ pl1[q] = WithUser <=> q \in held'
                 /\ pl1[q] = Nowhere <=> ~ page'[Slab(q)].slab
                 /\ \A r \in Pages : pl1[q] = OnPage(r) => Slab(q) = r
                 /\ \A d \in Cpus : pl1[q] = OnCpu(d) /\ cpu_slab'[d].page # NULL
                                       => Slab(q) = cpu_slab'[d].page
                 /\ pl1[q] = InCall(x) <=> call'[x].at \in FreePC /\ call'[x].obj = q
                 /\ \A y \in Ctx \ {x} : pl1[q] = InCall(y) <=> pl[q] = InCall(y)
      <4>0. call'[x].at \notin FreePC /\ \A y \in Ctx : pl[q] # InCall(y)
        BY <1>0, <1>8, <1>18 DEF PlaceInv, FreePC
      <4>1. page'[Slab(q)].slab <=> page[Slab(q)].slab
        <5>1. CASE Slab(q) = p
          BY <1>3, <2>2, <5>1
        <5>2. CASE Slab(q) # p
          BY <2>2, <5>2, ObjectFacts
        <5> QED BY <5>1, <5>2
      <4>2. CASE pl[q] = OnCpu(c)
        <5>1. pl1[q] = OnPage(p) /\ Slab(q) = p /\ page[Slab(q)].slab /\ q \notin held
          BY <1>0, <1>3, <1>10, <1>12, <4>2, PlacesApart DEF PlaceInv
        <5> QED BY <1>17, <4>0, <4>1, <5>1, PlacesApart
      <4>3. CASE pl[q] # OnCpu(c)
        <5>1. pl1[q] = pl[q]
          BY <1>10, <4>3
        <5>2. \A d \in Cpus \ {c} : cpu_slab'[d].page = cpu_slab[d].page
          BY <1>16
        <5> QED BY <1>0, <1>17, <4>0, <4>1, <4>3, <5>1, <5>2 DEF PlaceInv
      <4> QED BY <4>2, <4>3
    <3>2. TwoLevels => \A q \in Objects : pl1[q] # Lost
      BY <1>0, <1>10, PlacesApart DEF PlaceInv
    <3>3. call'[x].at \notin FreePC \cup {"list"}
      BY <1>18 DEF FreePC
    <3> QED BY <1>0, <1>10, <1>19, <3>1, <3>2, <3>3, PlaceStep
  <2>7. FrozenInv'
    BY <1>21, <2>2
  <2>8. Inv(pl1, rk1)'
    BY <1>7, <1>20, <2>3, <2>4, <2>5, <2>6, <2>7 DEF Inv, NoBug
  <2> QED BY <2>8 DEF IInv
<1> QED BY <1>24, <1>25

-----------------------------------------------------------------------------
(* The invariant holds at the start and after every step *)

LEMMA Quiet ==
    ASSUME \A y \in Ctx : call[y].at = "idle", list_lock = NULL
    PROVE  TidInv /\ IrqInv /\ SlowInv /\ OldInv /\ BootInv
<1>1. NULL \notin Ctx
  BY SlubAssumption
<1>2. IrqInv
  BY <1>1 DEF IrqInv, IrqsOff
<1>3. TidInv /\ OldInv /\ BootInv
  BY DEF TidInv, OldInv, BootInv
<1>4. SlowInv
  BY DEF SlowInv, RefillPC
<1> QED BY <1>2, <1>3, <1>4

LEMMA InitInv ==
    ASSUME Init PROVE IInv
<1>1. /\ cpu_slab = [c \in Cpus |-> NoSlab] /\ list_lock = NULL
      /\ call = [x \in Ctx |-> Idle] /\ smp = FALSE /\ bug = FALSE
  BY DEF Init
<1>2. /\ \A y \in Ctx : call[y] = Idle /\ call[y].at = "idle"
      /\ call \in [Ctx -> Call]
  BY <1>1, Records DEF Idle
<1>3. /\ \A c \in Cpus : cpu_slab[c].freelist = NULL /\ cpu_slab[c].page = NULL
      /\ cpu_slab \in [Cpus -> [freelist : Objects \cup {NULL}, page : Pages \cup {NULL}]]
  BY <1>1 DEF NoSlab
<1>4. TidInv /\ IrqInv /\ SlowInv /\ OldInv /\ BootInv /\ NoBug
  BY <1>1, <1>2, Quiet DEF NoBug
<1>5. /\ ~ Unused.slab /\ ~ Unused.frozen /\ Unused.freelist = NULL /\ Unused \in Page
  BY Records DEF Unused
<1>6. ASSUME NEW pl, NEW rk, page \in [Pages -> Page],
             fp \in [Objects -> Objects \cup {NULL, UserData}], partial \in Seq(Pages),
             held \subseteq Objects, pl \in [Objects -> {WithUser, Nowhere} \cup {OnPage(p) : p \in Pages}],
             \A o \in Objects : /\ pl[o] = WithUser <=> o \in held
                                /\ pl[o] = Nowhere <=> ~ page[Slab(o)].slab
                                /\ \A p \in Pages : pl[o] = OnPage(p) => Slab(o) = p,
             \A p \in Pages : ~ page[p].frozen,
             \A p \in Pages : IsList(fp, pl, rk, OnPage(p), page[p].freelist),
             PageInv(rk),
             \A i, j \in DOMAIN partial : partial[i] = partial[j] => i = j,
             \A p \in Pages : Listed(p) <=> Partly(p)
      PROVE  Inv(pl, rk)
  <2>1. TypeOK
    BY <1>1, <1>2, <1>3, <1>6 DEF TypeOK
  <2>2. \A o \in Objects : /\ pl[o] \in Places /\ pl[o] # Lost
                           /\ \A c \in Cpus : pl[o] # OnCpu(c)
                           /\ \A x \in Ctx : pl[o] # InCall(x)
    <3> TAKE o \in Objects
    <3>1. pl[o] = WithUser \/ pl[o] = Nowhere \/ \E p \in Pages : pl[o] = OnPage(p)
      BY <1>6
    <3> QED BY <3>1, PlacesIn, PlacesApart
  <2>3. PlaceInv(pl)
    <3>1. pl \in [Objects -> Places]
      BY <1>6, <2>2
    <3>2. \A x \in Ctx : call[x].at \notin FreePC \cup {"list"}
      BY <1>2 DEF FreePC
    <3> QED BY <1>6, <2>2, <3>1, <3>2 DEF PlaceInv
  <2>4. ListsInv(pl, rk)
    <3>1. \A c \in Cpus : IsList(fp, pl, rk, OnCpu(c), NULL)
      BY <2>2, ListEmpty
    <3> QED BY <1>3, <1>6, <3>1 DEF ListsInv
  <2>5. FrozenInv
    <3>1. \A p \in Pages : p # NULL
      BY ObjectFacts
    <3> QED BY <1>3, <1>6, <3>1 DEF FrozenInv
  <2>6. PartialInv
    BY <1>2, <1>6 DEF PartialInv, Partly
  <2> QED BY <1>4, <1>6, <2>1, <2>3, <2>4, <2>5, <2>6 DEF Inv
<1>7. CASE init_kmem_cache_nodes
  <2> DEFINE pl == [o \in Objects |-> Nowhere]
             rk == [o \in Objects |-> 0]
  <2>1. /\ page \in [Pages -> Page] /\ \A p \in Pages : page[p] = Unused
        /\ fp \in [Objects -> Objects \cup {NULL, UserData}]
        /\ partial = <<>> /\ held = {}
    BY <1>5, <1>7 DEF init_kmem_cache_nodes
  <2>2. pl \in [Objects -> {WithUser, Nowhere} \cup {OnPage(p) : p \in Pages}]
    OBVIOUS
  <2>3. \A o \in Objects : pl[o] = Nowhere
    OBVIOUS
  <2> HIDE DEF pl, rk
  <2>4. \A o \in Objects : /\ pl[o] = WithUser <=> o \in held
                           /\ pl[o] = Nowhere <=> ~ page[Slab(o)].slab
                           /\ \A p \in Pages : pl[o] = OnPage(p) => Slab(o) = p
    BY <1>5, <2>1, <2>3, ObjectFacts, PlacesApart
  <2>5. \A p \in Pages : IsList(fp, pl, rk, OnPage(p), page[p].freelist)
    <3>1. \A p \in Pages : IsList(fp, pl, rk, OnPage(p), NULL)
      BY <2>3, ListEmpty, PlacesApart
    <3> QED BY <1>5, <2>1, <3>1
  <2>6. PageInv(rk) /\ \A p \in Pages : ~ page[p].frozen
    BY <1>5, <2>1 DEF PageInv
  <2>7. /\ partial \in Seq(Pages)
        /\ \A i, j \in DOMAIN partial : partial[i] = partial[j] => i = j
        /\ \A p \in Pages : Listed(p) <=> Partly(p)
    BY <1>5, <2>1 DEF Listed, Partly
  <2>8. Inv(pl, rk)
    BY <1>6, <2>1, <2>2, <2>4, <2>5, <2>6, <2>7
  <2> QED BY <2>8 DEF IInv
<1>8. CASE \E p \in Pages : early_kmem_cache_node_alloc(p)
  <2>1. PICK p \in Pages : early_kmem_cache_node_alloc(p)
    BY <1>8
  <2> DEFINE pl == [o \in Objects |-> IF Slab(o) # p THEN Nowhere
                                      ELSE IF o[2] = 1 THEN WithUser ELSE OnPage(p)]
             rk == [o \in Objects |-> objects[p] - o[2] + 1]
  <2>2. /\ objects[p] \in Nat /\ 1 < objects[p] /\ <<p, 1>> \in Objects /\ <<p, 2>> \in Objects
        /\ \A o \in Objects : Slab(o) = p => o[2] \in 1 .. objects[p] /\ o = <<p, o[2]>>
    <3>1. objects[p] \in Nat /\ 1 < objects[p]
      BY <2>1, ObjectFacts DEF early_kmem_cache_node_alloc
    <3>2. 1 \in 1 .. objects[p] /\ 2 \in 1 .. objects[p]
      BY <3>1
    <3> QED BY <3>1, <3>2, ObjectFacts
  <2>3. /\ page \in [Pages -> Page] /\ \A q \in Pages \ {p} : page[q] = Unused
        /\ page[p].slab /\ ~ page[p].frozen /\ page[p].inuse = 1 /\ page[p].freelist = <<p, 2>>
    <3>1. page = [q \in Pages |->
                    IF q = p THEN [slab |-> TRUE, inuse |-> 1, frozen |-> FALSE,
                                   freelist |-> <<p, 2>>]
                    ELSE Unused]
      BY <2>1 DEF early_kmem_cache_node_alloc
    <3>2. [slab |-> TRUE, inuse |-> 1, frozen |-> FALSE, freelist |-> <<p, 2>>] \in Page
      BY <2>2 DEF Page
    <3> QED BY <1>5, <3>1, <3>2
  <2>4. /\ fp = [o \in Objects |-> IF Slab(o) = p /\ 1 < o[2] /\ o[2] < objects[p]
                                   THEN <<p, o[2] + 1>>
                                   ELSE IF o = <<p, objects[p]>> THEN NULL ELSE UserData]
        /\ partial = <<p>> /\ held = {<<p, 1>>}
    BY <2>1 DEF early_kmem_cache_node_alloc
  <2>5. fp \in [Objects -> Objects \cup {NULL, UserData}]
    <3>1. ASSUME NEW o \in Objects, Slab(o) = p, o[2] < objects[p] PROVE <<p, o[2] + 1>> \in Objects
      <4>1. o[2] + 1 \in 1 .. objects[p]
        BY <2>2, <3>1
      <4> QED BY <4>1, ObjectFacts
    <3> QED BY <2>4, <3>1
  <2>6. \A o \in Objects : Slab(o) = p /\ o[2] # 1 =>
           /\ rk[o] = objects[p] - o[2] + 1
           /\ fp[o] = IF o[2] < objects[p] THEN <<p, o[2] + 1>> ELSE NULL
    <3> SUFFICES ASSUME NEW o \in Objects, Slab(o) = p, o[2] # 1
                 PROVE  fp[o] = IF o[2] < objects[p] THEN <<p, o[2] + 1>> ELSE NULL
      OBVIOUS
    <3>1. o[2] \in 1 .. objects[p] /\ o = <<p, o[2]>>
      BY <2>2
    <3>2. CASE o[2] < objects[p]
      BY <2>2, <2>4, <3>1, <3>2
    <3>3. CASE ~ (o[2] < objects[p])
      <4>1. o[2] = objects[p]
        BY <2>2, <3>1, <3>3
      <4>2. o = <<p, objects[p]>>
        BY <3>1, <4>1
      <4> QED BY <2>4, <3>3, <4>2
    <3> QED BY <3>2, <3>3
  <2>7. /\ \A o \in Objects : pl[o] = IF Slab(o) # p THEN Nowhere
                                      ELSE IF o[2] = 1 THEN WithUser ELSE OnPage(p)
        /\ pl \in [Objects -> {WithUser, Nowhere} \cup {OnPage(q) : q \in Pages}]
    OBVIOUS
  <2> HIDE DEF pl, rk
  <2>8. \A o \in Objects : /\ pl[o] = WithUser <=> o \in held
                           /\ pl[o] = Nowhere <=> ~ page[Slab(o)].slab
                           /\ \A q \in Pages : pl[o] = OnPage(q) => Slab(o) = q
    <3> TAKE o \in Objects
    <3>1. o \in held <=> Slab(o) = p /\ o[2] = 1
      BY <2>2, <2>4 DEF Slab
    <3>2. page[Slab(o)].slab <=> Slab(o) = p
      BY <1>5, <2>3, ObjectFacts
    <3> QED BY <2>7, <3>1, <3>2, PlacesApart
  <2>9. IsList(fp, pl, rk, OnPage(p), <<p, 2>>) /\ Size(rk, <<p, 2>>) = objects[p] - 1
    <3>1. \A o \in Objects : pl[o] = OnPage(p) <=> Slab(o) = p /\ o[2] # 1
      BY <2>7, PlacesApart
    <3>2. \A o \in Objects : Slab(o) = p /\ o[2] # 1 =>
             /\ rk[o] = objects[p] - o[2] + 1
             /\ fp[o] = IF o[2] < objects[p] THEN <<p, o[2] + 1>> ELSE NULL
      BY <2>6
    <3>3. IsNew(p, OnPage(p), fp, pl, rk)
      BY <3>1, <3>2 DEF IsNew
    <3> QED BY <2>2, <3>3, ListNew
  <2>10. \A q \in Pages : IsList(fp, pl, rk, OnPage(q), page[q].freelist)
    <3>1. \A q \in Pages \ {p} : IsList(fp, pl, rk, OnPage(q), NULL)
      BY <2>7, ListEmpty, PlacesApart
    <3>2. \A q \in Pages \ {p} : page[q].freelist = NULL
      BY <1>5, <2>3
    <3> QED BY <2>3, <2>9, <3>1, <3>2
  <2>11. PageInv(rk) /\ \A q \in Pages : ~ page[q].frozen
    <3>1. page[p].inuse + Size(rk, page[p].freelist) = objects[p]
      BY <2>2, <2>3, <2>9
    <3> QED BY <1>5, <2>3, <3>1 DEF PageInv
  <2>12. /\ partial \in Seq(Pages)
         /\ \A i, j \in DOMAIN partial : partial[i] = partial[j] => i = j
         /\ \A q \in Pages : Listed(q) <=> Partly(q)
    <3>1. /\ partial \in Seq(Pages) /\ DOMAIN partial = {1} /\ partial[1] = p
      BY <2>4
    <3>2. <<p, 2>> # NULL
      BY <2>2, ObjectFacts
    <3> QED BY <1>5, <2>3, <3>1, <3>2 DEF Listed, Partly
  <2>13. held \subseteq Objects
    BY <2>2, <2>4
  <2>14. Inv(pl, rk)
    BY <1>6, <2>3, <2>5, <2>7, <2>8, <2>10, <2>11, <2>12, <2>13
  <2> QED BY <2>14 DEF IInv
<1> QED BY <1>7, <1>8 DEF Init

LEMMA NextInv ==
    ASSUME IInv, [Next]_vars PROVE IInv'
<1>1. PICK pl, rk : Inv(pl, rk)
  BY DEF IInv
<1>2. CASE UNCHANGED vars
  <2>0. /\ page' = page /\ fp' = fp /\ cpu_slab' = cpu_slab /\ partial' = partial
        /\ list_lock' = list_lock /\ call' = call /\ held' = held /\ smp' = smp /\ bug' = bug
    BY <1>2 DEF vars
  <2>1. TypeOK'
    BY <1>1, <2>0 DEF Inv, TypeOK, Page, Call, Cpus, Objects
  <2>2. ListsInv(pl, rk)' /\ PageInv(rk)'
    BY <1>1, <2>0 DEF Inv, ListsInv, PageInv, IsList, Cpus, Objects, Unused
  <2>3. PlaceInv(pl)'
    BY <1>1, <2>0 DEF Inv, PlaceInv, Places, FreePC, TwoLevels, Cpus, Objects, Slab
  <2>4. FrozenInv' /\ BootInv' /\ NoBug'
    BY <1>1, <2>0 DEF Inv, FrozenInv, BootInv, NoBug, Cpus
  <2>5. TidInv' /\ SlowInv'
    BY <1>1, <2>0 DEF Inv, TidInv, SlowInv, C, TwoLevels, RefillPC, NoSlab, Slab
  <2>6. IrqInv' /\ OldInv'
    BY <1>1, <2>0 DEF Inv, IrqInv, IrqsOff, Neighbours, OldInv, NeedsList
  <2>7. PartialInv'
    BY <1>1, <2>0 DEF Inv, PartialInv, Relisting, Listed, Slab
  <2>8. Inv(pl, rk)'
    BY <2>1, <2>2, <2>3, <2>4, <2>5, <2>6, <2>7 DEF Inv
  <2> QED BY <2>8 DEF IInv
<1>3. CASE smp_up
  BY <1>1, <1>3, StepSmp
<1>4. ASSUME NEW x \in Ctx, kmem_cache_alloc(x) PROVE IInv'
  BY <1>1, <1>4, StepAlloc
<1>5. ASSUME NEW x \in Ctx, NEW o \in Objects, kmem_cache_free(x, o) PROVE IInv'
  BY <1>1, <1>5, StepFree
<1>6. ASSUME NEW x \in Ctx, flush_cpu_slab(x) PROVE IInv'
  BY <1>1, <1>6, StepFlush
<1>7. ASSUME NEW x \in Ctx, Step(x) PROVE IInv'
  <2>1. CASE fast_alloc(x)
    BY <1>1, <2>1, StepFastAlloc
  <2>2. CASE slab_alloc(x)
    BY <1>1, <2>2, StepSlabAlloc
  <2>3. CASE get_partial(x)
    BY <1>1, <2>3, StepGetPartial
  <2>4. CASE lock_partial(x)
    BY <1>1, <2>4, StepLockPartial
  <2>5. CASE acquire_slab(x)
    BY <1>1, <2>5, StepAcquire
  <2>6. CASE new_slab_objects(x)
    BY <1>1, <2>6, StepNewSlab
  <2>7. CASE fast_free(x)
    BY <1>1, <2>7, StepFastFree
  <2>8. CASE slab_free(x)
    BY <1>1, <2>8, StepSlabFree
  <2>9. CASE slab_free_lock(x)
    BY <1>1, <2>9, StepLock
  <2>10. CASE slab_free_cmpxchg(x)
    BY <1>1, <2>10, StepSlabCmpxchg
  <2>11. CASE slab_free_list(x)
    BY <1>1, <2>11, StepList
  <2> QED BY <1>7, <2>1, <2>2, <2>3, <2>4, <2>5, <2>6, <2>7, <2>8, <2>9, <2>10, <2>11 DEF Step
<1> QED BY <1>2, <1>3, <1>4, <1>5, <1>6, <1>7 DEF Next

(* The invariant of one cache: every object has a place, and the lists, the counters,
   the transaction ids and the lock of mm/slub.c agree with the places.  It holds for any
   CPUs, levels, slabs and objects. *)
THEOREM Invariance == Spec => []IInv
<1>1. Init => IInv
  BY InitInv
<1>2. IInv /\ [Next]_vars => IInv'
  BY NextInv
<1> QED BY <1>1, <1>2, PTL DEF Spec

-----------------------------------------------------------------------------
(* What follows from it *)

(* What the fast paths take for links are links: user data never gets into a free list. *)
THEOREM Types == Spec => []TypeOK
<1>1. IInv => TypeOK
  BY DEF IInv, Inv
<1> QED BY <1>1, Invariance, PTL

(* No BUG_ON or WARN_ON of ___slab_alloc, acquire_slab and deactivate_slab fires. *)
THEOREM NoAssertionFails == Spec => []NoBug
<1>1. IInv => NoBug
  BY DEF IInv, Inv
<1> QED BY <1>1, Invariance, PTL

(* A set with one element, and an empty one. *)
LEMMA OneOrNone ==
    ASSUME NEW S, \A a, b \in S : a = b
    PROVE  Cardinality(S) = IF S = {} THEN 0 ELSE 1
<1>1. CASE S = {}
  BY <1>1, FS_EmptySet
<1>2. CASE S # {}
  <2>1. PICK a : a \in S
    BY <1>2
  <2>2. S = {a}
    BY <2>1
  <2> QED BY <1>2, <2>2, FS_Singleton
<1> QED BY <1>1, <1>2

(* A slab's inuse is exactly what is not on its own list, and it is frozen exactly while
   it is the slab of one CPU: what __slab_free decides by without a look at the lists. *)
THEOREM CountersExact == Spec => []SlabsExact
<1>1. IInv => SlabsExact
  <2> SUFFICES ASSUME NEW pl, NEW rk, Inv(pl, rk) PROVE SlabsExact
    BY DEF IInv
  <2>1. ASSUME NEW p \in Pages, page[p].slab
        PROVE  page[p].inuse = objects[p] - Cardinality(Linked(page[p].freelist))
    <3>1. PICK h : h = page[p].freelist
      OBVIOUS
    <3>2. IsList(fp, pl, rk, OnPage(p), h) /\ page[p].inuse + Size(rk, h) = objects[p]
      BY <2>1, <3>1 DEF Inv, ListsInv, PageInv
    <3>3. Cardinality(Linked(h)) = Size(rk, h) /\ Size(rk, h) \in Nat
      BY <3>2, LinkedIs, SizeType
    <3>4. page[p].inuse \in Nat /\ objects[p] \in Nat
      BY ObjectFacts DEF Inv, TypeOK, Page
    <3> QED BY <3>1, <3>2, <3>3, <3>4
  <2>2. ASSUME NEW p \in Pages
        PROVE  Cardinality({c \in Cpus : cpu_slab[c].page = p}) = IF page[p].frozen THEN 1 ELSE 0
    <3> DEFINE S == {c \in Cpus : cpu_slab[c].page = p}
    <3>1. \A a, b \in S : a = b
      BY ObjectFacts DEF Inv, FrozenInv
    <3>2. page[p].frozen <=> S # {}
      BY DEF Inv, FrozenInv
    <3> HIDE DEF S
    <3>3. Cardinality(S) = IF S = {} THEN 0 ELSE 1
      BY <3>1, OneOrNone
    <3>4. Cardinality(S) = IF page[p].frozen THEN 1 ELSE 0
      BY <3>2, <3>3
    <3> QED BY <3>4 DEF S
  <2>3. \A x \in Ctx : call[x].at = "new_slab" => C(x).page = NULL
    BY DEF Inv, SlowInv, RefillPC
  <2> QED BY <2>1, <2>2, <2>3 DEF SlabsExact
<1> QED BY <1>1, Invariance, PTL

(* The node's partial list has every slab with free objects that is no CPU's, once, and
   no other, outside the critical section that is bringing it up to date. *)
THEOREM PartialListExact == Spec => []PartialExact
<1>1. IInv => PartialExact
  <2> SUFFICES ASSUME NEW pl, NEW rk, Inv(pl, rk), NEW p \in Pages, ~ Relisting(p)
               PROVE  Cardinality({i \in DOMAIN partial : partial[i] = p})
                      = IF Partly(p) THEN 1 ELSE 0
    BY DEF IInv, PartialExact, Partly
  <2> DEFINE S == {i \in DOMAIN partial : partial[i] = p}
  <2>1. \A i, j \in S : i = j
    BY DEF Inv, PartialInv
  <2>2. Partly(p) <=> S # {}
    BY DEF Inv, PartialInv, Partly, Listed
  <2> HIDE DEF S
  <2>3. Cardinality(S) = IF S = {} THEN 0 ELSE 1
    BY <2>1, OneOrNone
  <2>4. Cardinality(S) = IF Partly(p) THEN 1 ELSE 0
    BY <2>2, <2>3
  <2> QED BY <2>4 DEF S
<1> QED BY <1>1, Invariance, PTL

(* How often an object is somewhere: the sum of ObjectsExact. *)
Places_of(o) ==
    Cardinality({p \in Pages : o \in Linked(page[p].freelist)})
    + Cardinality({c \in Cpus : o \in Linked(cpu_slab[c].freelist)})
    + Cardinality({x \in Ctx : o \in BeingFreed(x)})
    + (IF o \in held THEN 1 ELSE 0)

(* No object is in two places, with any number of nested levels: no two callers are given
   the same object, and a free object is on one list only.  All lists end, and a page's
   list has objects of that page. *)
NoObjectShared ==
    /\ \A p \in Pages : Ends(page[p].freelist)
    /\ \A c \in Cpus : Ends(cpu_slab[c].freelist)
    /\ \A o \in Objects : /\ \A p \in Pages : o \in Linked(page[p].freelist) => Slab(o) = p
                          /\ Places_of(o) <= IF page[Slab(o)].slab THEN 1 ELSE 0

LEMMA PlacesCount ==
    ASSUME NEW pl, NEW rk, Inv(pl, rk), NEW o \in Objects
    PROVE  /\ Places_of(o) = IF pl[o] \in {Lost, Nowhere} THEN 0 ELSE 1
           /\ \A p \in Pages : o \in Linked(page[p].freelist) <=> pl[o] = OnPage(p)
           /\ \A p \in Pages : Ends(page[p].freelist)
           /\ \A c \in Cpus : Ends(cpu_slab[c].freelist)
<1>1. ASSUME NEW p \in Pages
      PROVE  Ends(page[p].freelist) /\ (o \in Linked(page[p].freelist) <=> pl[o] = OnPage(p))
  <2>1. PICK h : h = page[p].freelist
    OBVIOUS
  <2>2. IsList(fp, pl, rk, OnPage(p), h)
    BY <2>1 DEF Inv, ListsInv
  <2>3. Ends(h) /\ Linked(h) = Members(pl, OnPage(p))
    BY <2>2, LinkedIs
  <2> QED BY <2>1, <2>3 DEF Members
<1>2. ASSUME NEW c \in Cpus
      PROVE  Ends(cpu_slab[c].freelist) /\ (o \in Linked(cpu_slab[c].freelist) <=> pl[o] = OnCpu(c))
  <2>1. PICK h : h = cpu_slab[c].freelist
    OBVIOUS
  <2>2. IsList(fp, pl, rk, OnCpu(c), h)
    BY <2>1 DEF Inv, ListsInv
  <2>3. Ends(h) /\ Linked(h) = Members(pl, OnCpu(c))
    BY <2>2, LinkedIs
  <2> QED BY <2>1, <2>3 DEF Members
<1>3. \A x \in Ctx : o \in BeingFreed(x) <=> pl[o] = InCall(x)
  BY DEF Inv, PlaceInv, BeingFreed, FreePC
<1>4. o \in held <=> pl[o] = WithUser
  BY DEF Inv, PlaceInv
<1> DEFINE P == {p \in Pages : o \in Linked(page[p].freelist)}
           Q == {c \in Cpus : o \in Linked(cpu_slab[c].freelist)}
           X == {x \in Ctx : o \in BeingFreed(x)}
<1>5. /\ \A a, b \in P : a = b
      /\ \A a, b \in Q : a = b
      /\ \A a, b \in X : a = b
  BY <1>1, <1>2, <1>3, PlacesApart
<1>6. /\ P # {} <=> \E p \in Pages : pl[o] = OnPage(p)
      /\ Q # {} <=> \E c \in Cpus : pl[o] = OnCpu(c)
      /\ X # {} <=> \E x \in Ctx : pl[o] = InCall(x)
  BY <1>1, <1>2, <1>3
<1>7. Places_of(o) = Cardinality(P) + Cardinality(Q) + Cardinality(X)
                     + (IF o \in held THEN 1 ELSE 0)
  BY DEF Places_of
<1> HIDE DEF P, Q, X
<1>8. /\ Cardinality(P) = IF P = {} THEN 0 ELSE 1
      /\ Cardinality(Q) = IF Q = {} THEN 0 ELSE 1
      /\ Cardinality(X) = IF X = {} THEN 0 ELSE 1
  BY <1>5, OneOrNone
<1>9. \/ \E p \in Pages : pl[o] = OnPage(p)
      \/ \E c \in Cpus : pl[o] = OnCpu(c)
      \/ \E x \in Ctx : pl[o] = InCall(x)
      \/ pl[o] \in {WithUser, Lost, Nowhere}
  BY DEF Inv, PlaceInv, Places
<1>10. Places_of(o) = IF pl[o] \in {Lost, Nowhere} THEN 0 ELSE 1
  <2>1. CASE \E p \in Pages : pl[o] = OnPage(p)
    <3>1. P # {} /\ Q = {} /\ X = {} /\ o \notin held /\ pl[o] \notin {Lost, Nowhere}
      BY <1>4, <1>6, <2>1, PlacesApart
    <3> QED BY <1>7, <1>8, <3>1
  <2>2. CASE \E c \in Cpus : pl[o] = OnCpu(c)
    <3>1. P = {} /\ Q # {} /\ X = {} /\ o \notin held /\ pl[o] \notin {Lost, Nowhere}
      BY <1>4, <1>6, <2>2, PlacesApart
    <3> QED BY <1>7, <1>8, <3>1
  <2>3. CASE \E x \in Ctx : pl[o] = InCall(x)
    <3>1. P = {} /\ Q = {} /\ X # {} /\ o \notin held /\ pl[o] \notin {Lost, Nowhere}
      BY <1>4, <1>6, <2>3, PlacesApart
    <3> QED BY <1>7, <1>8, <3>1
  <2>4. CASE pl[o] \in {WithUser, Lost, Nowhere}
    <3>1. P = {} /\ Q = {} /\ X = {} /\ (o \in held <=> pl[o] \notin {Lost, Nowhere})
      BY <1>4, <1>6, <2>4, PlacesApart
    <3> QED BY <1>7, <1>8, <3>1
  <2> QED BY <1>9, <2>1, <2>2, <2>3, <2>4
<1> QED BY <1>1, <1>2, <1>10

(* slab_alloc_node never hands out an object that somebody has, and no free makes an
   object free twice, however deeply interrupts nest. *)
THEOREM NeverShared == Spec => []NoObjectShared
<1>1. IInv => NoObjectShared
  <2> SUFFICES ASSUME NEW pl, NEW rk, Inv(pl, rk) PROVE NoObjectShared
    BY DEF IInv
  <2>1. ASSUME NEW p \in Pages PROVE Ends(page[p].freelist)
    BY LinkedIs DEF Inv, ListsInv
  <2>2. ASSUME NEW c \in Cpus PROVE Ends(cpu_slab[c].freelist)
    BY LinkedIs DEF Inv, ListsInv
  <2>3. ASSUME NEW o \in Objects
        PROVE  /\ \A p \in Pages : o \in Linked(page[p].freelist) => Slab(o) = p
               /\ Places_of(o) <= IF page[Slab(o)].slab THEN 1 ELSE 0
    <3>1. /\ Places_of(o) = IF pl[o] \in {Lost, Nowhere} THEN 0 ELSE 1
          /\ \A p \in Pages : o \in Linked(page[p].freelist) <=> pl[o] = OnPage(p)
      BY PlacesCount
    <3>2. /\ pl[o] = Nowhere <=> ~ page[Slab(o)].slab
          /\ \A p \in Pages : pl[o] = OnPage(p) => Slab(o) = p
      BY DEF Inv, PlaceInv
    <3> QED BY <3>1, <3>2
  <2> QED BY <2>1, <2>2, <2>3 DEF NoObjectShared
<1> QED BY <1>1, Invariance, PTL

(* With tasks and one level of interrupts every object of a slab is in exactly one place:
   none is shared and none is lost. *)
THEOREM ObjectsKept == ASSUME TwoLevels PROVE Spec => []ObjectsExact
<1>1. IInv => ObjectsExact
  <2> SUFFICES ASSUME NEW pl, NEW rk, Inv(pl, rk) PROVE ObjectsExact
    BY DEF IInv
  <2>1. ASSUME NEW p \in Pages PROVE Ends(page[p].freelist)
    BY LinkedIs DEF Inv, ListsInv
  <2>2. ASSUME NEW c \in Cpus PROVE Ends(cpu_slab[c].freelist)
    BY LinkedIs DEF Inv, ListsInv
  <2>3. ASSUME NEW o \in Objects
        PROVE  /\ \A p \in Pages : o \in Linked(page[p].freelist) => Slab(o) = p
               /\ Places_of(o) = IF page[Slab(o)].slab THEN 1 ELSE 0
    <3>1. /\ Places_of(o) = IF pl[o] \in {Lost, Nowhere} THEN 0 ELSE 1
          /\ \A p \in Pages : o \in Linked(page[p].freelist) <=> pl[o] = OnPage(p)
      BY PlacesCount
    <3>2. /\ pl[o] = Nowhere <=> ~ page[Slab(o)].slab
          /\ \A p \in Pages : pl[o] = OnPage(p) => Slab(o) = p
          /\ pl[o] # Lost
      BY DEF Inv, PlaceInv
    <3> QED BY <3>1, <3>2
  <2> DEFINE onpage == UNION {{p} \X Linked(page[p].freelist) : p \in Pages}
             oncpu == UNION {{c} \X Linked(cpu_slab[c].freelist) : c \in Cpus}
  <2>4. ASSUME NEW o \in Objects
        PROVE  /\ \A p \in Pages : <<p, o>> \in onpage => Slab(o) = p
               /\ Cardinality({p \in Pages : <<p, o>> \in onpage})
                  + Cardinality({c \in Cpus : <<c, o>> \in oncpu})
                  + Cardinality({x \in Ctx : o \in BeingFreed(x)})
                  + (IF o \in held THEN 1 ELSE 0)
                  = IF page[Slab(o)].slab THEN 1 ELSE 0
    <3>0. /\ \A p \in Pages : <<p, o>> \in onpage <=> o \in Linked(page[p].freelist)
          /\ \A c \in Cpus : <<c, o>> \in oncpu <=> o \in Linked(cpu_slab[c].freelist)
      OBVIOUS
    <3> HIDE DEF onpage, oncpu
    <3>1. /\ {p \in Pages : <<p, o>> \in onpage} = {p \in Pages : o \in Linked(page[p].freelist)}
          /\ {c \in Cpus : <<c, o>> \in oncpu} = {c \in Cpus : o \in Linked(cpu_slab[c].freelist)}
      BY <3>0
    <3>2. \A p \in Pages : <<p, o>> \in onpage => Slab(o) = p
      BY <2>3, <3>0
    <3> QED BY <2>3, <3>1, <3>2 DEF Places_of
  <2> HIDE DEF onpage, oncpu
  <2>5. \A f \in {page[p].freelist : p \in Pages} \cup {cpu_slab[c].freelist : c \in Cpus} : Ends(f)
    BY <2>1, <2>2
  <2> QED BY <2>4, <2>5 DEF ObjectsExact, onpage, oncpu
<1> QED BY <1>1, Invariance, PTL
=============================================================================
