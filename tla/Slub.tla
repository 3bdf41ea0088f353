-------------------------------- MODULE Slub --------------------------------
(***************************************************************************)
(* One cache of the slab allocator, mm/slub.c: the free objects of a CPU   *)
(* and its transaction id, slab pages with their own free objects, and the *)
(* partial list of the node.                                               *)
(*                                                                         *)
(* Free objects are linked through the objects themselves, so an object in *)
(* use has its user's data where a free one has its link.  A context is an *)
(* execution level of a CPU, as in QSpinLock.  Each action is one access   *)
(* to what others can change: the fast paths race with the interrupts of   *)
(* their CPU, the slow paths (interrupts off) with the other CPUs.         *)
(* A failed cmpxchg that only repeats the read before it is not a step.    *)
(*                                                                         *)
(* slub_cpu_partial is 0.  The transaction id is 64 bits wide and only     *)
(* compared for equality, so of an id that was read it is kept whether the *)
(* CPU still has the same one (fresh).                                     *)
(***************************************************************************)
EXTENDS Integers, Sequences, FiniteSets, SequencesExt

CONSTANTS
    Ctx,               \* execution contexts
    smp_processor_id,  \* the CPU a context runs on
    level,             \* its nesting level, 0 = task
    Boot,              \* the context that runs kmem_cache_init
    Pages,             \* blocks of pages that alloc_pages can give out
    objects,           \* of each block, the objects that fit: more in one of order
                       \* oo_order(s->oo) than in one of order oo_order(s->min)
    min_partial,       \* empty slabs are kept up to this length of the partial list
    NULL,              \* the null pointer
    UserData           \* first word of an object in use: any value

Cpus == {smp_processor_id[x] : x \in Ctx}
Objects == UNION {{p} \X (1 .. objects[p]) : p \in Pages}
NrObjects == Cardinality(Objects)
Slab(o) == o[1]                    \* virt_to_head_page

ASSUME SlubAssumption ==
    /\ objects \in [Pages -> Nat \ {0}] /\ min_partial \in Nat
    /\ IsFiniteSet(Pages)
    /\ Boot \in Ctx /\ level \in [Ctx -> Nat]
    /\ \A x, y \in Ctx : smp_processor_id[x] = smp_processor_id[y] /\ level[x] = level[y]
                            => x = y
    /\ NULL \notin Objects \cup Pages \cup Ctx /\ UserData \notin Objects \cup {NULL}

VARIABLES
    page,       \* struct page: PageSlab, freelist, inuse, frozen
    fp,         \* the word of each object that links free ones
    cpu_slab,   \* per CPU: kmem_cache_cpu's freelist and page
    partial,    \* kmem_cache_node's list; nr_partial is its length
    list_lock,  \* who holds kmem_cache_node's lock, NULL if nobody
    call,       \* per context: the place in its call, and the call's locals
    held,       \* objects that callers own
    smp,        \* other contexts than Boot run
    bug         \* a BUG_ON or WARN_ON of the last step fired

vars == <<page, fp, cpu_slab, partial, list_lock, call, held, smp, bug>>

Page == [slab : BOOLEAN, freelist : Objects \cup {NULL}, inuse : Nat, frozen : BOOLEAN]
Call == [at : {"idle", "alloc_cmpxchg", "slow", "get_partial", "lock_partial", "acquire_slab",
               "new_slab", "free_cmpxchg", "slab_free", "lock", "slab_cmpxchg", "list"},
         fresh : BOOLEAN, obj : Objects \cup {NULL}, next : Objects \cup {NULL, UserData},
         pg : Pages \cup {NULL}, old : Page]
Unused == [slab |-> FALSE, freelist |-> NULL, inuse |-> 0, frozen |-> FALSE]
Idle == [at |-> "idle", fresh |-> FALSE, obj |-> NULL, next |-> NULL,
         pg |-> NULL, old |-> Unused]
NoSlab == [freelist |-> NULL, page |-> NULL]

(* What callers know: these slow paths run with interrupts off. *)
IrqsOff(x) ==
    \/ call[x].at \in {"get_partial", "lock_partial", "acquire_slab", "new_slab", "list"}
    \/ list_lock = x

Neighbours(x) == {y \in Ctx \ {x} : smp_processor_id[y] = smp_processor_id[x]}

(* A context that is inside a call goes on while no higher level is active. *)
Running(x) ==
    \A y \in Neighbours(x) : level[y] > level[x] => call[y].at = "idle"

(* A context may begin a call. *)
MayCall(x) ==
    /\ call[x].at = "idle"
    /\ smp \/ x = Boot
    /\ Running(x)
    /\ \A y \in Neighbours(x) : ~ IrqsOff(y)

At(x, label) == call[x].at = label /\ Running(x)
(* Locals that the rest of the call does not use are dropped. *)
Goto(x, label) == call' = [call EXCEPT ![x].at = label]
GotoSlow(x, label) == call' = [call EXCEPT ![x] = [Idle EXCEPT !.at = label, !.obj = call[x].obj]]
Return(x) == call' = [call EXCEPT ![x] = Idle]

C(x) == cpu_slab[smp_processor_id[x]]
SetC(x, c) == cpu_slab' = [cpu_slab EXCEPT ![smp_processor_id[x]] = c]

(* Where the links lead from o in n steps; what follows an object in use is not a
   link, and nothing follows the end of a list. *)
Follow(w) == IF w \in Objects THEN fp[w] ELSE w
Walk(o) == LET at[n \in 0 .. NrObjects] == IF n = 0 THEN o ELSE Follow(at[n - 1])
           IN  at
Ends(o) == Walk(o)[NrObjects] = NULL
Linked(o) == {Walk(o)[n] : n \in 0 .. NrObjects} \cap Objects
List(o) == [i \in 1 .. Cardinality(Linked(o)) |-> Walk(o)[i - 1]]

-----------------------------------------------------------------------------
(* Allocation, fast path: slab_alloc_node *)

(* c->tid = next_tid(c->tid): whoever read the id of this CPU has an old one;
   x, if it goes on, has read the new one or is done with it. *)
Bump(x, then) ==
    call' = [y \in Ctx |-> IF y = x THEN then
                           ELSE IF y \in Neighbours(x) THEN [call[y] EXCEPT !.fresh = FALSE]
                           ELSE call[y]]

(* The caller owns object o and writes to it; the links of the others are f. *)
Hand(o, f) ==
    /\ held' = held \cup {o}
    /\ fp' = [f EXCEPT ![o] = UserData]

(* The label redo of slab_alloc_node: the transaction id, then c->freelist, then
   the link of that object.  An interrupt between these reads that changes the
   CPU's list changes its id, and the cmpxchg fails: they are one step. *)
ReadObject(x) ==
    LET o == C(x).freelist
    IN  call' = [call EXCEPT ![x] =
                    IF o = NULL THEN [Idle EXCEPT !.at = "slow"]
                    ELSE [Idle EXCEPT !.at = "alloc_cmpxchg", !.fresh = TRUE,
                                      !.obj = o, !.next = fp[o]]]

kmem_cache_alloc(x) ==
    /\ MayCall(x)
    /\ ReadObject(x)
    /\ bug' = FALSE
    /\ UNCHANGED <<page, fp, cpu_slab, partial, list_lock, held, smp>>

(* this_cpu_cmpxchg_double(freelist, tid, object, tid, next_object, next_tid) *)
TidUnchanged_not_compared(x) == TRUE
TidUnchanged(x) == call[x].fresh

fast_alloc(x) ==
    /\ At(x, "alloc_cmpxchg")
    /\ LET k == call[x]
       IN  IF C(x).freelist = k.obj /\ TidUnchanged(x)
           THEN /\ SetC(x, [C(x) EXCEPT !.freelist = k.next])
                /\ Hand(k.obj, fp)
                /\ Bump(x, Idle)
           ELSE /\ ReadObject(x)
                /\ UNCHANGED <<cpu_slab, held, fp>>
    /\ bug' = FALSE
    /\ UNCHANGED <<page, partial, list_lock, smp>>

-----------------------------------------------------------------------------
(* Allocation, slow path: ___slab_alloc with interrupts off *)

(* The label load_freelist: f is the list, p the CPU's slab, pg the pages; ok:
   the checks before it were. *)
load_freelist(x, f, p, pg, ok) ==
    /\ SetC(x, [freelist |-> fp[f], page |-> p])
    /\ Hand(f, fp)
    /\ Bump(x, Idle)
    /\ page' = pg
    /\ bug' = ~ (ok /\ pg[p].frozen)

(* The counters of a slab whose free objects all went to a CPU. *)
Taken(p, frozen) ==
    [page EXCEPT ![p].freelist = NULL, ![p].inuse = objects[p], ![p].frozen = frozen]

get_freelist(p) == Taken(p, page[p].freelist # NULL)

(* ___slab_alloc up to new_slab.  When the slab has nothing left it is let go:
   c->page becomes NULL, the transaction id stays. *)
slab_alloc(x) ==
    /\ At(x, "slow")
    /\ LET p == C(x).page IN
       \/ /\ p = NULL
          /\ GotoSlow(x, "get_partial")
          /\ bug' = FALSE
          /\ UNCHANGED <<page, fp, cpu_slab, held>>
       \/ /\ p # NULL /\ C(x).freelist # NULL
          /\ load_freelist(x, C(x).freelist, p, page, TRUE)
       \/ /\ p # NULL /\ C(x).freelist = NULL /\ page[p].freelist # NULL
          /\ load_freelist(x, page[p].freelist, p, get_freelist(p), page[p].frozen)
       \/ /\ p # NULL /\ C(x).freelist = NULL /\ page[p].freelist = NULL
          /\ page' = get_freelist(p)
          /\ SetC(x, NoSlab)
          /\ GotoSlow(x, "get_partial")
          /\ bug' = ~ page[p].frozen
          /\ UNCHANGED <<fp, held>>
    /\ UNCHANGED <<partial, list_lock, smp>>

(* get_partial_node: the check without the lock *)
get_partial(x) ==
    /\ At(x, "get_partial")
    /\ Goto(x, IF partial = <<>> THEN "new_slab" ELSE "lock_partial")
    /\ bug' = FALSE
    /\ UNCHANGED <<page, fp, cpu_slab, partial, list_lock, held, smp>>

(* get_partial_node: take the lock; acquire_slab reads the first page *)
lock_partial(x) ==
    /\ At(x, "lock_partial")
    /\ list_lock = NULL
    /\ \/ /\ partial = <<>>
          /\ Goto(x, "new_slab")
          /\ bug' = FALSE
          /\ UNCHANGED list_lock
       \/ /\ partial # <<>>
          /\ LET p == Head(partial)
             IN  /\ call' = [call EXCEPT ![x].at = "acquire_slab", ![x].pg = p,
                                         ![x].old = page[p]]
                 /\ bug' = (page[p].frozen \/ page[p].freelist = NULL)
          /\ list_lock' = x
    /\ UNCHANGED <<page, fp, cpu_slab, partial, held, smp>>

(* list_del of a list without duplicates *)
list_del(s, p) ==
    LET i == CHOOSE i \in DOMAIN s : s[i] = p
    IN  [j \in 1 .. Len(s) - 1 |-> IF j < i THEN s[j] ELSE s[j + 1]]

(* acquire_slab's cmpxchg: objects freed meanwhile make it fail, and then
   get_partial_node gives up *)
acquire_slab(x) ==
    /\ At(x, "acquire_slab")
    /\ list_lock' = NULL
    /\ LET p == call[x].pg
           f == call[x].old.freelist
       IN  \/ /\ page[p] = call[x].old
              /\ f # NULL
              /\ partial' = list_del(partial, p)
              /\ load_freelist(x, f, p, Taken(p, TRUE), TRUE)
           \/ /\ page[p] # call[x].old
              /\ GotoSlow(x, "new_slab")
              /\ bug' = FALSE
              /\ UNCHANGED <<page, fp, cpu_slab, partial, held>>
    /\ UNCHANGED smp

(* alloc_slab_page: a block for s->oo, or for s->min if the first try fails.  Either try may
   fail whatever this cache has: the page allocator has other users. *)
alloc_slab_page == {p \in Pages : ~ page[p].slab}

(* allocate_slab: the objects of the new page linked in order *)
NewLinks(p) ==
    [o \in Objects |-> IF Slab(o) # p THEN fp[o]
                       ELSE IF o[2] < objects[p] THEN <<p, o[2] + 1>> ELSE NULL]
allocate_slab_unfrozen(p) ==
    [slab |-> TRUE, freelist |-> NULL, inuse |-> objects[p], frozen |-> FALSE]
allocate_slab(p) == [slab |-> TRUE, freelist |-> NULL, inuse |-> objects[p], frozen |-> TRUE]

(* new_slab_objects: a fresh slab becomes the CPU's, or there is no memory.
   c->page is NULL here (see SlabsExact), so its flush_slab has nothing to do. *)
new_slab_objects(x) ==
    /\ At(x, "new_slab")
    /\ \/ \E p \in alloc_slab_page :
             /\ page' = [page EXCEPT ![p] = allocate_slab(p)]
             /\ SetC(x, [freelist |-> NewLinks(p)[<<p, 1>>], page |-> p])
             /\ Hand(<<p, 1>>, NewLinks(p))
             /\ Bump(x, Idle)
       \/ Return(x) /\ UNCHANGED <<page, cpu_slab, held, fp>>
    /\ bug' = FALSE
    /\ UNCHANGED <<partial, list_lock, smp>>

-----------------------------------------------------------------------------
(* Freeing: do_slab_free and __slab_free *)

(* The label redo of do_slab_free: the transaction id, then page == c->page; the
   object is linked to c->freelist. *)
LinkToCpu(x, o) ==
    IF Slab(o) = C(x).page
    THEN /\ fp' = [fp EXCEPT ![o] = C(x).freelist]
         /\ call' = [call EXCEPT ![x] = [Idle EXCEPT !.at = "free_cmpxchg", !.obj = o,
                                                     !.fresh = TRUE]]
    ELSE /\ UNCHANGED fp
         /\ call' = [call EXCEPT ![x] = [Idle EXCEPT !.at = "slab_free", !.obj = o]]

kmem_cache_free(x, o) ==
    /\ MayCall(x)
    /\ o \in held
    /\ held' = held \ {o}
    /\ LinkToCpu(x, o)
    /\ bug' = FALSE
    /\ UNCHANGED <<page, cpu_slab, partial, list_lock, smp>>

(* this_cpu_cmpxchg_double: c->freelist is read again for the comparison, so
   only the transaction id can differ *)
fast_free(x) ==
    /\ At(x, "free_cmpxchg")
    /\ IF TidUnchanged(x)
       THEN /\ SetC(x, [C(x) EXCEPT !.freelist = call[x].obj])
            /\ Bump(x, Idle)
            /\ UNCHANGED fp
       ELSE /\ LinkToCpu(x, call[x].obj)
            /\ UNCHANGED cpu_slab
    /\ bug' = FALSE
    /\ UNCHANGED <<page, partial, list_lock, held, smp>>

(* Does a free that finds the slab in state v need the list? *)
NeedsList_when_last_only(v) == v.inuse = 1 /\ ~ v.frozen
NeedsList(v) == (v.inuse = 1 \/ v.freelist = NULL) /\ ~ v.frozen

(* __slab_free: read the slab, link the object *)
slab_free(x) ==
    /\ At(x, "slab_free")
    /\ LET o == call[x].obj
           v == page[Slab(o)]
       IN  /\ fp' = [fp EXCEPT ![o] = v.freelist]
           /\ call' = [call EXCEPT ![x].old = v,
                          ![x].at = IF NeedsList(v) THEN "lock" ELSE "slab_cmpxchg"]
    /\ bug' = FALSE
    /\ UNCHANGED <<page, cpu_slab, partial, list_lock, held, smp>>

slab_free_lock(x) ==
    /\ At(x, "lock")
    /\ list_lock = NULL
    /\ list_lock' = x
    /\ Goto(x, "slab_cmpxchg")
    /\ bug' = FALSE
    /\ UNCHANGED <<page, fp, cpu_slab, partial, held, smp>>

Unchanged_pointer_only(v, w) == v.freelist = w.freelist
Unchanged(v, w) == v = w

(* __slab_free's cmpxchg; on failure drop the lock and read again *)
slab_free_cmpxchg(x) ==
    /\ At(x, "slab_cmpxchg")
    /\ LET o == call[x].obj
           p == Slab(o)
           v == call[x].old
       IN  IF Unchanged(page[p], v)
           THEN /\ page' = [page EXCEPT ![p].freelist = o, ![p].inuse = v.inuse - 1]
                /\ IF list_lock = x THEN Goto(x, "list") ELSE Return(x)
                /\ UNCHANGED list_lock
           ELSE /\ GotoSlow(x, "slab_free")
                /\ list_lock' = IF list_lock = x THEN NULL ELSE list_lock
                /\ UNCHANGED page
    /\ bug' = FALSE
    /\ UNCHANGED <<fp, cpu_slab, partial, held, smp>>

(* discard_slab: the page goes back to the page allocator, and what others write
   to it is where the links were. *)
discard_slab(p, f) ==
    /\ page' = [page EXCEPT ![p] = Unused]
    /\ fp' = [o \in Objects |-> IF Slab(o) = p THEN UserData ELSE f[o]]

Surplus_off_by_one(inuse, nr) == inuse <= 1 /\ nr >= min_partial
Surplus(inuse, nr) == inuse = 0 /\ nr >= min_partial

(* __slab_free after a cmpxchg under the lock: bring the list up to date *)
slab_free_list(x) ==
    /\ At(x, "list")
    /\ LET p == Slab(call[x].obj)
           v == call[x].old
       IN  \/ /\ Surplus(v.inuse - 1, Len(partial))
              /\ partial' = IF v.freelist = NULL THEN partial
                            ELSE list_del(partial, p)
              /\ discard_slab(p, fp)
           \/ /\ ~ Surplus(v.inuse - 1, Len(partial))
              /\ partial' = IF v.freelist = NULL THEN Append(partial, p) ELSE partial
              /\ UNCHANGED <<page, fp>>
    /\ list_lock' = NULL
    /\ Return(x)
    /\ bug' = FALSE
    /\ UNCHANGED <<cpu_slab, held, smp>>

-----------------------------------------------------------------------------
(* Boot *)

(* deactivate_slab, called by bootstrap while only Boot runs: the CPU's objects
   go back to their slab one by one, which reverses them. *)
Deactivated(p, l) ==
    [page EXCEPT ![p].freelist = IF l = <<>> THEN page[p].freelist ELSE Last(l),
                 ![p].inuse = page[p].inuse - Len(l), ![p].frozen = FALSE]
Pushed(p, l) ==
    [o \in Objects |->
        IF \E i \in DOMAIN l : l[i] = o
        THEN LET i == CHOOSE i \in DOMAIN l : l[i] = o
             IN  IF i = 1 THEN page[p].freelist ELSE l[i - 1]
        ELSE fp[o]]

flush_cpu_slab(x) ==
    /\ x = Boot /\ ~ smp
    /\ MayCall(x)
    /\ C(x).page # NULL
    /\ LET p == C(x).page
           l == List(C(x).freelist)
           v == Deactivated(p, l)[p]
       IN  /\ bug' = ~ page[p].frozen
           /\ \/ /\ Surplus(v.inuse, Len(partial))
                 /\ discard_slab(p, Pushed(p, l))
                 /\ UNCHANGED partial
              \/ /\ ~ Surplus(v.inuse, Len(partial))
                 /\ page' = Deactivated(p, l)
                 /\ fp' = Pushed(p, l)
                 /\ partial' = IF v.freelist = NULL THEN partial
                               ELSE IF page[p].freelist # NULL THEN Append(partial, p)
                               ELSE <<p>> \o partial
    /\ SetC(x, NoSlab)
    /\ Bump(x, Idle)
    /\ UNCHANGED <<list_lock, held, smp>>

(* The other CPUs start, interrupts are enabled. *)
smp_up ==
    /\ ~ smp /\ call[Boot].at = "idle"
    /\ smp' = TRUE /\ bug' = FALSE
    /\ UNCHANGED <<page, fp, cpu_slab, partial, list_lock, call, held>>

(* kmem_cache_open leaves a cache without slabs.  The cache of the nodes has one
   already: early_kmem_cache_node_alloc put its own node there. *)
early_kmem_cache_node_alloc(p) ==
    /\ objects[p] > 1
    /\ page = [q \in Pages |->
                  IF q = p THEN [slab |-> TRUE, inuse |-> 1, frozen |-> FALSE,
                                 freelist |-> <<p, 2>>]
                  ELSE Unused]
    /\ fp = [o \in Objects |-> IF Slab(o) = p /\ 1 < o[2] /\ o[2] < objects[p]
                               THEN <<p, o[2] + 1>>
                               ELSE IF o = <<p, objects[p]>> THEN NULL ELSE UserData]
    /\ partial = <<p>>
    /\ held = {<<p, 1>>}

init_kmem_cache_nodes ==
    /\ page = [q \in Pages |-> Unused]
    /\ fp = [o \in Objects |-> UserData]
    /\ partial = <<>>
    /\ held = {}

Init ==
    /\ init_kmem_cache_nodes \/ \E p \in Pages : early_kmem_cache_node_alloc(p)
    /\ cpu_slab = [c \in Cpus |-> NoSlab]
    /\ list_lock = NULL
    /\ call = [x \in Ctx |-> Idle]
    /\ smp = FALSE
    /\ bug = FALSE

Step(x) ==
    \/ fast_alloc(x)
    \/ slab_alloc(x) \/ get_partial(x) \/ lock_partial(x) \/ acquire_slab(x)
    \/ new_slab_objects(x)
    \/ fast_free(x)
    \/ slab_free(x) \/ slab_free_lock(x) \/ slab_free_cmpxchg(x) \/ slab_free_list(x)

Next ==
    \/ smp_up
    \/ \E x \in Ctx :
          \/ kmem_cache_alloc(x)
          \/ \E o \in Objects : kmem_cache_free(x, o)
          \/ Step(x)
          \/ flush_cpu_slab(x)

Spec == Init /\ [][Next]_vars

-----------------------------------------------------------------------------
(* Correctness *)

(* Free lists lead to objects of the cache or end; in particular no fast path takes
   a word of its user's data for a link (slab_alloc_node reads the link of an object
   that an interrupt may have given away meanwhile). *)
TypeOK ==
    /\ page \in [Pages -> Page]
    /\ fp \in [Objects -> Objects \cup {NULL, UserData}]
    /\ cpu_slab \in [Cpus -> [freelist : Objects \cup {NULL}, page : Pages \cup {NULL}]]
    /\ partial \in Seq(Pages)
    /\ list_lock \in Ctx \cup {NULL}
    /\ call \in [Ctx -> Call]
    /\ held \subseteq Objects
    /\ smp \in BOOLEAN /\ bug \in BOOLEAN

(* Objects between the caller's free and their place in a list *)
BeingFreed(x) ==
    IF call[x].at \in {"free_cmpxchg", "slab_free", "lock", "slab_cmpxchg"}
    THEN {call[x].obj} ELSE {}

(* Every object of a slab is in exactly one place: with a caller, on its way
   back, on the list of its page or on the list of one CPU; the lists end.  A
   fast path that commits on what an interrupt has changed shares an object or
   loses one, and a slab discarded too early takes objects with it. *)
ObjectsExact ==
    /\ \A f \in {page[p].freelist : p \in Pages} \cup {cpu_slab[c].freelist : c \in Cpus} :
          Ends(f)
    /\ LET onpage == UNION {{p} \X Linked(page[p].freelist) : p \in Pages}
           oncpu == UNION {{c} \X Linked(cpu_slab[c].freelist) : c \in Cpus}
       IN  \A o \in Objects :
             /\ \A p \in Pages : <<p, o>> \in onpage => Slab(o) = p
             /\ Cardinality({p \in Pages : <<p, o>> \in onpage})
                + Cardinality({c \in Cpus : <<c, o>> \in oncpu})
                + Cardinality({x \in Ctx : o \in BeingFreed(x)})
                + (IF o \in held THEN 1 ELSE 0)
                = IF page[Slab(o)].slab THEN 1 ELSE 0

(* The counters that decide without a look at the lists: inuse is what is not on
   the page's own list, and a slab is frozen exactly while it is some CPU's. *)
SlabsExact ==
    /\ \A p \in Pages :
          /\ page[p].slab => page[p].inuse = objects[p] - Cardinality(Linked(page[p].freelist))
          /\ Cardinality({c \in Cpus : cpu_slab[c].page = p})
                = IF page[p].frozen THEN 1 ELSE 0
    /\ \A x \in Ctx : call[x].at = "new_slab" => C(x).page = NULL

(* The pages whose list membership the holder of list_lock is about to change *)
Relisting(p) == \E x \in Ctx : call[x].at = "list" /\ Slab(call[x].obj) = p

(* The partial list has each slab that is no CPU's and has free objects, once:
   nothing free is forgotten and acquire_slab meets no slab of a CPU. *)
PartialExact ==
    \A p \in Pages : ~ Relisting(p) =>
        Cardinality({i \in DOMAIN partial : partial[i] = p})
          = IF page[p].slab /\ ~ page[p].frozen /\ page[p].freelist # NULL THEN 1 ELSE 0

(* No BUG_ON(!frozen), BUG_ON(frozen) or WARN_ON(!freelist) fires. *)
NoBug == ~ bug
=============================================================================
