------------------------------ MODULE QSpinLock ------------------------------
(***************************************************************************)
(* The queued spin lock: kernel/locking/qspinlock.c and its inline fast    *)
(* paths in include/asm-generic/qspinlock.h, in the build this kernel uses *)
(* (CONFIG_NR_CPUS = 8, hence _Q_PENDING_BITS = 8: the locked byte, the    *)
(* pending byte and the tail halfword are written separately).             *)
(*                                                                         *)
(* A context is one of the nested execution levels of a CPU (task,         *)
(* softirq, hardirq, nmi).  A higher level that runs freezes the lower     *)
(* levels of its CPU.  Each action is one access to shared memory; the     *)
(* local computation that follows an access belongs to its action.         *)
(* Memory is sequentially consistent.                                      *)
(***************************************************************************)
EXTENDS Integers, Sequences, FiniteSets

CONSTANTS
    NrCpus,             \* CONFIG_NR_CPUS
    Ctx,                \* execution contexts
    smp_processor_id,   \* the CPU a context runs on
    level,              \* its nesting level on that CPU, 0 = task
    Locks,              \* lock numbers: the order in which callers nest locks
    IrqLevel            \* highest level at which each lock is waited for

MAX_NODES == 4          \* queue nodes per CPU
Cpus == 0 .. NrCpus - 1
NULL == <<>>

(* BUILD_BUG_ON(CONFIG_NR_CPUS >= (1U << _Q_TAIL_CPU_BITS)) *)
ASSUME NrCpusAssumption == NrCpus \in 1 .. 16383
(* "we can never have more than 4 nested contexts: task, softirq, hardirq, nmi" *)
ASSUME CtxAssumption ==
    /\ smp_processor_id \in [Ctx -> Cpus]
    /\ level \in [Ctx -> 0 .. MAX_NODES - 1]
    /\ \A c, d \in Ctx :
          smp_processor_id[c] = smp_processor_id[d] /\ level[c] = level[d] => c = d
ASSUME LocksAssumption ==
    /\ Locks \subseteq Nat \ {0}
    /\ IrqLevel \in [Locks -> Nat]

VARIABLES
    word,   \* per lock: the 32-bit value as its locked, pending and tail fields
    count,  \* per CPU: qnodes[0].mcs.count
    node,   \* per CPU and index: the mcs_spinlock's locked and next
    pc,     \* per context: the next shared access of its call
    lk,     \* per context: the lock its slow path is about, 0 outside of it
    idx,    \* per context: idx, the node it took
    prev,   \* per context: prev
    next,   \* per context: next
    held,   \* per context: the locks it owns
    queue   \* per lock, history: contexts from xchg_tail to the hand-over

vars == <<word, count, node, pc, lk, idx, prev, next, held, queue>>

-----------------------------------------------------------------------------
(* The lock word and the queue nodes *)

Word == [locked : 0 .. 1, pending : 0 .. 1, tail : Nat]
Unlocked == [locked |-> 0, pending |-> 0, tail |-> 0]
_Q_PENDING_VAL == [locked |-> 0, pending |-> 1, tail |-> 0]

NodeAddr == Cpus \X (0 .. MAX_NODES - 1)

(* The tail halfword: bits 0-1 the index, bits 2-15 the CPU plus one, so that
   node 0 of CPU 0 differs from "no tail". *)
encode_tail(cpu, i) == (cpu + 1) * 4 + i
decode_tail(t) == <<(t \div 4) - 1, t % 4>>

(* val & ~_Q_LOCKED_MASK *)
Contended(v) == v.pending = 1 \/ v.tail # 0

MyNode(c) == <<smp_processor_id[c], idx[c]>>
MyTail(c) == encode_tail(smp_processor_id[c], idx[c])

-----------------------------------------------------------------------------
(* Contexts of one CPU: nesting and the discipline of the callers *)

Active(c) == pc[c] # "idle" \/ held[c] # {}

(* A context runs only while no higher level of its CPU is active. *)
Running(c) ==
    \A d \in Ctx : smp_processor_id[d] = smp_processor_id[c] /\ Active(d)
                      => level[d] <= level[c]

(* Locks a context owns or waits for: a queued waiter blocks those behind it. *)
Engaged(c) == held[c] \cup ({lk[c]} \ {0})

(* A context outside of the lock code may run: its CPU is not at a higher level,
   and no lower level has masked it.  A lock that some interrupt level takes is
   taken with that level masked (spin_lock_irqsave). *)
MayRun(c) ==
    /\ pc[c] = "idle"
    /\ Running(c)
    /\ \A d \in Ctx \ {c} : smp_processor_id[d] = smp_processor_id[c] =>
          \A m \in Engaged(d) : IrqLevel[m] < level[c]

(* The discipline of callers that wait: a lock is waited for only at the levels
   it is masked for, and in increasing order on each CPU. *)
MayWait(c, l) ==
    /\ level[c] <= IrqLevel[l]
    /\ \A d \in Ctx : smp_processor_id[d] = smp_processor_id[c] =>
          \A m \in Engaged(d) : m < l

Goto(c, label) == pc' = [pc EXCEPT ![c] = label]
(* Return from the slow path: the locals of the call die with it. *)
Return(c) ==
    /\ Goto(c, "idle")
    /\ lk' = [lk EXCEPT ![c] = 0]
    /\ idx' = [idx EXCEPT ![c] = 0]
    /\ prev' = [prev EXCEPT ![c] = NULL]
    /\ next' = [next EXCEPT ![c] = NULL]

Acquire(c, l) == held' = [held EXCEPT ![c] = @ \cup {l}]

(* The context leaves the queue.  Anyone but the head stays in it. *)
Dequeue(c, l) ==
    queue' = [queue EXCEPT ![l] = IF @ # <<>> /\ Head(@) = c THEN Tail(@) ELSE @]

-----------------------------------------------------------------------------
queued_spin_trylock_looks_at_byte(c, l) ==
    /\ MayRun(c)
    /\ word[l].locked = 0
    /\ word' = [word EXCEPT ![l].locked = 1]
    /\ Acquire(c, l)
    /\ UNCHANGED <<count, node, pc, lk, idx, prev, next, queue>>
(* queued_spin_trylock: the read and the cmpxchg linearise at the cmpxchg; a
   failure changes nothing.  It never waits, so any context may call it. *)
queued_spin_trylock(c, l) ==
    /\ MayRun(c)
    /\ word[l] = Unlocked
    /\ word' = [word EXCEPT ![l].locked = 1]
    /\ Acquire(c, l)
    /\ UNCHANGED <<count, node, pc, lk, idx, prev, next, queue>>

(* Where the slow path goes once it has looked at val (line 306). *)
AfterRead(v) == IF Contended(v) THEN "queue" ELSE "set_pending"

(* queued_spin_lock: the fast path, or the entry of the slow path. *)
queued_spin_lock(c, l) ==
    /\ MayRun(c) /\ MayWait(c, l)
    /\ IF word[l] = Unlocked
       THEN /\ word' = [word EXCEPT ![l].locked = 1]
            /\ Acquire(c, l)
            /\ UNCHANGED <<pc, lk>>
       ELSE /\ Goto(c, IF word[l] = _Q_PENDING_VAL THEN "pend_spin"
                       ELSE AfterRead(word[l]))
            /\ lk' = [lk EXCEPT ![c] = l]
            /\ UNCHANGED <<word, held>>
    /\ UNCHANGED <<count, node, idx, prev, next, queue>>

(* The bounded wait for an in-progress hand-over: with _Q_PENDING_LOOPS = 1 the
   second read ends it whatever it sees. *)
PendSpin(c, l) ==
    /\ pc[c] \in {"pend_spin", "pend_spin_last"}
    /\ Goto(c, IF pc[c] = "pend_spin" /\ word[l] = _Q_PENDING_VAL
               THEN "pend_spin_last"
               ELSE AfterRead(word[l]))
    /\ UNCHANGED <<word, count, node, lk, idx, prev, next, held, queue>>

AfterFetch_overtakes_queue(v) ==
    IF v.pending = 1 THEN "queue" ELSE IF v.locked = 1 THEN "pend_wait" ELSE "pend_take"
(* Where it goes once it has tried to set pending and got the old value: a
   concurrent locker means undo (if the bit was ours) and queue. *)
AfterFetch(v) ==
    IF Contended(v) THEN (IF v.pending = 1 THEN "queue" ELSE "undo_pending")
                    ELSE (IF v.locked = 1 THEN "pend_wait" ELSE "pend_take")

(* queued_fetch_set_pending_acquire *)
SetPending(c, l) ==
    /\ pc[c] = "set_pending"
    /\ word' = [word EXCEPT ![l].pending = 1]
    /\ Goto(c, AfterFetch(word[l]))
    /\ UNCHANGED <<count, node, lk, idx, prev, next, held, queue>>

(* clear_pending *)
UndoPending(c, l) ==
    /\ pc[c] = "undo_pending"
    /\ word' = [word EXCEPT ![l].pending = 0]
    /\ Goto(c, "queue")
    /\ UNCHANGED <<count, node, lk, idx, prev, next, held, queue>>

PendWait(c, l) ==
    /\ pc[c] = "pend_wait"
    /\ word[l].locked = 0
    /\ Goto(c, "pend_take")
    /\ UNCHANGED <<word, count, node, lk, idx, prev, next, held, queue>>

PendTake_goes_to_release(c, l) ==
    /\ pc[c] = "pend_take"
    /\ word' = [word EXCEPT ![l].locked = 1, ![l].pending = 0]
    /\ Acquire(c, l)
    /\ count' = [count EXCEPT ![smp_processor_id[c]] = @ - 1]
    /\ Return(c)
    /\ UNCHANGED <<node, queue>>
(* clear_pending_set_locked: one 16-bit store of both bytes. *)
PendTake(c, l) ==
    /\ pc[c] = "pend_take"
    /\ word' = [word EXCEPT ![l].locked = 1, ![l].pending = 0]
    /\ Acquire(c, l)
    /\ Return(c)
    /\ UNCHANGED <<count, node, queue>>

(* idx = node->count++ is a load and a store: an interrupt fits in between. *)
CountRead(c, l) ==
    /\ pc[c] = "queue"
    /\ idx' = [idx EXCEPT ![c] = count[smp_processor_id[c]]]
    /\ Goto(c, "count_write")
    /\ UNCHANGED <<word, count, node, lk, prev, next, held, queue>>

CountWrite(c, l) ==
    /\ pc[c] = "count_write"
    /\ count' = [count EXCEPT ![smp_processor_id[c]] = idx[c] + 1]
    /\ Goto(c, "init_node")
    /\ UNCHANGED <<word, node, lk, idx, prev, next, held, queue>>

InitNode_keeps_next(c, l) ==
    /\ pc[c] = "init_node"
    /\ node' = [node EXCEPT ![MyNode(c)].locked = 0]
    /\ Goto(c, "trylock")
    /\ UNCHANGED <<word, count, lk, idx, prev, next, held, queue>>
(* The node is private until xchg_tail: its two stores are one step. *)
InitNode(c, l) ==
    /\ pc[c] = "init_node"
    /\ node' = [node EXCEPT ![MyNode(c)] = [locked |-> 0, next |-> NULL]]
    /\ Goto(c, "trylock")
    /\ UNCHANGED <<word, count, lk, idx, prev, next, held, queue>>

(* queued_spin_trylock once more, now with a node in hand. *)
TryLock(c, l) ==
    /\ pc[c] = "trylock"
    /\ IF word[l] = Unlocked
       THEN /\ word' = [word EXCEPT ![l].locked = 1]
            /\ Acquire(c, l)
            /\ Goto(c, "release")
       ELSE /\ Goto(c, "xchg_tail")
            /\ UNCHANGED <<word, held>>
    /\ UNCHANGED <<count, node, lk, idx, prev, next, queue>>

xchg_tail(c, l) ==
    /\ pc[c] = "xchg_tail"
    /\ word' = [word EXCEPT ![l].tail = MyTail(c)]
    /\ next' = [next EXCEPT ![c] = NULL]
    /\ queue' = [queue EXCEPT ![l] = Append(@, c)]
    /\ IF word[l].tail # 0
       THEN /\ prev' = [prev EXCEPT ![c] = decode_tail(word[l].tail)]
            /\ Goto(c, "link")
       ELSE /\ Goto(c, "head_wait")
            /\ UNCHANGED prev
    /\ UNCHANGED <<count, node, lk, idx, held>>

(* WRITE_ONCE(prev->next, node) *)
Link(c, l) ==
    /\ pc[c] = "link"
    /\ node' = [node EXCEPT ![prev[c]].next = MyNode(c)]
    /\ Goto(c, "mcs_wait")
    /\ UNCHANGED <<word, count, lk, idx, prev, next, held, queue>>

(* arch_mcs_spin_lock_contended *)
McsWait(c, l) ==
    /\ pc[c] = "mcs_wait"
    /\ node[MyNode(c)].locked = 1
    /\ Goto(c, "read_next")
    /\ UNCHANGED <<word, count, node, lk, idx, prev, next, held, queue>>

ReadNext(c, l) ==
    /\ pc[c] = "read_next"
    /\ next' = [next EXCEPT ![c] = node[MyNode(c)].next]
    /\ Goto(c, "head_wait")
    /\ UNCHANGED <<word, count, node, lk, idx, prev, held, queue>>

HeadWait_ignores_pending(c, l) ==
    /\ pc[c] = "head_wait"
    /\ word[l].locked = 0
    /\ Goto(c, IF word[l].tail = MyTail(c) THEN "claim" ELSE "set_locked")
    /\ UNCHANGED <<word, count, node, lk, idx, prev, next, held, queue>>
(* Head of the queue: wait for the owner and the pending waiter to go away. *)
HeadWait(c, l) ==
    /\ pc[c] = "head_wait"
    /\ word[l].locked = 0 /\ word[l].pending = 0
    /\ Goto(c, IF word[l].tail = MyTail(c) THEN "claim" ELSE "set_locked")
    /\ UNCHANGED <<word, count, node, lk, idx, prev, next, held, queue>>

(* n,0,0 -> 0,0,1 unless the word has changed since HeadWait read it. *)
Claim(c, l) ==
    /\ pc[c] = "claim"
    /\ IF word[l] = [locked |-> 0, pending |-> 0, tail |-> MyTail(c)]
       THEN /\ word' = [word EXCEPT ![l] = [locked |-> 1, pending |-> 0, tail |-> 0]]
            /\ Acquire(c, l)
            /\ Dequeue(c, l)
            /\ Goto(c, "release")
       ELSE /\ Goto(c, "set_locked")
            /\ UNCHANGED <<word, held, queue>>
    /\ UNCHANGED <<count, node, lk, idx, prev, next>>

set_locked_clears_pending(c, l) ==
    /\ pc[c] = "set_locked"
    /\ word' = [word EXCEPT ![l].locked = 1, ![l].pending = 0]
    /\ Acquire(c, l)
    /\ Goto(c, IF next[c] = NULL THEN "wait_next" ELSE "pass")
    /\ UNCHANGED <<count, node, lk, idx, prev, next, queue>>
set_locked_skips_next(c, l) ==
    /\ pc[c] = "set_locked"
    /\ word' = [word EXCEPT ![l].locked = 1]
    /\ Acquire(c, l)
    /\ Goto(c, IF next[c] = NULL THEN "release" ELSE "pass")
    /\ UNCHANGED <<count, node, lk, idx, prev, next, queue>>
(* The store touches the locked byte only. *)
set_locked(c, l) ==
    /\ pc[c] = "set_locked"
    /\ word' = [word EXCEPT ![l].locked = 1]
    /\ Acquire(c, l)
    /\ Goto(c, IF next[c] = NULL THEN "wait_next" ELSE "pass")
    /\ UNCHANGED <<count, node, lk, idx, prev, next, queue>>

WaitNext(c, l) ==
    /\ pc[c] = "wait_next"
    /\ node[MyNode(c)].next # NULL
    /\ next' = [next EXCEPT ![c] = node[MyNode(c)].next]
    /\ Goto(c, "pass")
    /\ UNCHANGED <<word, count, node, lk, idx, prev, held, queue>>

(* arch_mcs_spin_unlock_contended(&next->locked) *)
Pass(c, l) ==
    /\ pc[c] = "pass"
    /\ node' = [node EXCEPT ![next[c]].locked = 1]
    /\ Dequeue(c, l)
    /\ Goto(c, "release")
    /\ UNCHANGED <<word, count, lk, idx, prev, next, held>>

Release_resets_count(c, l) ==
    /\ pc[c] = "release"
    /\ count' = [count EXCEPT ![smp_processor_id[c]] = 0]
    /\ Return(c)
    /\ UNCHANGED <<word, node, held, queue>>
(* this_cpu_dec(qnodes[0].mcs.count): atomic with respect to this CPU. *)
Release(c, l) ==
    /\ pc[c] = "release"
    /\ count' = [count EXCEPT ![smp_processor_id[c]] = @ - 1]
    /\ Return(c)
    /\ UNCHANGED <<word, node, held, queue>>

queued_spin_unlock(c, l) ==
    /\ pc[c] = "idle"
    /\ Running(c)
    /\ l \in held[c]
    /\ word' = [word EXCEPT ![l].locked = 0]
    /\ held' = [held EXCEPT ![c] = @ \ {l}]
    /\ UNCHANGED <<count, node, pc, lk, idx, prev, next, queue>>

-----------------------------------------------------------------------------
(* A step of queued_spin_lock_slowpath, taken while no interrupt is on top. *)
queued_spin_lock_slowpath(c, l) ==
    /\ Running(c)
    /\ lk[c] = l
    /\ \/ PendSpin(c, l)    \/ SetPending(c, l)  \/ UndoPending(c, l)
       \/ PendWait(c, l)    \/ PendTake(c, l)
       \/ CountRead(c, l)   \/ CountWrite(c, l)  \/ InitNode(c, l)
       \/ TryLock(c, l)     \/ xchg_tail(c, l)   \/ Link(c, l)
       \/ McsWait(c, l)     \/ ReadNext(c, l)    \/ HeadWait(c, l)
       \/ Claim(c, l)       \/ set_locked(c, l)  \/ WaitNext(c, l)
       \/ Pass(c, l)        \/ Release(c, l)

Next == \E c \in Ctx, l \in Locks :
            \/ queued_spin_lock(c, l)
            \/ queued_spin_trylock(c, l)
            \/ queued_spin_lock_slowpath(c, l)
            \/ queued_spin_unlock(c, l)

Init ==
    /\ word = [l \in Locks |-> Unlocked]
    /\ count = [p \in Cpus |-> 0]
    /\ node = [a \in NodeAddr |-> [locked |-> 0, next |-> NULL]]
    /\ pc = [c \in Ctx |-> "idle"]
    /\ lk = [c \in Ctx |-> 0]
    /\ idx = [c \in Ctx |-> 0]
    /\ prev = [c \in Ctx |-> NULL]
    /\ next = [c \in Ctx |-> NULL]
    /\ held = [c \in Ctx |-> {}]
    /\ queue = [l \in Locks |-> <<>>]

Spec == Init /\ [][Next]_vars

(* Every context keeps executing its call and releases what it owns: spinning
   CPUs run, and critical sections end.  (Used with one level per CPU; an
   interrupt level that never ends starves the levels below it.) *)
Fairness == \A c \in Ctx, l \in Locks :
                /\ WF_vars(queued_spin_lock_slowpath(c, l))
                /\ WF_vars(queued_spin_unlock(c, l))

FairSpec == Spec /\ Fairness

-----------------------------------------------------------------------------
(* Properties *)

QueuedPC == {"link", "mcs_wait", "read_next", "head_wait", "claim", "set_locked",
             "wait_next", "pass"}
NodePC == QueuedPC \cup {"init_node", "trylock", "xchg_tail", "release"}
PendPC == {"pend_wait", "pend_take"}
PCs == NodePC \cup PendPC \cup
         {"idle", "pend_spin", "pend_spin_last", "set_pending", "undo_pending",
          "queue", "count_write"}

(* Every field has its type; a node index stays below MAX_NODES although the
   code never tests it (qspinlock.c:361). *)
TypeOK ==
    /\ word \in [Locks -> Word]
    /\ count \in [Cpus -> 0 .. MAX_NODES]
    /\ node \in [NodeAddr -> [locked : 0 .. 1, next : NodeAddr \cup {NULL}]]
    /\ pc \in [Ctx -> PCs]
    /\ lk \in [Ctx -> Locks \cup {0}]
    /\ idx \in [Ctx -> 0 .. MAX_NODES - 1]
    /\ prev \in [Ctx -> NodeAddr \cup {NULL}]
    /\ next \in [Ctx -> NodeAddr \cup {NULL}]
    /\ held \in [Ctx -> SUBSET Locks]
    /\ queue \in [Locks -> Seq(Ctx)]

(* At most one context owns a lock, whichever of the four ways (fast path,
   pending bit, trylock with a node, queue head) it took it. *)
MutualExclusion ==
    \A l \in Locks, c, d \in Ctx : l \in held[c] /\ l \in held[d] => c = d

(* No two contexts that interrupt each other between the load and the store of
   node->count++ end up with the same queue node. *)
NodesDistinct ==
    \A c, d \in Ctx : pc[c] \in NodePC /\ pc[d] \in NodePC /\ MyNode(c) = MyNode(d)
                          => c = d

(* The pending byte is set exactly while one context is bound to clear it: no
   other waiter's undo, take or set_locked loses it or leaves it behind. *)
PendingOwned ==
    \A l \in Locks :
       Cardinality({c \in Ctx : lk[c] = l /\ pc[c] \in PendPC \cup {"undo_pending"}})
          = word[l].pending

(* The tail and the next pointers lead through the waiters in the order of
   their xchg_tail; a pointer is missing only while its waiter is about to write
   it, and only the first waiter has been told to go on. *)
QueueLinked ==
    \A l \in Locks :
       LET q == queue[l] IN
       /\ word[l].tail = IF q = <<>> THEN 0 ELSE MyTail(q[Len(q)])
       /\ \A i \in 1 .. Len(q) :
             node[MyNode(q[i])].next =
                IF i < Len(q) /\ pc[q[i + 1]] # "link" THEN MyNode(q[i + 1]) ELSE NULL
       /\ \A i \in 2 .. Len(q) : node[MyNode(q[i])].locked = 0

(* A context that asks for a lock gets it. *)
EventuallyAcquires == \A c \in Ctx : pc[c] # "idle" ~> pc[c] = "idle"
=============================================================================
