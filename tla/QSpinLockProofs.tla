--------------------------- MODULE QSpinLockProofs ---------------------------
(***************************************************************************)
(* Type correctness, distinct queue nodes and mutual exclusion of the      *)
(* queued spin lock, one owner of the pending byte, and that the lock      *)
(* implements the FIFO lock of SpinLockSpec, for any number of CPUs (below *)
(* 2^14), contexts and locks.                                              *)
(***************************************************************************)
EXTENDS QSpinLockFifo, FiniteSetTheorems, TLAPS

-----------------------------------------------------------------------------
(* The inductive invariant, in named parts *)

SameCpu(c, d) == smp_processor_id[c] = smp_processor_id[d]
Below(c, d) == SameCpu(c, d) /\ level[c] < level[d]

(* A context has read node->count, and may have a node. *)
Reserved(c) == pc[c] \in NodePC \cup {"count_write"}

(* idx and count of one CPU form a stack: the indices grow by one with the level. *)
NodeInv ==
    /\ \A c \in Ctx : pc[c] \in NodePC => idx[c] < count[smp_processor_id[c]]
    /\ \A c \in Ctx : pc[c] = "count_write" => idx[c] <= count[smp_processor_id[c]]
    /\ \A c, d \in Ctx : Below(c, d) /\ pc[c] \in NodePC /\ Reserved(d)
                            => idx[c] < idx[d]
    /\ \A c, d \in Ctx : Below(c, d) /\ pc[c] = "count_write" /\ Reserved(d)
                            => idx[c] <= idx[d]
    /\ \A p \in Cpus : count[p] # 0 =>
          \E c \in Ctx : /\ smp_processor_id[c] = p
                         /\ pc[c] \in NodePC
                         /\ idx[c] = count[p] - 1
    /\ \A c \in Ctx : Reserved(c) /\ idx[c] > 0 =>
          \E d \in Ctx : Below(d, c) /\ pc[d] \in NodePC /\ idx[d] = idx[c] - 1
    /\ \A c \in Ctx : Reserved(c) => idx[c] <= level[c]

(* A context is in the slow path of a lock, or in none. *)
CallInv == \A c \in Ctx : pc[c] = "idle" <=> lk[c] = 0

(* Owners: one per lock, and the locked byte is set. *)
HeldInv ==
    /\ \A l \in Locks, c \in Ctx : l \in held[c] => word[l].locked = 1
    /\ MutualExclusion

(* The pending byte has at most one context bound to clear it. *)
PendSet == PendPC \cup {"undo_pending"}
PendInv ==
    /\ \A c \in Ctx : pc[c] \in PendSet => word[lk[c]].pending = 1
    /\ \A c, d \in Ctx : pc[c] \in PendSet /\ pc[d] \in PendSet /\ lk[c] = lk[d]
                            => c = d

(* A waiter that is about to take the lock without an atomic operation finds it
   free, and the queue head is never there together with the pending waiter. *)
TakeInv ==
    /\ \A c \in Ctx : pc[c] \in {"pend_take", "claim", "set_locked"}
                         => word[lk[c]].locked = 0
    /\ \A c, d \in Ctx : pc[c] \in {"claim", "set_locked"} /\ lk[d] = lk[c]
                            => pc[d] \notin PendPC

(* The queue holds exactly the contexts between xchg_tail and the hand-over. *)
MemberInv ==
    \A l \in Locks :
       /\ \A i \in DOMAIN queue[l] : /\ lk[queue[l][i]] = l
                                     /\ pc[queue[l][i]] \in QueuedPC
       /\ \A i, j \in DOMAIN queue[l] : queue[l][i] = queue[l][j] => i = j
       /\ \A c \in Ctx : lk[c] = l /\ pc[c] \in QueuedPC
                            => \E i \in DOMAIN queue[l] : queue[l][i] = c

(* Only the head has passed its mcs_wait; the others' nodes are not released. *)
OrderAt(l, i) ==
    LET c == queue[l][i] IN
    IF i = 1
    THEN pc[c] # "link" /\ (pc[c] = "mcs_wait" => node[MyNode(c)].locked = 1)
    ELSE /\ pc[c] \in {"link", "mcs_wait"}
         /\ node[MyNode(c)].locked = 0
         /\ pc[c] = "link" => prev[c] = MyNode(queue[l][i - 1])

OrderInv == \A l \in Locks : \A i \in DOMAIN queue[l] : OrderAt(l, i)

(* tail and next pointers: QueueLinked without the locked bytes. *)
LinkInv ==
    \A l \in Locks :
       /\ queue[l] = <<>> => word[l].tail = 0
       /\ queue[l] # <<>> => word[l].tail = MyTail(queue[l][Len(queue[l])])
       /\ \A i \in DOMAIN queue[l] :
             node[MyNode(queue[l][i])].next =
                IF i < Len(queue[l]) /\ pc[queue[l][i + 1]] # "link"
                THEN MyNode(queue[l][i + 1]) ELSE NULL

(* The local next pointer is the node's next, or not yet read. *)
NextInv ==
    \A c \in Ctx :
       /\ pc[c] \in {"head_wait", "claim", "set_locked"}
             => next[c] \in {NULL, node[MyNode(c)].next}
       /\ pc[c] = "pass" => next[c] # NULL /\ next[c] = node[MyNode(c)].next

(* An unpublished node is as init_node left it. *)
FreshInv ==
    \A c \in Ctx : pc[c] \in {"trylock", "xchg_tail"}
                      => node[MyNode(c)] = [locked |-> 0, next |-> NULL]

LockInv == HeldInv /\ PendInv /\ TakeInv
QueueInv == MemberInv /\ OrderInv /\ LinkInv /\ NextInv /\ FreshInv

IInv == TypeOK /\ CallInv /\ NodeInv /\ LockInv /\ QueueInv

-----------------------------------------------------------------------------
(* Facts about the encoding and about contexts *)

(* A tail code is not "no tail", and decodes to the node it was made from. *)
LEMMA TailCode ==
    ASSUME NEW p \in Cpus, NEW i \in 0 .. MAX_NODES - 1
    PROVE  /\ encode_tail(p, i) \in Nat \ {0}
           /\ decode_tail(encode_tail(p, i)) = <<p, i>>
           /\ \A q \in Cpus, j \in 0 .. MAX_NODES - 1 :
                 encode_tail(p, i) = encode_tail(q, j) => p = q /\ i = j
<1> USE NrCpusAssumption DEF Cpus, MAX_NODES, encode_tail, decode_tail
<1>1. encode_tail(p, i) \in Nat \ {0}
  OBVIOUS
<1>2. ((p + 1) * 4 + i) \div 4 = p + 1 /\ ((p + 1) * 4 + i) % 4 = i
  OBVIOUS
<1>3. decode_tail(encode_tail(p, i)) = <<p, i>>
  BY <1>2
<1>4. ASSUME NEW q \in Cpus, NEW j \in 0 .. MAX_NODES - 1,
             encode_tail(p, i) = encode_tail(q, j)
      PROVE  p = q /\ i = j
  BY <1>4
<1> QED BY <1>1, <1>3, <1>4

(* While a context runs, the active contexts of its CPU are below it. *)
LEMMA RunningTop ==
    ASSUME NEW c \in Ctx, NEW d \in Ctx, Running(c), Active(d), SameCpu(c, d), c # d
    PROVE  Below(d, c)
<1>1. level[d] <= level[c] /\ level[c] \in Int /\ level[d] \in Int
  BY CtxAssumption DEF Running, SameCpu, MAX_NODES
<1>2. level[d] # level[c]
  BY CtxAssumption DEF SameCpu
<1> QED BY <1>1, <1>2 DEF Below, SameCpu

(* The running context that increments or releases is the top of the stack. *)
LEMMA StackTop ==
    ASSUME TypeOK, NodeInv, NEW c \in Ctx, Running(c)
    PROVE  /\ pc[c] = "count_write" => count[smp_processor_id[c]] = idx[c]
           /\ pc[c] \in NodePC => count[smp_processor_id[c]] = idx[c] + 1
<1> DEFINE p == smp_processor_id[c]
<1>0. p \in Cpus /\ count[p] \in Nat /\ idx[c] \in Nat
  <2>1. count \in [Cpus -> 0 .. MAX_NODES] /\ idx \in [Ctx -> 0 .. MAX_NODES - 1]
    BY DEF TypeOK
  <2> QED BY <2>1, CtxAssumption DEF MAX_NODES
<1>1. ASSUME NEW d \in Ctx, smp_processor_id[d] = p, pc[d] \in NodePC, d # c, Reserved(c)
      PROVE  idx[d] < idx[c]
  <2>1. Active(d)
    BY <1>1 DEF Active, NodePC, QueuedPC
  <2>2. Below(d, c)
    BY <1>1, <2>1, RunningTop DEF SameCpu
  <2> QED BY <1>1, <2>2 DEF NodeInv
<1>2. ASSUME count[p] # 0
      PROVE  \E d \in Ctx : smp_processor_id[d] = p /\ pc[d] \in NodePC /\ idx[d] = count[p] - 1
  BY <1>0, <1>2 DEF NodeInv
<1>3. CASE pc[c] = "count_write"
  <2>1. idx[c] <= count[p] /\ Reserved(c) /\ pc[c] \notin NodePC
    BY <1>3 DEF NodeInv, Reserved, NodePC, QueuedPC
  <2>2. ~(idx[c] < count[p])
    <3> SUFFICES ASSUME idx[c] < count[p] PROVE FALSE
      OBVIOUS
    <3>1. PICK d \in Ctx : smp_processor_id[d] = p /\ pc[d] \in NodePC /\ idx[d] = count[p] - 1
      BY <1>0, <1>2
    <3>2. idx[d] < idx[c]
      BY <1>1, <2>1, <3>1
    <3> QED BY <1>0, <3>1, <3>2
  <2> QED BY <1>0, <1>3, <2>1, <2>2
<1>4. CASE pc[c] \in NodePC
  <2>1. idx[c] < count[p] /\ Reserved(c)
    BY <1>4 DEF NodeInv, Reserved
  <2>2. PICK d \in Ctx : smp_processor_id[d] = p /\ pc[d] \in NodePC /\ idx[d] = count[p] - 1
    BY <1>0, <1>2, <2>1
  <2>3. d = c
    <3> SUFFICES ASSUME d # c PROVE FALSE
      OBVIOUS
    <3>1. idx[d] < idx[c]
      BY <1>1, <2>1, <2>2
    <3> QED BY <1>0, <2>1, <2>2, <3>1
  <2>4. pc[c] # "count_write"
    BY <1>4 DEF NodePC, QueuedPC
  <2> QED BY <1>0, <2>2, <2>3, <2>4
<1> QED BY <1>3, <1>4
-----------------------------------------------------------------------------
(* Every step preserves the stack of node indices. *)

(* Steps that only move contexts within NodePC, or outside of it. *)
LEMMA NodeFrame ==
    ASSUME NodeInv, idx' = idx, count' = count,
           \A d \in Ctx : pc'[d] \in NodePC <=> pc[d] \in NodePC,
           \A d \in Ctx : pc'[d] = "count_write" <=> pc[d] = "count_write"
    PROVE  NodeInv'
<1>1. \A d \in Ctx : Reserved(d)' <=> Reserved(d)
  BY DEF Reserved
<1> QED BY <1>1 DEF NodeInv, Below, SameCpu

LEMMA NodeStep == TypeOK /\ NodeInv /\ [Next]_vars => NodeInv'
<1> SUFFICES ASSUME TypeOK, NodeInv, [Next]_vars PROVE NodeInv'
  OBVIOUS
<1>0. pc \in [Ctx -> PCs] /\ count \in [Cpus -> 0 .. 4] /\ idx \in [Ctx -> 0 .. 3]
  BY DEF TypeOK, MAX_NODES
<1>l. level \in [Ctx -> 0 .. 3] /\ smp_processor_id \in [Ctx -> Cpus]
  BY CtxAssumption DEF MAX_NODES
<1>1. CASE UNCHANGED vars
  BY <1>1, NodeFrame DEF vars
<1>2. ASSUME NEW c \in Ctx, NEW l \in Locks,
             \/ queued_spin_lock(c, l) \/ queued_spin_trylock(c, l)
             \/ queued_spin_unlock(c, l)
      PROVE  NodeInv'
  <2>1. idx' = idx /\ count' = count
    BY <1>2 DEF queued_spin_lock, queued_spin_trylock, queued_spin_unlock
  <2>2. pc[c] = "idle" /\ (pc' = pc \/ \E t \in {"queue", "set_pending", "pend_spin"} :
                                          pc' = [pc EXCEPT ![c] = t])
    BY <1>2 DEF queued_spin_lock, queued_spin_trylock, queued_spin_unlock,
                MayRun, Goto, AfterRead
  <2>3. \A d \in Ctx : pc'[d] = pc[d] \/ (d = c /\ pc'[c] \in {"queue", "set_pending", "pend_spin"})
    BY <1>0, <2>2
  <2> QED BY <2>1, <2>2, <2>3, NodeFrame DEF NodePC, QueuedPC
<1>3. ASSUME NEW c \in Ctx, NEW l \in Locks, Running(c),
             \/ PendSpin(c, l) \/ SetPending(c, l) \/ UndoPending(c, l) \/ PendWait(c, l)
      PROVE  NodeInv'
  <2>1. idx' = idx /\ count' = count
    BY <1>3 DEF PendSpin, SetPending, UndoPending, PendWait
  <2>2. /\ pc[c] \notin NodePC \cup {"count_write"}
        /\ \E t \in {"pend_spin_last", "queue", "set_pending", "undo_pending",
                     "pend_wait", "pend_take"} : pc' = [pc EXCEPT ![c] = t]
    <3>1. CASE PendSpin(c, l)
      BY <3>1 DEF PendSpin, Goto, AfterRead, NodePC, QueuedPC
    <3>2. CASE SetPending(c, l)
      <4>2. \E t \in {"queue", "undo_pending", "pend_wait", "pend_take"} :
               pc' = [pc EXCEPT ![c] = t]
        BY <3>2 DEF SetPending, Goto, AfterFetch
      <4> QED BY <3>2, <4>2 DEF SetPending, NodePC, QueuedPC
    <3>3. CASE UndoPending(c, l) \/ PendWait(c, l)
      BY <3>3 DEF UndoPending, PendWait, Goto, NodePC, QueuedPC
    <3> QED BY <1>3, <3>1, <3>2, <3>3
  <2>3. \A d \in Ctx : pc'[d] = pc[d] \/ (d = c /\ pc'[c] \notin NodePC \cup {"count_write"})
    BY <1>0, <2>2 DEF NodePC, QueuedPC
  <2> QED BY <2>1, <2>2, <2>3, NodeFrame
<1>4. ASSUME NEW c \in Ctx, NEW l \in Locks, Running(c), PendTake(c, l)
      PROVE  NodeInv'
  <2>1. /\ pc' = [pc EXCEPT ![c] = "idle"] /\ idx' = [idx EXCEPT ![c] = 0]
        /\ count' = count /\ pc[c] = "pend_take"
    BY <1>4 DEF PendTake, Return, Goto
  <2>2. \A d \in Ctx : /\ d # c => pc'[d] = pc[d] /\ idx'[d] = idx[d]
                       /\ (pc'[d] \in NodePC <=> pc[d] \in NodePC)
                       /\ Reserved(d)' <=> Reserved(d)
    BY <1>0, <2>1 DEF Reserved, NodePC, QueuedPC
  <2>3. ~Reserved(c) /\ pc[c] \notin NodePC /\ pc[c] # "count_write" /\ pc'[c] # "count_write"
    BY <1>0, <2>1 DEF Reserved, NodePC, QueuedPC
  <2> QED BY <2>1, <2>2, <2>3 DEF NodeInv, Below, SameCpu
<1>5. ASSUME NEW c \in Ctx, NEW l \in Locks, Running(c), CountRead(c, l)
      PROVE  NodeInv'
  <2> DEFINE p == smp_processor_id[c]
  <2>1. /\ pc' = [pc EXCEPT ![c] = "count_write"] /\ idx' = [idx EXCEPT ![c] = count[p]]
        /\ count' = count /\ pc[c] = "queue"
    BY <1>5 DEF CountRead, Goto
  <2>2. /\ \A d \in Ctx \ {c} : pc'[d] = pc[d] /\ idx'[d] = idx[d] /\ (Reserved(d)' <=> Reserved(d))
        /\ pc'[c] = "count_write" /\ pc'[c] \notin NodePC /\ pc[c] \notin NodePC /\ idx'[c] = count[p]
    BY <1>0, <2>1 DEF Reserved, NodePC, QueuedPC
  <2>3. \A d \in Ctx : Reserved(d) => Active(d)
    BY DEF Reserved, Active, NodePC, QueuedPC
  <2>4. \A d \in Ctx : Below(c, d) => ~Reserved(d)
    <3> SUFFICES ASSUME NEW d \in Ctx, Below(c, d), Reserved(d) PROVE FALSE
      OBVIOUS
    <3>1. Below(d, c)
      BY <1>5, <1>l, <2>3, RunningTop DEF Below, SameCpu
    <3> QED BY <1>l, <3>1 DEF Below
  <2>5. count[p] # 0 => \E d \in Ctx : Below(d, c) /\ pc[d] \in NodePC /\ idx[d] = count[p] - 1
    <3> SUFFICES ASSUME count[p] # 0
                 PROVE  \E d \in Ctx : Below(d, c) /\ pc[d] \in NodePC /\ idx[d] = count[p] - 1
      OBVIOUS
    <3>1. PICK d \in Ctx : smp_processor_id[d] = p /\ pc[d] \in NodePC /\ idx[d] = count[p] - 1
      BY <1>l DEF NodeInv
    <3>2. Below(d, c)
      BY <1>5, <2>2, <2>3, <3>1, RunningTop DEF SameCpu, Reserved
    <3> QED BY <3>1, <3>2
  <2>6. count[p] <= level[c]
    <3>1. CASE count[p] = 0
      BY <3>1, <1>l
    <3>2. CASE count[p] # 0
      <4>1. PICK d \in Ctx : Below(d, c) /\ pc[d] \in NodePC /\ idx[d] = count[p] - 1
        BY <3>2, <2>5
      <4>2. idx[d] <= level[d]
        BY <4>1 DEF NodeInv, Reserved
      <4> QED BY <1>0, <1>l, <4>1, <4>2 DEF Below
    <3> QED BY <3>1, <3>2
  <2>n. \A d \in Ctx : Below(d, c) /\ pc[d] \in NodePC => idx[d] < count[p]
    BY DEF NodeInv, Below, SameCpu
  <2>m. \A d \in Ctx : Below(d, c) /\ pc[d] = "count_write" => idx[d] <= count[p]
    BY DEF NodeInv, Below, SameCpu
  <2>7. (\A d \in Ctx : pc[d] \in NodePC => idx[d] < count[smp_processor_id[d]])'
    BY <2>1, <2>2 DEF NodeInv
  <2>8. (\A d \in Ctx : pc[d] = "count_write" => idx[d] <= count[smp_processor_id[d]])'
    BY <1>0, <1>l, <2>1, <2>2 DEF NodeInv
  <2>9. (\A d, e \in Ctx : Below(d, e) /\ pc[d] \in NodePC /\ Reserved(e) => idx[d] < idx[e])'
    BY <2>1, <2>2, <2>n DEF NodeInv, Below, SameCpu
  <2>10. (\A d, e \in Ctx : Below(d, e) /\ pc[d] = "count_write" /\ Reserved(e) => idx[d] <= idx[e])'
    <3> SUFFICES ASSUME NEW d \in Ctx, NEW e \in Ctx, Below(d, e), (pc[d] = "count_write")', Reserved(e)'
                 PROVE  idx'[d] <= idx'[e]
      BY DEF Below, SameCpu
    <3>1. d # c
      BY <1>l, <2>2, <2>4 DEF Below
    <3>2. CASE e = c
      BY <3>1, <3>2, <2>2, <2>m
    <3>3. CASE e # c
      BY <3>1, <3>3, <2>2 DEF NodeInv
    <3> QED BY <3>2, <3>3
  <2>11. (\A q \in Cpus : count[q] # 0 =>
          \E d \in Ctx : smp_processor_id[d] = q /\ pc[d] \in NodePC /\ idx[d] = count[q] - 1)'
    BY <2>1, <2>2 DEF NodeInv
  <2>12. (\A d \in Ctx : Reserved(d) /\ idx[d] > 0 =>
          \E e \in Ctx : Below(e, d) /\ pc[e] \in NodePC /\ idx[e] = idx[d] - 1)'
    <3> SUFFICES ASSUME NEW d \in Ctx, Reserved(d)', idx'[d] > 0
                 PROVE  \E e \in Ctx : Below(e, d) /\ pc'[e] \in NodePC /\ idx'[e] = idx'[d] - 1
      BY DEF Below, SameCpu
    <3>1. CASE d = c
      BY <1>0, <1>l, <3>1, <2>2, <2>5
    <3>2. CASE d # c
      BY <3>2, <2>2 DEF NodeInv
    <3> QED BY <3>1, <3>2
  <2>13. (\A d \in Ctx : Reserved(d) => idx[d] <= level[d])'
    BY <2>2, <2>6 DEF NodeInv
  <2> QED BY <2>7, <2>8, <2>9, <2>10, <2>11, <2>12, <2>13 DEF NodeInv
<1>6. ASSUME NEW c \in Ctx, NEW l \in Locks, Running(c), CountWrite(c, l)
      PROVE  NodeInv'
  <2> DEFINE p == smp_processor_id[c]
  <2>1. /\ pc' = [pc EXCEPT ![c] = "init_node"] /\ idx' = idx
        /\ count' = [count EXCEPT ![p] = idx[c] + 1] /\ pc[c] = "count_write"
    BY <1>6 DEF CountWrite, Goto
  <2>2. count[p] = idx[c]
    BY <1>6, <2>1, StackTop
  <2>3. /\ \A d \in Ctx \ {c} : pc'[d] = pc[d]
        /\ pc'[c] \in NodePC /\ pc'[c] # "count_write" /\ pc[c] \notin NodePC
        /\ \A d \in Ctx : Reserved(d)' <=> Reserved(d)
    BY <1>0, <2>1 DEF Reserved, NodePC, QueuedPC
  <2>4. /\ \A q \in Cpus \ {p} : count'[q] = count[q]
        /\ count'[p] = count[p] + 1 /\ count'[p] = idx[c] + 1
    BY <1>0, <1>l, <2>1, <2>2
  <2>5. \A d \in Ctx : Below(c, d) => ~Reserved(d)
    <3> SUFFICES ASSUME NEW d \in Ctx, Below(c, d), Reserved(d) PROVE FALSE
      OBVIOUS
    <3>1. Active(d)
      BY DEF Reserved, Active, NodePC, QueuedPC
    <3>2. Below(d, c)
      BY <1>6, <1>l, <3>1, RunningTop DEF Below, SameCpu
    <3> QED BY <1>l, <3>2 DEF Below
  <2>7. (\A d \in Ctx : pc[d] \in NodePC => idx[d] < count[smp_processor_id[d]])'
    BY <1>0, <1>l, <2>1, <2>3, <2>4 DEF NodeInv
  <2>8. (\A d \in Ctx : pc[d] = "count_write" => idx[d] <= count[smp_processor_id[d]])'
    BY <1>0, <1>l, <2>1, <2>3, <2>4 DEF NodeInv
  <2>9. (\A d, e \in Ctx : Below(d, e) /\ pc[d] \in NodePC /\ Reserved(e) => idx[d] < idx[e])'
    BY <2>1, <2>3, <2>5 DEF NodeInv, Below, SameCpu
  <2>10. (\A d, e \in Ctx : Below(d, e) /\ pc[d] = "count_write" /\ Reserved(e) => idx[d] <= idx[e])'
    BY <2>1, <2>3 DEF NodeInv, Below, SameCpu
  <2>11. (\A q \in Cpus : count[q] # 0 =>
          \E d \in Ctx : smp_processor_id[d] = q /\ pc[d] \in NodePC /\ idx[d] = count[q] - 1)'
    <3> SUFFICES ASSUME NEW q \in Cpus, count'[q] # 0
                 PROVE  \E d \in Ctx : /\ smp_processor_id[d] = q /\ pc'[d] \in NodePC
                                       /\ idx'[d] = count'[q] - 1
      OBVIOUS
    <3>1. CASE q = p
      BY <1>0, <2>1, <2>3, <2>4, <3>1
    <3>2. CASE q # p
      BY <2>1, <2>3, <2>4, <3>2 DEF NodeInv
    <3> QED BY <3>1, <3>2
  <2>12. (\A d \in Ctx : Reserved(d) /\ idx[d] > 0 =>
          \E e \in Ctx : Below(e, d) /\ pc[e] \in NodePC /\ idx[e] = idx[d] - 1)'
    BY <2>1, <2>3 DEF NodeInv, Below, SameCpu
  <2>13. (\A d \in Ctx : Reserved(d) => idx[d] <= level[d])'
    BY <2>1, <2>3 DEF NodeInv
  <2> QED BY <2>7, <2>8, <2>9, <2>10, <2>11, <2>12, <2>13 DEF NodeInv
<1>7. ASSUME NEW c \in Ctx, NEW l \in Locks, Running(c),
             \/ InitNode(c, l) \/ TryLock(c, l) \/ xchg_tail(c, l) \/ Link(c, l)
             \/ McsWait(c, l) \/ ReadNext(c, l) \/ HeadWait(c, l) \/ Claim(c, l)
             \/ set_locked(c, l) \/ WaitNext(c, l) \/ Pass(c, l)
      PROVE  NodeInv'
  <2>1. idx' = idx /\ count' = count
    BY <1>7 DEF InitNode, TryLock, xchg_tail, Link, McsWait, ReadNext, HeadWait, Claim,
                set_locked, WaitNext, Pass
  <2>2. /\ pc[c] \in NodePC
        /\ \E t \in NodePC : pc' = [pc EXCEPT ![c] = t]
    BY <1>7 DEF InitNode, TryLock, xchg_tail, Link, McsWait, ReadNext, HeadWait, Claim,
                set_locked, WaitNext, Pass, Goto, NodePC, QueuedPC
  <2>3. \A d \in Ctx : pc'[d] = pc[d] \/ (d = c /\ pc'[c] \in NodePC)
    BY <1>0, <2>2
  <2>4. "count_write" \notin NodePC
    BY DEF NodePC, QueuedPC
  <2> QED BY <2>1, <2>2, <2>3, <2>4, NodeFrame
<1>8. ASSUME NEW c \in Ctx, NEW l \in Locks, Running(c), Release(c, l)
      PROVE  NodeInv'
  <2> DEFINE p == smp_processor_id[c]
  <2>1. /\ pc' = [pc EXCEPT ![c] = "idle"] /\ idx' = [idx EXCEPT ![c] = 0]
        /\ count' = [count EXCEPT ![p] = @ - 1] /\ pc[c] = "release"
    BY <1>8 DEF Release, Return, Goto
  <2>2. count[p] = idx[c] + 1
    BY <1>8, <2>1, StackTop DEF NodePC
  <2>3. /\ \A d \in Ctx \ {c} : pc'[d] = pc[d] /\ idx'[d] = idx[d] /\ (Reserved(d)' <=> Reserved(d))
        /\ pc'[c] \notin NodePC /\ pc'[c] # "count_write" /\ ~Reserved(c)'
        /\ Reserved(c) /\ pc[c] \in NodePC
    BY <1>0, <2>1 DEF Reserved, NodePC, QueuedPC
  <2>4. /\ \A q \in Cpus \ {p} : count'[q] = count[q]
        /\ count'[p] = idx[c]
    BY <1>0, <1>l, <2>1, <2>2
  <2>5. \A d \in Ctx \ {c} : SameCpu(d, c) /\ Reserved(d) => Below(d, c) /\ ~Below(c, d)
    <3> SUFFICES ASSUME NEW d \in Ctx \ {c}, SameCpu(d, c), Reserved(d)
                 PROVE  Below(d, c) /\ ~Below(c, d)
      OBVIOUS
    <3>1. Active(d)
      BY DEF Reserved, Active, NodePC, QueuedPC
    <3>2. Below(d, c)
      BY <1>8, <3>1, RunningTop DEF SameCpu
    <3> QED BY <1>l, <3>2 DEF Below
  <2>6. \A d \in Ctx \ {c} : SameCpu(d, c) /\ pc[d] \in NodePC => idx[d] < idx[c]
    BY <2>3, <2>5 DEF NodeInv, Reserved
  <2>7. (\A d \in Ctx : pc[d] \in NodePC => idx[d] < count[smp_processor_id[d]])'
    BY <1>l, <2>3, <2>4, <2>6 DEF NodeInv, SameCpu
  <2>8. (\A d \in Ctx : pc[d] = "count_write" => idx[d] <= count[smp_processor_id[d]])'
    <3> SUFFICES ASSUME NEW d \in Ctx, pc'[d] = "count_write"
                 PROVE  idx'[d] <= count'[smp_processor_id[d]]
      OBVIOUS
    <3>1. d # c /\ idx'[d] = idx[d] /\ pc[d] = "count_write" /\ Reserved(d)
      BY <2>3 DEF Reserved
    <3>2. CASE SameCpu(d, c)
      BY <2>3, <2>4, <2>5, <3>1, <3>2 DEF NodeInv, SameCpu
    <3>3. CASE ~SameCpu(d, c)
      BY <1>l, <2>4, <3>1, <3>3 DEF NodeInv, SameCpu
    <3> QED BY <3>2, <3>3
  <2>9. (\A d, e \in Ctx : Below(d, e) /\ pc[d] \in NodePC /\ Reserved(e) => idx[d] < idx[e])'
    BY <2>3 DEF NodeInv, Below, SameCpu
  <2>10. (\A d, e \in Ctx : Below(d, e) /\ pc[d] = "count_write" /\ Reserved(e) => idx[d] <= idx[e])'
    BY <2>3 DEF NodeInv, Below, SameCpu
  <2>11. (\A q \in Cpus : count[q] # 0 =>
          \E d \in Ctx : smp_processor_id[d] = q /\ pc[d] \in NodePC /\ idx[d] = count[q] - 1)'
    <3> SUFFICES ASSUME NEW q \in Cpus, count'[q] # 0
                 PROVE  \E d \in Ctx : /\ smp_processor_id[d] = q /\ pc'[d] \in NodePC
                                       /\ idx'[d] = count'[q] - 1
      OBVIOUS
    <3>1. CASE q = p
      <4>1. idx[c] > 0
        BY <1>0, <2>4, <3>1
      <4>2. PICK d \in Ctx : Below(d, c) /\ pc[d] \in NodePC /\ idx[d] = idx[c] - 1
        BY <2>3, <4>1 DEF NodeInv
      <4>3. d # c
        BY <1>0, <4>2
      <4> QED BY <2>3, <2>4, <3>1, <4>2, <4>3 DEF Below, SameCpu
    <3>2. CASE q # p
      <4>1. PICK d \in Ctx : smp_processor_id[d] = q /\ pc[d] \in NodePC /\ idx[d] = count[q] - 1
        BY <2>4, <3>2 DEF NodeInv
      <4> QED BY <2>3, <2>4, <3>2, <4>1
    <3> QED BY <3>1, <3>2
  <2>12. (\A d \in Ctx : Reserved(d) /\ idx[d] > 0 =>
          \E e \in Ctx : Below(e, d) /\ pc[e] \in NodePC /\ idx[e] = idx[d] - 1)'
    <3> SUFFICES ASSUME NEW d \in Ctx, Reserved(d)', idx'[d] > 0
                 PROVE  \E e \in Ctx : Below(e, d) /\ pc'[e] \in NodePC /\ idx'[e] = idx'[d] - 1
      BY DEF Below, SameCpu
    <3>1. d # c /\ Reserved(d) /\ idx'[d] = idx[d]
      BY <2>3
    <3>2. PICK e \in Ctx : Below(e, d) /\ pc[e] \in NodePC /\ idx[e] = idx[d] - 1
      BY <3>1 DEF NodeInv
    <3>3. e # c
      BY <2>5, <3>1, <3>2 DEF Below, SameCpu
    <3> QED BY <2>3, <3>1, <3>2, <3>3
  <2>13. (\A d \in Ctx : Reserved(d) => idx[d] <= level[d])'
    BY <2>3 DEF NodeInv
  <2> QED BY <2>7, <2>8, <2>9, <2>10, <2>11, <2>12, <2>13 DEF NodeInv
<1> QED BY <1>1, <1>2, <1>3, <1>4, <1>5, <1>6, <1>7, <1>8 DEF Next, queued_spin_lock_slowpath

-----------------------------------------------------------------------------
(* Types *)

(* What Dequeue does to the queues. *)
LEMMA DequeueEffect ==
    ASSUME queue \in [Locks -> Seq(Ctx)], NEW c \in Ctx, NEW l \in Locks, Dequeue(c, l)
    PROVE  \/ queue' = queue
           \/ /\ queue[l] # <<>> /\ Head(queue[l]) = c
              /\ queue' = [queue EXCEPT ![l] = Tail(queue[l])]
<1>1. CASE queue[l] # <<>> /\ Head(queue[l]) = c
  BY <1>1 DEF Dequeue
<1>2. CASE ~(queue[l] # <<>> /\ Head(queue[l]) = c)
  <2>1. queue' = [queue EXCEPT ![l] = queue[l]]
    BY <1>2 DEF Dequeue
  <2> QED BY <2>1
<1> QED BY <1>1, <1>2

LEMMA MyNodeType ==
    ASSUME TypeOK, NEW c \in Ctx
    PROVE  MyNode(c) \in NodeAddr /\ MyTail(c) \in Nat \ {0}
<1>1. idx \in [Ctx -> 0 .. MAX_NODES - 1]
  BY DEF TypeOK
<1>2. smp_processor_id[c] \in Cpus /\ idx[c] \in 0 .. MAX_NODES - 1
  BY <1>1, CtxAssumption
<1> QED BY <1>2, TailCode DEF MyNode, MyTail, NodeAddr

(* The tail of a non-empty queue decodes to the node of its last waiter. *)
LEMMA TailNode ==
    ASSUME TypeOK, LinkInv, NEW l \in Locks, word[l].tail # 0
    PROVE  /\ queue[l] # <<>> /\ queue[l][Len(queue[l])] \in Ctx
           /\ word[l].tail = MyTail(queue[l][Len(queue[l])])
           /\ decode_tail(word[l].tail) = MyNode(queue[l][Len(queue[l])])
<1>0. queue \in [Locks -> Seq(Ctx)] /\ idx \in [Ctx -> 0 .. MAX_NODES - 1]
  BY DEF TypeOK
<1>1. queue[l] # <<>> /\ word[l].tail = MyTail(queue[l][Len(queue[l])])
  BY DEF LinkInv
<1>2. queue[l][Len(queue[l])] \in Ctx
  BY <1>0, <1>1
<1>3. smp_processor_id[queue[l][Len(queue[l])]] \in Cpus
      /\ idx[queue[l][Len(queue[l])]] \in 0 .. MAX_NODES - 1
  BY <1>0, <1>2, CtxAssumption
<1> QED BY <1>1, <1>2, <1>3, TailCode DEF MyTail, MyNode

LEMMA TypeStep == TypeOK /\ NodeInv /\ LinkInv /\ NodeInv' /\ [Next]_vars => TypeOK'
<1> SUFFICES ASSUME TypeOK, NodeInv, LinkInv, NodeInv', [Next]_vars PROVE TypeOK'
  OBVIOUS
<1> DEFINE WordT == word \in [Locks -> Word]
           CountT == count \in [Cpus -> 0 .. 4]
           NodeT == node \in [NodeAddr -> [locked : 0 .. 1, next : NodeAddr \cup {NULL}]]
           PcT == pc \in [Ctx -> PCs]
           LkT == lk \in [Ctx -> Locks \cup {0}]
           IdxT == idx \in [Ctx -> 0 .. 3]
           PrevT == prev \in [Ctx -> NodeAddr \cup {NULL}]
           NextT == next \in [Ctx -> NodeAddr \cup {NULL}]
           HeldT == held \in [Ctx -> SUBSET Locks]
           QueueT == queue \in [Locks -> Seq(Ctx)]
<1>0. /\ WordT /\ CountT /\ NodeT /\ PcT /\ LkT /\ IdxT /\ PrevT /\ NextT /\ HeldT /\ QueueT
  BY DEF TypeOK, MAX_NODES
<1>tw. WordT
  BY <1>0
<1>tc. CountT /\ IdxT
  BY <1>0
<1>tn. NodeT
  BY <1>0
<1>tp. PcT
  BY <1>0
<1>tk. LkT /\ PcT
  BY <1>0
<1>tx. PrevT /\ NextT
  BY <1>0
<1>th. HeldT
  BY <1>0
<1>tq. QueueT
  BY <1>0
<1>g. WordT' /\ CountT' /\ NodeT' /\ PcT' /\ LkT' /\ IdxT' /\ PrevT' /\ NextT' /\ HeldT' /\ QueueT'
         => TypeOK'
  BY DEF TypeOK, MAX_NODES
<1>l. level \in [Ctx -> 0 .. 3] /\ smp_processor_id \in [Ctx -> Cpus]
  BY CtxAssumption DEF MAX_NODES
<1>n. \A c \in Ctx : MyNode(c) \in NodeAddr /\ MyTail(c) \in Nat
  BY MyNodeType
<1>s. NULL \in NodeAddr \cup {NULL} /\ 0 \in Locks \cup {0}
  OBVIOUS
<1>1. CASE UNCHANGED vars
  <2>1. WordT' /\ CountT' /\ NodeT' /\ PcT' /\ LkT' /\ IdxT' /\ PrevT' /\ NextT' /\ HeldT' /\ QueueT'
    BY <1>0, <1>1 DEF vars
  <2> QED BY <2>1, <1>g
<1>a. ASSUME NEW c \in Ctx, NEW l \in Locks,
             \/ queued_spin_lock(c, l) \/ queued_spin_trylock(c, l) \/ queued_spin_unlock(c, l)
      PROVE  TypeOK'
  <2>1. CountT' /\ NodeT' /\ IdxT' /\ PrevT' /\ NextT' /\ QueueT'
    BY <1>0, <1>a DEF queued_spin_lock, queued_spin_trylock, queued_spin_unlock
  <2>2. WordT'
    BY <1>tw, <1>a DEF queued_spin_lock, queued_spin_trylock, queued_spin_unlock, Word
  <2>3. PcT' /\ LkT'
    BY <1>tk, <1>tp, <1>a DEF queued_spin_lock, queued_spin_trylock, queued_spin_unlock, PCs, Goto, AfterRead
  <2>4. HeldT'
    BY <1>th, <1>a DEF queued_spin_lock, queued_spin_trylock, queued_spin_unlock, Acquire
  <2> QED BY <1>g, <2>1, <2>2, <2>3, <2>4
<1>b. ASSUME NEW c \in Ctx, NEW l \in Locks,
             \/ PendSpin(c, l) \/ SetPending(c, l) \/ UndoPending(c, l) \/ PendWait(c, l)
      PROVE  TypeOK'
  <2>1. CountT' /\ NodeT' /\ LkT' /\ IdxT' /\ PrevT' /\ NextT' /\ HeldT' /\ QueueT'
    BY <1>0, <1>b DEF PendSpin, SetPending, UndoPending, PendWait
  <2>2. WordT'
    BY <1>tw, <1>b DEF PendSpin, SetPending, UndoPending, PendWait, Word
  <2>3. PcT'
    BY <1>tp, <1>b DEF PendSpin, SetPending, UndoPending, PendWait, PCs, PendPC, Goto, AfterRead,
                      AfterFetch
  <2> QED BY <1>g, <2>1, <2>2, <2>3
<1>c. ASSUME NEW c \in Ctx, NEW l \in Locks, PendTake(c, l) \/ Release(c, l)
      PROVE  TypeOK'
  <2>1. NodeT' /\ LkT' /\ PrevT' /\ NextT' /\ QueueT'
    BY <1>0, <1>c, <1>s DEF PendTake, Release, Return
  <2>2. WordT'
    BY <1>tw, <1>c DEF PendTake, Release, Word
  <2>3. PcT' /\ IdxT'
    BY <1>tc, <1>tp, <1>c DEF PendTake, Release, Return, Goto, PCs
  <2>4. HeldT'
    BY <1>th, <1>c DEF PendTake, Release, Acquire
  <2>5. CountT'
    <3>1. CASE PendTake(c, l)
      BY <1>0, <3>1 DEF PendTake
    <3>2. CASE Release(c, l)
      <4>1. pc[c] \in NodePC /\ count' = [count EXCEPT ![smp_processor_id[c]] = @ - 1]
        BY <3>2 DEF Release, NodePC
      <4>2. idx[c] < count[smp_processor_id[c]]
        BY <4>1 DEF NodeInv
      <4> QED BY <1>tc, <1>l, <4>1, <4>2
    <3> QED BY <1>c, <3>1, <3>2
  <2> QED BY <1>g, <2>1, <2>2, <2>3, <2>4, <2>5
<1>d. ASSUME NEW c \in Ctx, NEW l \in Locks, CountRead(c, l)
      PROVE  TypeOK'
  <2>1. WordT' /\ CountT' /\ NodeT' /\ LkT' /\ PrevT' /\ NextT' /\ HeldT' /\ QueueT'
    BY <1>0, <1>d DEF CountRead
  <2>2. PcT' /\ pc'[c] = "count_write"
    BY <1>tp, <1>d DEF CountRead, Goto, PCs
  <2>3. idx'[c] <= level[c] /\ idx' = [idx EXCEPT ![c] = count[smp_processor_id[c]]]
    BY <1>d, <2>2 DEF CountRead, NodeInv, Reserved
  <2>4. IdxT'
    BY <1>tc, <1>l, <2>3
  <2> QED BY <1>g, <2>1, <2>2, <2>4
<1>e. ASSUME NEW c \in Ctx, NEW l \in Locks, CountWrite(c, l) \/ InitNode(c, l) \/ TryLock(c, l)
      PROVE  TypeOK'
  <2>1. LkT' /\ IdxT' /\ PrevT' /\ NextT' /\ QueueT'
    BY <1>0, <1>e DEF CountWrite, InitNode, TryLock
  <2>2. WordT'
    BY <1>tw, <1>e DEF CountWrite, InitNode, TryLock, Word
  <2>3. PcT'
    BY <1>tp, <1>e DEF CountWrite, InitNode, TryLock, Goto, PCs, NodePC, QueuedPC
  <2>4. HeldT'
    BY <1>th, <1>e DEF CountWrite, InitNode, TryLock, Acquire
  <2>5. CountT'
    BY <1>tc, <1>l, <1>e DEF CountWrite, InitNode, TryLock
  <2>6. NodeT'
    BY <1>tn, <1>n, <1>s, <1>e DEF CountWrite, InitNode, TryLock
  <2> QED BY <1>g, <2>1, <2>2, <2>3, <2>4, <2>5, <2>6
<1>f. ASSUME NEW c \in Ctx, NEW l \in Locks, xchg_tail(c, l)
      PROVE  TypeOK'
  <2>1. CountT' /\ NodeT' /\ LkT' /\ IdxT' /\ HeldT'
    BY <1>0, <1>f DEF xchg_tail
  <2>2. WordT'
    BY <1>tw, <1>n, <1>f DEF xchg_tail, Word
  <2>3. PcT'
    BY <1>tp, <1>f DEF xchg_tail, Goto, PCs, NodePC, QueuedPC
  <2>4. NextT'
    BY <1>tx, <1>tn, <1>s, <1>f DEF xchg_tail
  <2>5. PrevT'
    <3>1. word[l].tail # 0 => decode_tail(word[l].tail) \in NodeAddr
      BY <1>n, TailNode
    <3> QED BY <1>0, <1>f, <3>1 DEF xchg_tail
  <2>6. QueueT'
    BY <1>tq, <1>f DEF xchg_tail
  <2> QED BY <1>g, <2>1, <2>2, <2>3, <2>4, <2>5, <2>6
<1>h. ASSUME NEW c \in Ctx, NEW l \in Locks,
             \/ Link(c, l) \/ McsWait(c, l) \/ ReadNext(c, l) \/ HeadWait(c, l) \/ WaitNext(c, l)
      PROVE  TypeOK'
  <2>1. WordT' /\ CountT' /\ LkT' /\ IdxT' /\ PrevT' /\ HeldT' /\ QueueT'
    BY <1>0, <1>h DEF Link, McsWait, ReadNext, HeadWait, WaitNext
  <2>2. PcT'
    BY <1>tp, <1>h DEF Link, McsWait, ReadNext, HeadWait, WaitNext, Goto, PCs, NodePC, QueuedPC
  <2>3. NodeT'
    BY <1>tn, <1>n, <1>h DEF Link, McsWait, ReadNext, HeadWait, WaitNext
  <2>4. NextT'
    BY <1>tx, <1>tn, <1>n, <1>h DEF Link, McsWait, ReadNext, HeadWait, WaitNext
  <2> QED BY <1>g, <2>1, <2>2, <2>3, <2>4
<1>i. ASSUME NEW c \in Ctx, NEW l \in Locks, Claim(c, l) \/ set_locked(c, l) \/ Pass(c, l)
      PROVE  TypeOK'
  <2>1. CountT' /\ LkT' /\ IdxT' /\ PrevT' /\ NextT'
    BY <1>0, <1>i DEF Claim, set_locked, Pass
  <2>2. PcT'
    BY <1>tp, <1>i DEF Claim, set_locked, Pass, Goto, PCs, NodePC, QueuedPC
  <2>3. WordT'
    BY <1>tw, <1>i DEF Claim, set_locked, Pass, Word
  <2>4. HeldT'
    BY <1>th, <1>i DEF Claim, set_locked, Pass, Acquire
  <2>5. NodeT'
    BY <1>tn, <1>i DEF Claim, set_locked, Pass
  <2>6. QueueT'
    <3>1. queue[l] \in Seq(Ctx) /\ (queue[l] # <<>> => Tail(queue[l]) \in Seq(Ctx))
      BY <1>tq
    <3>2. queue' = queue \/ (queue[l] # <<>> /\ queue' = [queue EXCEPT ![l] = Tail(queue[l])])
      <4>1. queue' = queue \/ Dequeue(c, l)
        BY <1>i DEF Claim, set_locked, Pass
      <4> QED BY <1>tq, <4>1, DequeueEffect
    <3> QED BY <1>tq, <3>1, <3>2
  <2> QED BY <1>g, <2>1, <2>2, <2>3, <2>4, <2>5, <2>6
<1> QED BY <1>1, <1>a, <1>b, <1>c, <1>d, <1>e, <1>f, <1>h, <1>i DEF Next, queued_spin_lock_slowpath

-----------------------------------------------------------------------------
(* Calls *)

LEMMA CallStep == TypeOK /\ CallInv /\ [Next]_vars => CallInv'
<1> SUFFICES ASSUME TypeOK, CallInv, [Next]_vars PROVE CallInv'
  OBVIOUS
<1>0. pc \in [Ctx -> PCs] /\ lk \in [Ctx -> Locks \cup {0}]
  BY DEF TypeOK
<1>k. 0 \notin Locks
  BY LocksAssumption
<1>1. CASE UNCHANGED vars
  BY <1>1 DEF vars, CallInv
<1>2. ASSUME NEW c \in Ctx, NEW l \in Locks,
             \/ queued_spin_lock(c, l) \/ queued_spin_trylock(c, l) \/ queued_spin_unlock(c, l)
      PROVE  CallInv'
  BY <1>0, <1>k, <1>2 DEF queued_spin_lock, queued_spin_trylock, queued_spin_unlock,
                          CallInv, Goto, AfterRead
<1>3. ASSUME NEW c \in Ctx, NEW l \in Locks, PendTake(c, l) \/ Release(c, l)
      PROVE  CallInv'
  BY <1>0, <1>3 DEF PendTake, Release, Return, Goto, CallInv
<1>4. ASSUME NEW c \in Ctx, NEW l \in Locks, lk[c] = l,
             \/ PendSpin(c, l)    \/ SetPending(c, l)  \/ UndoPending(c, l)
             \/ PendWait(c, l)    \/ CountRead(c, l)   \/ CountWrite(c, l)
             \/ InitNode(c, l)    \/ TryLock(c, l)     \/ xchg_tail(c, l)
             \/ Link(c, l)        \/ McsWait(c, l)     \/ ReadNext(c, l)
             \/ HeadWait(c, l)    \/ Claim(c, l)       \/ set_locked(c, l)
             \/ WaitNext(c, l)    \/ Pass(c, l)
      PROVE  CallInv'
  <2>1. lk' = lk
    BY <1>4 DEF PendSpin, SetPending, UndoPending, PendWait, CountRead, CountWrite, InitNode,
                TryLock, xchg_tail, Link, McsWait, ReadNext, HeadWait, Claim, set_locked,
                WaitNext, Pass
  <2>2. \E t : t # "idle" /\ pc' = [pc EXCEPT ![c] = t]
    BY <1>4 DEF PendSpin, SetPending, UndoPending, PendWait, CountRead, CountWrite, InitNode,
                TryLock, xchg_tail, Link, McsWait, ReadNext, HeadWait, Claim, set_locked,
                WaitNext, Pass, Goto, AfterRead, AfterFetch
  <2> QED BY <1>0, <1>k, <1>4, <2>1, <2>2 DEF CallInv
<1> QED BY <1>1, <1>2, <1>3, <1>4 DEF Next, queued_spin_lock_slowpath

-----------------------------------------------------------------------------
(* Consequences of the invariant that several steps use *)

(* Waiters in a queue keep the tail set. *)
LEMMA QueuedTail ==
    ASSUME IInv, NEW c \in Ctx, NEW l \in Locks, lk[c] = l, pc[c] \in QueuedPC
    PROVE  queue[l] # <<>> /\ word[l].tail # 0
<1>0. queue \in [Locks -> Seq(Ctx)]
  BY DEF IInv, TypeOK
<1>1. PICK i \in DOMAIN queue[l] : queue[l][i] = c
  BY DEF IInv, QueueInv, MemberInv
<1>2. queue[l] # <<>> /\ queue[l] \in Seq(Ctx)
  BY <1>0, <1>1
<1>3. queue[l][Len(queue[l])] \in Ctx
  BY <1>2
<1>4. MyTail(queue[l][Len(queue[l])]) # 0
  BY <1>3, MyNodeType DEF IInv
<1>5. word[l].tail = MyTail(queue[l][Len(queue[l])])
  BY <1>2 DEF IInv, QueueInv, LinkInv
<1> QED BY <1>2, <1>4, <1>5

(* Only one waiter of a lock is past mcs_wait: the first of its queue. *)
HeadPC == QueuedPC \ {"link", "mcs_wait"}

LEMMA HeadFirst ==
    ASSUME IInv, NEW c \in Ctx, NEW l \in Locks, lk[c] = l, pc[c] \in HeadPC
    PROVE  queue[l] # <<>> /\ queue[l][1] = c /\ 1 \in DOMAIN queue[l]
<1>0. queue \in [Locks -> Seq(Ctx)]
  BY DEF IInv, TypeOK
<1>1. PICK i \in DOMAIN queue[l] : queue[l][i] = c
  BY DEF IInv, QueueInv, MemberInv, HeadPC
<1>2. i = 1
  BY <1>1 DEF IInv, QueueInv, OrderInv, OrderAt, HeadPC
<1> QED BY <1>0, <1>1, <1>2

LEMMA HeadUnique ==
    ASSUME IInv, NEW c \in Ctx, NEW d \in Ctx, lk[c] \in Locks, lk[c] = lk[d],
           pc[c] \in HeadPC, pc[d] \in HeadPC
    PROVE  c = d
BY HeadFirst

(* Distinct contexts that hold a node hold distinct nodes. *)
LEMMA NodesApart ==
    ASSUME TypeOK, NodeInv, NEW c \in Ctx, NEW d \in Ctx, c # d,
           pc[c] \in NodePC, pc[d] \in NodePC
    PROVE  MyNode(c) # MyNode(d)
<1>0. idx \in [Ctx -> 0 .. 3] /\ level \in [Ctx -> 0 .. 3]
  BY CtxAssumption DEF TypeOK, MAX_NODES
<1> SUFFICES ASSUME smp_processor_id[c] = smp_processor_id[d], idx[c] = idx[d] PROVE FALSE
  BY DEF MyNode
<1>1. level[c] # level[d]
  BY CtxAssumption
<1>2. Below(c, d) \/ Below(d, c)
  BY <1>0, <1>1 DEF Below, SameCpu
<1>3. Reserved(c) /\ Reserved(d)
  BY DEF Reserved
<1> QED BY <1>0, <1>2, <1>3 DEF NodeInv

-----------------------------------------------------------------------------
(* The lock word *)
(* Contexts LockInv speaks about, besides the owners. *)
Special == PendSet \cup {"claim", "set_locked"}

(* Steps that leave owners, locked and pending bytes and special contexts alone. *)
LEMMA LockFrame ==
    ASSUME IInv, NEW c \in Ctx, held' = held,
           \A m \in Locks : word'[m].locked = word[m].locked /\ word'[m].pending = word[m].pending,
           \A d \in Ctx \ {c} : pc'[d] = pc[d] /\ lk'[d] = lk[d],
           pc[c] \notin Special, pc'[c] \notin Special
    PROVE  LockInv'
<1>0. \A d \in Ctx : pc[d] \in Special => lk[d] \in Locks
  <2>1. lk \in [Ctx -> Locks \cup {0}]
    BY DEF IInv, TypeOK
  <2>2. \A d \in Ctx : pc[d] \in Special => pc[d] # "idle"
    BY DEF Special, PendSet, PendPC
  <2> QED BY <2>1, <2>2 DEF IInv, CallInv
<1>1. HeldInv'
  BY DEF IInv, LockInv, HeldInv, MutualExclusion
<1>2. PendInv'
  BY <1>0 DEF IInv, LockInv, PendInv, Special
<1>3. TakeInv'
  BY <1>0 DEF IInv, LockInv, TakeInv, Special, PendSet, PendPC
<1> QED BY <1>1, <1>2, <1>3 DEF LockInv

(* A cmpxchg on the unlocked word: fast path, trylock, trylock with a node. *)
LEMMA LockGrab ==
    ASSUME IInv, NEW c \in Ctx, NEW l \in Locks, word[l] = Unlocked,
           word' = [word EXCEPT ![l].locked = 1], Acquire(c, l), lk' = lk,
           \A d \in Ctx \ {c} : pc'[d] = pc[d],
           pc[c] \notin Special, pc'[c] \notin Special
    PROVE  LockInv'
<1>0. word \in [Locks -> Word] /\ held \in [Ctx -> SUBSET Locks]
  BY DEF IInv, TypeOK
<1>1. \A d \in Ctx : pc[d] \in Special => lk[d] \in Locks
  <2>1. lk \in [Ctx -> Locks \cup {0}]
    BY DEF IInv, TypeOK
  <2>2. \A d \in Ctx : pc[d] \in Special => pc[d] # "idle"
    BY DEF Special, PendSet, PendPC
  <2> QED BY <2>1, <2>2 DEF IInv, CallInv
<1>2. word[l].locked = 0 /\ word[l].pending = 0 /\ word[l].tail = 0
  BY DEF Unlocked
<1>3. \A d \in Ctx : l \notin held[d]
  BY <1>2 DEF IInv, LockInv, HeldInv
<1>4. \A d \in Ctx : pc[d] \in Special => lk[d] # l
  <2> SUFFICES ASSUME NEW d \in Ctx, pc[d] \in Special, lk[d] = l PROVE FALSE
    OBVIOUS
  <2>1. CASE pc[d] \in PendSet
    BY <1>2, <2>1 DEF IInv, LockInv, PendInv
  <2>2. CASE pc[d] \in {"claim", "set_locked"}
    BY <1>2, <2>2, QueuedTail DEF QueuedPC
  <2> QED BY <2>1, <2>2 DEF Special
<1>5. \A m \in Locks : m # l => word'[m] = word[m]
  BY <1>0
<1>6. word'[l].locked = 1
  BY <1>0 DEF Word
<1>7. /\ \A d \in Ctx \ {c} : held'[d] = held[d]
      /\ held'[c] = held[c] \cup {l}
  BY <1>0 DEF Acquire
<1>8. HeldInv'
  BY <1>3, <1>5, <1>6, <1>7 DEF IInv, LockInv, HeldInv, MutualExclusion
<1>9. PendInv'
  BY <1>1, <1>4, <1>5 DEF IInv, LockInv, PendInv, Special
<1>10. TakeInv'
  BY <1>1, <1>4, <1>5 DEF IInv, LockInv, TakeInv, Special, PendSet, PendPC
<1> QED BY <1>8, <1>9, <1>10 DEF LockInv

LEMMA LockStep == IInv /\ [Next]_vars => LockInv'
<1> SUFFICES ASSUME IInv, [Next]_vars PROVE LockInv'
  OBVIOUS
<1>w. word \in [Locks -> Word]
  BY DEF IInv, TypeOK
<1>p. pc \in [Ctx -> PCs] /\ lk \in [Ctx -> Locks \cup {0}]
  BY DEF IInv, TypeOK
<1>h. held \in [Ctx -> SUBSET Locks]
  BY DEF IInv, TypeOK
<1>k. \A d \in Ctx : pc[d] \in Special => lk[d] \in Locks
  <2>2. \A d \in Ctx : pc[d] \in Special => pc[d] # "idle"
    BY DEF Special, PendSet, PendPC
  <2> QED BY <1>p, <2>2 DEF IInv, CallInv
<1>1. CASE UNCHANGED vars
  BY <1>1 DEF vars, IInv, LockInv, HeldInv, PendInv, TakeInv, MutualExclusion
<1>2. ASSUME NEW c \in Ctx, NEW l \in Locks, queued_spin_lock(c, l) PROVE LockInv'
  <2>1. pc[c] = "idle" /\ pc[c] \notin Special
    BY <1>2 DEF queued_spin_lock, MayRun, Special, PendSet, PendPC
  <2>2. CASE word[l] = Unlocked
    <3>1. word' = [word EXCEPT ![l].locked = 1] /\ Acquire(c, l) /\ pc' = pc /\ lk' = lk
      BY <1>2, <2>2 DEF queued_spin_lock
    <3> QED BY <2>1, <2>2, <3>1, LockGrab
  <2>3. CASE word[l] # Unlocked
    <3>1. /\ word' = word /\ held' = held /\ lk' = [lk EXCEPT ![c] = l]
          /\ \E t \in {"pend_spin", "queue", "set_pending"} : pc' = [pc EXCEPT ![c] = t]
      BY <1>2, <2>3 DEF queued_spin_lock, Goto, AfterRead
    <3>2. pc'[c] \notin Special /\ \A d \in Ctx \ {c} : pc'[d] = pc[d] /\ lk'[d] = lk[d]
      BY <1>p, <3>1 DEF Special, PendSet, PendPC
    <3> QED BY <2>1, <3>1, <3>2, LockFrame
  <2> QED BY <2>2, <2>3
<1>3. ASSUME NEW c \in Ctx, NEW l \in Locks, queued_spin_trylock(c, l) PROVE LockInv'
  <2>1. pc[c] = "idle" /\ pc[c] \notin Special
    BY <1>3 DEF queued_spin_trylock, MayRun, Special, PendSet, PendPC
  <2>2. /\ word[l] = Unlocked /\ word' = [word EXCEPT ![l].locked = 1]
        /\ Acquire(c, l) /\ pc' = pc /\ lk' = lk
    BY <1>3 DEF queued_spin_trylock
  <2> QED BY <2>1, <2>2, LockGrab
<1>4. ASSUME NEW c \in Ctx, NEW l \in Locks, queued_spin_unlock(c, l) PROVE LockInv'
  <2>1. /\ l \in held[c] /\ word' = [word EXCEPT ![l].locked = 0]
        /\ held' = [held EXCEPT ![c] = @ \ {l}] /\ pc' = pc /\ lk' = lk
    BY <1>4 DEF queued_spin_unlock
  <2>2. /\ word'[l].locked = 0 /\ word'[l].pending = word[l].pending
        /\ \A m \in Locks \ {l} : word'[m] = word[m]
    BY <1>w, <2>1 DEF Word
  <2>3. held'[c] = held[c] \ {l} /\ \A d \in Ctx \ {c} : held'[d] = held[d] /\ l \notin held[d]
    BY <1>h, <2>1 DEF IInv, LockInv, HeldInv, MutualExclusion
  <2>4. HeldInv'
    BY <2>2, <2>3 DEF IInv, LockInv, HeldInv, MutualExclusion
  <2>5. PendInv'
    BY <1>k, <2>1, <2>2 DEF IInv, LockInv, PendInv, Special
  <2>6. TakeInv'
    BY <1>k, <2>1, <2>2 DEF IInv, LockInv, TakeInv, Special, PendSet, PendPC
  <2> QED BY <2>4, <2>5, <2>6 DEF LockInv
<1>5. ASSUME NEW c \in Ctx, NEW l \in Locks, lk[c] = l,
             \/ PendSpin(c, l) \/ CountRead(c, l) \/ CountWrite(c, l) \/ InitNode(c, l)
             \/ Link(c, l) \/ McsWait(c, l) \/ ReadNext(c, l) \/ WaitNext(c, l) \/ Pass(c, l)
             \/ Release(c, l)
      PROVE  LockInv'
  <2>1. word' = word /\ held' = held /\ pc[c] \notin Special
    BY <1>5 DEF PendSpin, CountRead, CountWrite, InitNode, Link, McsWait, ReadNext, WaitNext,
                Pass, Release, Special, PendSet, PendPC
  <2>2. \E t : t \notin Special /\ pc' = [pc EXCEPT ![c] = t]
    BY <1>5 DEF PendSpin, CountRead, CountWrite, InitNode, Link, McsWait, ReadNext, WaitNext,
                Pass, Release, Special, PendSet, PendPC, Goto, AfterRead, Return
  <2>3. \A d \in Ctx \ {c} : lk'[d] = lk[d]
    BY <1>p, <1>5 DEF PendSpin, CountRead, CountWrite, InitNode, Link, McsWait, ReadNext, WaitNext,
                Pass, Release, Return
  <2>4. pc'[c] \notin Special /\ \A d \in Ctx \ {c} : pc'[d] = pc[d]
    BY <1>p, <2>2
  <2> QED BY <2>1, <2>3, <2>4, LockFrame
<1>6. ASSUME NEW c \in Ctx, NEW l \in Locks, lk[c] = l, xchg_tail(c, l) PROVE LockInv'
  <2>1. /\ word' = [word EXCEPT ![l].tail = MyTail(c)] /\ held' = held /\ lk' = lk
        /\ pc[c] = "xchg_tail" /\ \E t \in {"link", "head_wait"} : pc' = [pc EXCEPT ![c] = t]
    BY <1>6 DEF xchg_tail, Goto
  <2>2. \A m \in Locks : word'[m].locked = word[m].locked /\ word'[m].pending = word[m].pending
    BY <1>w, <2>1 DEF Word
  <2>3. /\ pc[c] \notin Special /\ pc'[c] \notin Special
        /\ \A d \in Ctx \ {c} : pc'[d] = pc[d] /\ lk'[d] = lk[d]
    BY <1>p, <2>1 DEF Special, PendSet, PendPC
  <2> QED BY <2>1, <2>2, <2>3, LockFrame
<1>7. ASSUME NEW c \in Ctx, NEW l \in Locks, lk[c] = l, TryLock(c, l) PROVE LockInv'
  <2>1. /\ pc[c] = "trylock" /\ lk' = lk
        /\ \E t \in {"release", "xchg_tail"} : pc' = [pc EXCEPT ![c] = t]
    BY <1>7 DEF TryLock, Goto
  <2>2. /\ pc[c] \notin Special /\ pc'[c] \notin Special
        /\ \A d \in Ctx \ {c} : pc'[d] = pc[d] /\ lk'[d] = lk[d]
    BY <1>p, <2>1 DEF Special, PendSet, PendPC
  <2>3. CASE word[l] = Unlocked
    <3>1. word' = [word EXCEPT ![l].locked = 1] /\ Acquire(c, l)
      BY <1>7, <2>3 DEF TryLock
    <3> QED BY <2>1, <2>2, <2>3, <3>1, LockGrab
  <2>4. CASE word[l] # Unlocked
    <3>1. word' = word /\ held' = held
      BY <1>7, <2>4 DEF TryLock
    <3> QED BY <2>2, <3>1, LockFrame
  <2> QED BY <2>3, <2>4
<1>8. ASSUME NEW c \in Ctx, NEW l \in Locks, lk[c] = l, SetPending(c, l) PROVE LockInv'
  <2>1. /\ word' = [word EXCEPT ![l].pending = 1] /\ held' = held /\ lk' = lk
        /\ pc[c] = "set_pending" /\ pc' = [pc EXCEPT ![c] = AfterFetch(word[l])]
    BY <1>8 DEF SetPending, Goto
  <2>2. /\ word'[l].pending = 1
        /\ \A m \in Locks : word'[m].locked = word[m].locked
        /\ \A m \in Locks \ {l} : word'[m].pending = word[m].pending
        /\ word[l].pending \in {0, 1} /\ word[l].locked \in {0, 1}
    BY <1>w, <2>1 DEF Word
  <2>3. pc'[c] = AfterFetch(word[l]) /\ \A d \in Ctx \ {c} : pc'[d] = pc[d]
    BY <1>p, <2>1
  <2>4. HeldInv'
    BY <2>1, <2>2 DEF IInv, LockInv, HeldInv, MutualExclusion
  <2>5. pc'[c] \in Special => word[l].pending = 0 /\ pc'[c] \in PendSet
    BY <2>2, <2>3 DEF AfterFetch, Contended, Special, PendSet, PendPC
  <2>6. pc'[c] \in PendSet => \A d \in Ctx : pc[d] \in PendSet => lk[d] # l
    BY <2>5 DEF IInv, LockInv, PendInv, Special
  <2>7. PendInv'
    <3>1. (\A d \in Ctx : pc[d] \in PendSet => word[lk[d]].pending = 1)'
      BY <1>8, <1>k, <2>1, <2>2, <2>3 DEF IInv, LockInv, PendInv, Special
    <3>2. (\A d, e \in Ctx : pc[d] \in PendSet /\ pc[e] \in PendSet /\ lk[d] = lk[e] => d = e)'
      BY <1>8, <2>1, <2>3, <2>6 DEF IInv, LockInv, PendInv
    <3> QED BY <3>1, <3>2 DEF PendInv
  <2>8. pc'[c] \in PendPC => word[l].tail = 0
    BY <2>3 DEF AfterFetch, Contended, PendPC
  <2>9. \A d \in Ctx : pc[d] \in {"claim", "set_locked"} /\ lk[d] = l => pc'[c] \notin PendPC
    BY <2>8, QueuedTail DEF QueuedPC
  <2>10. pc'[c] \notin {"claim", "set_locked"} /\ (pc'[c] = "pend_take" => word[l].locked = 0)
    BY <2>2, <2>3 DEF AfterFetch
  <2>11. TakeInv'
    <3>1. (\A d \in Ctx : pc[d] \in {"pend_take", "claim", "set_locked"} => word[lk[d]].locked = 0)'
      BY <1>8, <1>k, <2>1, <2>2, <2>3, <2>10 DEF IInv, LockInv, TakeInv, Special, PendSet, PendPC
    <3>2. (\A d, e \in Ctx : pc[d] \in {"claim", "set_locked"} /\ lk[e] = lk[d] => pc[e] \notin PendPC)'
      BY <1>8, <2>1, <2>3, <2>9, <2>10 DEF IInv, LockInv, TakeInv
    <3> QED BY <3>1, <3>2 DEF TakeInv
  <2> QED BY <2>4, <2>7, <2>11 DEF LockInv
<1>9. ASSUME NEW c \in Ctx, NEW l \in Locks, lk[c] = l, UndoPending(c, l) PROVE LockInv'
  <2>1. /\ word' = [word EXCEPT ![l].pending = 0] /\ held' = held /\ lk' = lk
        /\ pc[c] = "undo_pending" /\ pc' = [pc EXCEPT ![c] = "queue"]
    BY <1>9 DEF UndoPending, Goto
  <2>2. /\ \A m \in Locks : word'[m].locked = word[m].locked
        /\ \A m \in Locks \ {l} : word'[m].pending = word[m].pending
    BY <1>w, <2>1 DEF Word
  <2>3. /\ pc'[c] = "queue" /\ \A d \in Ctx \ {c} : pc'[d] = pc[d]
        /\ pc'[c] \notin Special /\ pc[c] \in PendSet
    BY <1>p, <2>1 DEF Special, PendSet, PendPC
  <2>4. \A d \in Ctx \ {c} : pc[d] \in PendSet => lk[d] # l
    BY <1>9, <2>3 DEF IInv, LockInv, PendInv
  <2>5. HeldInv'
    BY <2>1, <2>2 DEF IInv, LockInv, HeldInv, MutualExclusion
  <2>6. PendInv'
    BY <1>k, <2>1, <2>2, <2>3, <2>4 DEF IInv, LockInv, PendInv, Special
  <2>7. TakeInv'
    BY <1>k, <2>1, <2>2, <2>3 DEF IInv, LockInv, TakeInv, Special, PendSet, PendPC
  <2> QED BY <2>5, <2>6, <2>7 DEF LockInv
<1>10. ASSUME NEW c \in Ctx, NEW l \in Locks, lk[c] = l, PendWait(c, l) PROVE LockInv'
  <2>1. /\ word' = word /\ held' = held /\ lk' = lk /\ word[l].locked = 0
        /\ pc[c] = "pend_wait" /\ pc' = [pc EXCEPT ![c] = "pend_take"]
    BY <1>10 DEF PendWait, Goto
  <2>2. /\ pc'[c] = "pend_take" /\ \A d \in Ctx \ {c} : pc'[d] = pc[d]
        /\ pc[c] \in PendPC /\ pc[c] \in PendSet /\ pc'[c] \in PendPC
    BY <1>p, <2>1 DEF PendSet, PendPC
  <2>3. HeldInv'
    BY <2>1 DEF IInv, LockInv, HeldInv, MutualExclusion
  <2>4. PendInv'
    BY <2>1, <2>2 DEF IInv, LockInv, PendInv
  <2>5. TakeInv'
    BY <1>10, <2>1, <2>2 DEF IInv, LockInv, TakeInv
  <2> QED BY <2>3, <2>4, <2>5 DEF LockInv
<1>11. ASSUME NEW c \in Ctx, NEW l \in Locks, lk[c] = l, PendTake(c, l) PROVE LockInv'
  <2>1. /\ word' = [word EXCEPT ![l].locked = 1, ![l].pending = 0] /\ Acquire(c, l)
        /\ lk' = [lk EXCEPT ![c] = 0] /\ pc[c] = "pend_take" /\ pc' = [pc EXCEPT ![c] = "idle"]
    BY <1>11 DEF PendTake, Return, Goto
  <2>2. word'[l].locked = 1 /\ \A m \in Locks \ {l} : word'[m] = word[m]
    BY <1>w, <2>1 DEF Word
  <2>3. /\ pc'[c] = "idle" /\ pc'[c] \notin Special /\ pc[c] \in PendSet /\ pc[c] \in PendPC
        /\ \A d \in Ctx \ {c} : pc'[d] = pc[d] /\ lk'[d] = lk[d]
    BY <1>p, <2>1 DEF Special, PendSet, PendPC
  <2>4. word[l].locked = 0
    BY <1>11, <2>1 DEF IInv, LockInv, TakeInv
  <2>5. \A d \in Ctx : l \notin held[d]
    BY <2>4 DEF IInv, LockInv, HeldInv
  <2>6. \A d \in Ctx \ {c} : pc[d] \in Special => lk[d] # l
    <3> SUFFICES ASSUME NEW d \in Ctx \ {c}, pc[d] \in Special, lk[d] = l PROVE FALSE
      OBVIOUS
    <3>1. CASE pc[d] \in PendSet
      BY <1>11, <2>3, <3>1 DEF IInv, LockInv, PendInv
    <3>2. CASE pc[d] \in {"claim", "set_locked"}
      BY <1>11, <2>3, <3>2 DEF IInv, LockInv, TakeInv
    <3> QED BY <3>1, <3>2 DEF Special
  <2>7. held'[c] = held[c] \cup {l} /\ \A d \in Ctx \ {c} : held'[d] = held[d]
    BY <1>h, <2>1 DEF Acquire
  <2>8. HeldInv'
    BY <2>2, <2>5, <2>7 DEF IInv, LockInv, HeldInv, MutualExclusion
  <2>9. PendInv'
    BY <1>k, <2>2, <2>3, <2>6 DEF IInv, LockInv, PendInv, Special
  <2>10. TakeInv'
    BY <1>k, <2>2, <2>3, <2>6 DEF IInv, LockInv, TakeInv, Special, PendSet, PendPC
  <2> QED BY <2>8, <2>9, <2>10 DEF LockInv
<1>12. ASSUME NEW c \in Ctx, NEW l \in Locks, lk[c] = l, HeadWait(c, l) PROVE LockInv'
  <2>1. /\ word' = word /\ held' = held /\ lk' = lk /\ word[l].locked = 0 /\ word[l].pending = 0
        /\ pc[c] = "head_wait" /\ \E t \in {"claim", "set_locked"} : pc' = [pc EXCEPT ![c] = t]
    BY <1>12 DEF HeadWait, Goto
  <2>2. /\ pc'[c] \in {"claim", "set_locked"} /\ \A d \in Ctx \ {c} : pc'[d] = pc[d]
        /\ pc'[c] \notin PendSet /\ pc[c] \notin PendSet
    BY <1>p, <2>1 DEF PendSet, PendPC
  <2>3. \A d \in Ctx : lk[d] = l => pc[d] \notin PendSet
    BY <2>1 DEF IInv, LockInv, PendInv
  <2>4. HeldInv'
    BY <2>1 DEF IInv, LockInv, HeldInv, MutualExclusion
  <2>5. PendInv'
    BY <2>1, <2>2 DEF IInv, LockInv, PendInv
  <2>6. TakeInv'
    BY <1>12, <2>1, <2>2, <2>3 DEF IInv, LockInv, TakeInv, PendSet
  <2> QED BY <2>4, <2>5, <2>6 DEF LockInv
<1>13. ASSUME NEW c \in Ctx, NEW l \in Locks, lk[c] = l, pc[c] \in {"claim", "set_locked"},
              Acquire(c, l), lk' = lk,
              word'[l].locked = 1, word'[l].pending = word[l].pending,
              \A m \in Locks \ {l} : word'[m] = word[m],
              pc'[c] \notin Special, \A d \in Ctx \ {c} : pc'[d] = pc[d]
       PROVE  LockInv'
  <2>1. word[l].locked = 0
    BY <1>13 DEF IInv, LockInv, TakeInv
  <2>2. \A d \in Ctx : l \notin held[d]
    BY <2>1 DEF IInv, LockInv, HeldInv
  <2>3. \A d \in Ctx \ {c} : pc[d] \in {"pend_take", "claim", "set_locked"} => lk[d] # l
    <3> SUFFICES ASSUME NEW d \in Ctx \ {c}, pc[d] \in {"pend_take", "claim", "set_locked"},
                        lk[d] = l
                 PROVE  FALSE
      OBVIOUS
    <3>1. CASE pc[d] = "pend_take"
      BY <1>13, <3>1 DEF IInv, LockInv, TakeInv, PendPC
    <3>2. CASE pc[d] \in {"claim", "set_locked"}
      BY <1>13, <3>2, HeadUnique DEF HeadPC, QueuedPC
    <3> QED BY <3>1, <3>2
  <2>4. held'[c] = held[c] \cup {l} /\ \A d \in Ctx \ {c} : held'[d] = held[d]
    BY <1>h, <1>13 DEF Acquire
  <2>5. HeldInv'
    BY <1>13, <2>2, <2>4 DEF IInv, LockInv, HeldInv, MutualExclusion
  <2>6. PendInv'
    BY <1>13, <1>k DEF IInv, LockInv, PendInv, Special
  <2>7. TakeInv'
    BY <1>13, <1>k, <2>3 DEF IInv, LockInv, TakeInv, Special, PendSet, PendPC
  <2> QED BY <2>5, <2>6, <2>7 DEF LockInv
<1>14. ASSUME NEW c \in Ctx, NEW l \in Locks, lk[c] = l, Claim(c, l) PROVE LockInv'
  <2>0. pc[c] = "claim" /\ lk' = lk
    BY <1>14 DEF Claim
  <2>1. CASE word[l] = [locked |-> 0, pending |-> 0, tail |-> MyTail(c)]
    <3>1. /\ word' = [word EXCEPT ![l] = [locked |-> 1, pending |-> 0, tail |-> 0]]
          /\ Acquire(c, l) /\ pc' = [pc EXCEPT ![c] = "release"]
      BY <1>14, <2>1 DEF Claim, Goto
    <3>2. /\ word'[l].locked = 1 /\ word'[l].pending = word[l].pending
          /\ \A m \in Locks \ {l} : word'[m] = word[m]
      BY <1>w, <2>1, <3>1
    <3>3. pc'[c] \notin Special /\ \A d \in Ctx \ {c} : pc'[d] = pc[d]
      BY <1>p, <3>1 DEF Special, PendSet, PendPC
    <3> QED BY <1>14, <1>13, <2>0, <3>1, <3>2, <3>3
  <2>2. CASE word[l] # [locked |-> 0, pending |-> 0, tail |-> MyTail(c)]
    <3>1. word' = word /\ held' = held /\ pc' = [pc EXCEPT ![c] = "set_locked"]
      BY <1>14, <2>2 DEF Claim, Goto
    <3>2. pc'[c] = "set_locked" /\ \A d \in Ctx \ {c} : pc'[d] = pc[d]
      BY <1>p, <3>1
    <3>3. pc[c] \notin PendSet /\ pc'[c] \notin PendSet
      BY <2>0, <3>2 DEF PendSet, PendPC
    <3>4. HeldInv'
      BY <3>1 DEF IInv, LockInv, HeldInv, MutualExclusion
    <3>5. PendInv'
      BY <2>0, <3>1, <3>2, <3>3 DEF IInv, LockInv, PendInv
    <3>6. TakeInv'
      BY <2>0, <3>1, <3>2 DEF IInv, LockInv, TakeInv, PendPC
    <3> QED BY <3>4, <3>5, <3>6 DEF LockInv
  <2> QED BY <2>1, <2>2
<1>15. ASSUME NEW c \in Ctx, NEW l \in Locks, lk[c] = l, set_locked(c, l) PROVE LockInv'
  <2>1. /\ word' = [word EXCEPT ![l].locked = 1] /\ Acquire(c, l) /\ lk' = lk
        /\ pc[c] = "set_locked" /\ \E t \in {"wait_next", "pass"} : pc' = [pc EXCEPT ![c] = t]
    BY <1>15 DEF set_locked, Goto
  <2>2. /\ word'[l].locked = 1 /\ word'[l].pending = word[l].pending
        /\ \A m \in Locks \ {l} : word'[m] = word[m]
    BY <1>w, <2>1 DEF Word
  <2>3. pc'[c] \notin Special /\ \A d \in Ctx \ {c} : pc'[d] = pc[d]
    BY <1>p, <2>1 DEF Special, PendSet, PendPC
  <2> QED BY <1>15, <1>13, <2>1, <2>2, <2>3
<1> QED BY <1>1, <1>2, <1>3, <1>4, <1>5, <1>6, <1>7, <1>8, <1>9, <1>10, <1>11, <1>12, <1>14, <1>15
        DEF Next, queued_spin_lock_slowpath

-----------------------------------------------------------------------------
(* The queue *)

LEMMA SeqDomain ==
    ASSUME NEW s \in Seq(Ctx)
    PROVE  Len(s) \in Nat /\ DOMAIN s = 1 .. Len(s) /\ (s = <<>> <=> Len(s) = 0)
           /\ \A i \in 1 .. Len(s) : s[i] \in Ctx
OBVIOUS

LEMMA AppendFacts ==
    ASSUME NEW s \in Seq(Ctx), NEW c \in Ctx
    PROVE  /\ Append(s, c) # <<>> /\ Len(Append(s, c)) = Len(s) + 1
           /\ DOMAIN Append(s, c) = 1 .. Len(s) + 1
           /\ \A i \in 1 .. Len(s) : Append(s, c)[i] = s[i]
           /\ Append(s, c)[Len(s) + 1] = c
OBVIOUS

LEMMA TailFacts ==
    ASSUME NEW s \in Seq(Ctx), s # <<>>
    PROVE  /\ Len(Tail(s)) = Len(s) - 1 /\ DOMAIN Tail(s) = 1 .. Len(s) - 1
           /\ \A i \in 1 .. Len(s) - 1 : Tail(s)[i] = s[i + 1]
           /\ Head(s) = s[1]
OBVIOUS

(* Contexts QueueInv speaks about. *)
Tracked == QueuedPC \cup {"trylock", "xchg_tail"}

LEMMA QueueFrame ==
    ASSUME IInv, NEW c \in Ctx, queue' = queue, node' = node,
           \A m \in Locks : word'[m].tail = word[m].tail,
           \A d \in Ctx \ {c} : /\ pc'[d] = pc[d] /\ lk'[d] = lk[d] /\ idx'[d] = idx[d]
                                /\ prev'[d] = prev[d] /\ next'[d] = next[d],
           pc[c] \notin Tracked, pc'[c] \notin Tracked
    PROVE  QueueInv'
<1>1. \A m \in Locks : queue[m] \in Seq(Ctx)
  BY DEF IInv, TypeOK
<1>2. \A m \in Locks : DOMAIN queue[m] = 1 .. Len(queue[m]) /\ Len(queue[m]) \in Nat
                       /\ \A i \in DOMAIN queue[m] : queue[m][i] \in Ctx
  BY <1>1, SeqDomain
<1>3. \A m \in Locks : \A i \in DOMAIN queue[m] : queue[m][i] # c
  BY DEF IInv, QueueInv, MemberInv, Tracked
<1>4. \A d \in Ctx \ {c} : MyNode(d)' = MyNode(d) /\ MyTail(d)' = MyTail(d)
  BY DEF MyNode, MyTail
<1>5. MemberInv'
  BY <1>2, <1>3 DEF IInv, QueueInv, MemberInv, Tracked
<1>6. OrderInv'
  <2> SUFFICES ASSUME NEW m \in Locks, NEW i \in DOMAIN queue[m]
               PROVE  LET d == queue[m][i] IN
                      IF i = 1
                      THEN pc'[d] # "link" /\ (pc'[d] = "mcs_wait" => node'[MyNode(d)'].locked = 1)
                      ELSE /\ pc'[d] \in {"link", "mcs_wait"}
                           /\ node'[MyNode(d)'].locked = 0
                           /\ pc'[d] = "link" => prev'[d] = MyNode(queue[m][i - 1])'
    BY DEF OrderInv, OrderAt, MyNode
  <2>1. i # 1 => i - 1 \in DOMAIN queue[m]
    BY <1>2
  <2> QED BY <1>2, <1>3, <1>4, <2>1 DEF IInv, QueueInv, OrderInv, OrderAt
<1>7. LinkInv'
  <2>1. \A m \in Locks : (queue[m] = <<>> => word[m].tail = 0)'
    BY DEF IInv, QueueInv, LinkInv
  <2>2. \A m \in Locks : (queue[m] # <<>> => word[m].tail = MyTail(queue[m][Len(queue[m])]))'
    <3> SUFFICES ASSUME NEW m \in Locks, queue[m] # <<>>
                 PROVE  word[m].tail = MyTail(queue[m][Len(queue[m])])'
      OBVIOUS
    <3>1. Len(queue[m]) \in DOMAIN queue[m]
      BY <1>1, <1>2
    <3> QED BY <1>2, <1>3, <1>4, <3>1 DEF IInv, QueueInv, LinkInv
  <2>3. \A m \in Locks : \A i \in DOMAIN queue[m] :
           (node[MyNode(queue[m][i])].next =
              IF i < Len(queue[m]) /\ pc[queue[m][i + 1]] # "link"
              THEN MyNode(queue[m][i + 1]) ELSE NULL)'
    <3> SUFFICES ASSUME NEW m \in Locks, NEW i \in DOMAIN queue[m]
                 PROVE  (node[MyNode(queue[m][i])].next =
                            IF i < Len(queue[m]) /\ pc[queue[m][i + 1]] # "link"
                            THEN MyNode(queue[m][i + 1]) ELSE NULL)'
      OBVIOUS
    <3>1. i < Len(queue[m]) => i + 1 \in DOMAIN queue[m]
      BY <1>2
    <3> QED BY <1>2, <1>3, <1>4, <3>1 DEF IInv, QueueInv, LinkInv
  <2> QED BY <2>1, <2>2, <2>3 DEF LinkInv
<1>8. NextInv'
  BY <1>4 DEF IInv, QueueInv, NextInv, Tracked, QueuedPC
<1>9. FreshInv'
  BY <1>4 DEF IInv, QueueInv, FreshInv, Tracked
<1> QED BY <1>5, <1>6, <1>7, <1>8, <1>9 DEF QueueInv

(* Steps of the head that leave it in the queue. *)
LEMMA QueueMove ==
    ASSUME IInv, NEW c \in Ctx, NEW l \in Locks, lk[c] = l, queue' = queue, node' = node,
           \A m \in Locks : word'[m].tail = word[m].tail,
           lk' = lk, idx' = idx, prev' = prev,
           \A d \in Ctx \ {c} : pc'[d] = pc[d] /\ next'[d] = next[d],
           \/ pc[c] \in HeadPC
           \/ pc[c] = "mcs_wait" /\ node[MyNode(c)].locked = 1,
           pc'[c] \in HeadPC,
           pc'[c] \in {"head_wait", "claim", "set_locked"}
              => next'[c] \in {NULL, node[MyNode(c)].next},
           pc'[c] = "pass" => next'[c] # NULL /\ next'[c] = node[MyNode(c)].next
    PROVE  QueueInv'
<1>1. \A m \in Locks : queue[m] \in Seq(Ctx)
  BY DEF IInv, TypeOK
<1>2. \A m \in Locks : DOMAIN queue[m] = 1 .. Len(queue[m]) /\ Len(queue[m]) \in Nat
                       /\ \A i \in DOMAIN queue[m] : queue[m][i] \in Ctx
  BY <1>1, SeqDomain
<1>3. \A d \in Ctx : MyNode(d)' = MyNode(d) /\ MyTail(d)' = MyTail(d)
  BY DEF MyNode, MyTail
<1>4. pc[c] \in QueuedPC /\ pc'[c] \in QueuedPC /\ pc[c] # "link" /\ pc'[c] \notin {"link", "mcs_wait"}
  BY DEF HeadPC, QueuedPC
<1>5. \A m \in Locks : \A i \in DOMAIN queue[m] : queue[m][i] = c => i = 1
  BY DEF IInv, QueueInv, OrderInv, OrderAt, HeadPC
<1>6. MemberInv'
  BY <1>2, <1>4 DEF IInv, QueueInv, MemberInv
<1>7. OrderInv'
  <2> SUFFICES ASSUME NEW m \in Locks, NEW i \in DOMAIN queue[m]
               PROVE  LET d == queue[m][i] IN
                      IF i = 1
                      THEN pc'[d] # "link" /\ (pc'[d] = "mcs_wait" => node'[MyNode(d)'].locked = 1)
                      ELSE /\ pc'[d] \in {"link", "mcs_wait"}
                           /\ node'[MyNode(d)'].locked = 0
                           /\ pc'[d] = "link" => prev'[d] = MyNode(queue[m][i - 1])'
    BY DEF OrderInv, OrderAt, MyNode
  <2>1. i # 1 => i - 1 \in DOMAIN queue[m]
    BY <1>2
  <2>2. CASE queue[m][i] = c
    BY <1>3, <1>4, <1>5, <2>2
  <2>3. CASE queue[m][i] # c
    BY <1>2, <1>3, <2>1, <2>3 DEF IInv, QueueInv, OrderInv, OrderAt
  <2> QED BY <2>2, <2>3
<1>8. LinkInv'
  <2>1. \A m \in Locks : (queue[m] = <<>> => word[m].tail = 0)'
    BY DEF IInv, QueueInv, LinkInv
  <2>2. \A m \in Locks : (queue[m] # <<>> => word[m].tail = MyTail(queue[m][Len(queue[m])]))'
    <3> SUFFICES ASSUME NEW m \in Locks, queue[m] # <<>>
                 PROVE  word[m].tail = MyTail(queue[m][Len(queue[m])])'
      OBVIOUS
    <3>1. Len(queue[m]) \in DOMAIN queue[m]
      BY <1>1, <1>2
    <3> QED BY <1>2, <1>3, <3>1 DEF IInv, QueueInv, LinkInv
  <2>3. \A m \in Locks : \A i \in DOMAIN queue[m] :
           (node[MyNode(queue[m][i])].next =
              IF i < Len(queue[m]) /\ pc[queue[m][i + 1]] # "link"
              THEN MyNode(queue[m][i + 1]) ELSE NULL)'
    <3> SUFFICES ASSUME NEW m \in Locks, NEW i \in DOMAIN queue[m]
                 PROVE  (node[MyNode(queue[m][i])].next =
                            IF i < Len(queue[m]) /\ pc[queue[m][i + 1]] # "link"
                            THEN MyNode(queue[m][i + 1]) ELSE NULL)'
      OBVIOUS
    <3>1. i < Len(queue[m]) => i + 1 \in DOMAIN queue[m] /\ queue[m][i + 1] \in Ctx
      BY <1>2
    <3>2. i < Len(queue[m]) => (pc'[queue[m][i + 1]] # "link" <=> pc[queue[m][i + 1]] # "link")
      BY <1>4, <3>1
    <3> QED BY <1>2, <1>3, <3>1, <3>2 DEF IInv, QueueInv, LinkInv
  <2> QED BY <2>1, <2>2, <2>3 DEF LinkInv
<1>9. NextInv'
  BY <1>3 DEF IInv, QueueInv, NextInv
<1>10. FreshInv'
  BY <1>3, <1>4 DEF IInv, QueueInv, FreshInv, QueuedPC
<1> QED BY <1>6, <1>7, <1>8, <1>9, <1>10 DEF QueueInv

(* The node of a context is distinct from the nodes of the waiters of any queue. *)
LEMMA WaiterNodes ==
    ASSUME IInv, NEW m \in Locks, NEW i \in DOMAIN queue[m], NEW c \in Ctx,
           pc[c] \in NodePC, queue[m][i] # c
    PROVE  MyNode(queue[m][i]) # MyNode(c)
<1>1. queue[m] \in Seq(Ctx)
  BY DEF IInv, TypeOK
<1>2. queue[m][i] \in Ctx
  BY <1>1
<1>3. pc[queue[m][i]] \in NodePC
  BY DEF IInv, QueueInv, MemberInv, NodePC
<1> QED BY <1>2, <1>3, NodesApart DEF IInv

(* A context outside of a queue gets its node ready. *)
LEMMA QueueInit ==
    ASSUME IInv, NEW c \in Ctx, NEW l \in Locks, InitNode(c, l)
    PROVE  QueueInv'
<1>1. \A m \in Locks : queue[m] \in Seq(Ctx)
  BY DEF IInv, TypeOK
<1>2. \A m \in Locks : DOMAIN queue[m] = 1 .. Len(queue[m]) /\ Len(queue[m]) \in Nat
                       /\ \A i \in DOMAIN queue[m] : queue[m][i] \in Ctx
  BY <1>1, SeqDomain
<1>3. /\ node' = [node EXCEPT ![MyNode(c)] = [locked |-> 0, next |-> NULL]]
      /\ pc' = [pc EXCEPT ![c] = "trylock"] /\ pc[c] = "init_node"
      /\ word' = word /\ lk' = lk /\ idx' = idx /\ prev' = prev /\ next' = next /\ queue' = queue
  BY DEF InitNode, Goto
<1>4. /\ pc'[c] = "trylock" /\ pc[c] \in NodePC /\ pc[c] \notin QueuedPC
      /\ \A d \in Ctx \ {c} : pc'[d] = pc[d]
  <2>1. pc \in [Ctx -> PCs]
    BY DEF IInv, TypeOK
  <2> QED BY <1>3, <2>1 DEF NodePC, QueuedPC
<1>5. /\ node'[MyNode(c)] = [locked |-> 0, next |-> NULL]
      /\ \A a \in NodeAddr \ {MyNode(c)} : node'[a] = node[a]
  <2>1. node \in [NodeAddr -> [locked : 0 .. 1, next : NodeAddr \cup {NULL}]]
    BY DEF IInv, TypeOK
  <2> QED BY <1>3, <2>1, MyNodeType DEF IInv
<1>6. \A d \in Ctx : MyNode(d)' = MyNode(d) /\ MyTail(d)' = MyTail(d)
  BY <1>3 DEF MyNode, MyTail
<1>7. \A m \in Locks : \A i \in DOMAIN queue[m] :
         queue[m][i] # c /\ node'[MyNode(queue[m][i])] = node[MyNode(queue[m][i])]
  <2> SUFFICES ASSUME NEW m \in Locks, NEW i \in DOMAIN queue[m]
               PROVE  queue[m][i] # c /\ node'[MyNode(queue[m][i])] = node[MyNode(queue[m][i])]
    OBVIOUS
  <2>1. queue[m][i] # c
    BY <1>4 DEF IInv, QueueInv, MemberInv
  <2>2. MyNode(queue[m][i]) # MyNode(c) /\ MyNode(queue[m][i]) \in NodeAddr
    BY <1>2, <1>4, <2>1, WaiterNodes, MyNodeType DEF IInv
  <2> QED BY <1>5, <2>1, <2>2
<1>8. MemberInv'
  BY <1>2, <1>3, <1>4, <1>7 DEF IInv, QueueInv, MemberInv, QueuedPC
<1>9. OrderInv'
  <2> SUFFICES ASSUME NEW m \in Locks, NEW i \in DOMAIN queue[m]
               PROVE  LET d == queue[m][i] IN
                      IF i = 1
                      THEN pc'[d] # "link" /\ (pc'[d] = "mcs_wait" => node'[MyNode(d)'].locked = 1)
                      ELSE /\ pc'[d] \in {"link", "mcs_wait"}
                           /\ node'[MyNode(d)'].locked = 0
                           /\ pc'[d] = "link" => prev'[d] = MyNode(queue[m][i - 1])'
    BY <1>3 DEF OrderInv, OrderAt, MyNode
  <2>1. i # 1 => i - 1 \in DOMAIN queue[m]
    BY <1>2
  <2> QED BY <1>2, <1>3, <1>4, <1>6, <1>7, <2>1 DEF IInv, QueueInv, OrderInv, OrderAt
<1>10. LinkInv'
  <2>1. \A m \in Locks : (queue[m] = <<>> => word[m].tail = 0)'
    BY <1>3 DEF IInv, QueueInv, LinkInv
  <2>2. \A m \in Locks : (queue[m] # <<>> => word[m].tail = MyTail(queue[m][Len(queue[m])]))'
    <3> SUFFICES ASSUME NEW m \in Locks, queue[m] # <<>>
                 PROVE  word'[m].tail = MyTail(queue[m][Len(queue[m])])'
      BY <1>3
    <3>1. Len(queue[m]) \in DOMAIN queue[m]
      BY <1>1, <1>2
    <3> QED BY <1>2, <1>3, <1>6, <3>1 DEF IInv, QueueInv, LinkInv
  <2>3. \A m \in Locks : \A i \in DOMAIN queue[m] :
           (node[MyNode(queue[m][i])].next =
              IF i < Len(queue[m]) /\ pc[queue[m][i + 1]] # "link"
              THEN MyNode(queue[m][i + 1]) ELSE NULL)'
    <3> SUFFICES ASSUME NEW m \in Locks, NEW i \in DOMAIN queue[m]
                 PROVE  (node[MyNode(queue[m][i])].next =
                            IF i < Len(queue[m]) /\ pc[queue[m][i + 1]] # "link"
                            THEN MyNode(queue[m][i + 1]) ELSE NULL)'
      OBVIOUS
    <3>1. i < Len(queue[m]) => i + 1 \in DOMAIN queue[m]
      BY <1>2
    <3> QED BY <1>2, <1>3, <1>4, <1>6, <1>7, <3>1 DEF IInv, QueueInv, LinkInv
  <2> QED BY <1>3, <2>1, <2>2, <2>3 DEF LinkInv
<1>11. \A d \in Ctx \ {c} : pc[d] \in Tracked => node'[MyNode(d)] = node[MyNode(d)]
  <2> SUFFICES ASSUME NEW d \in Ctx \ {c}, pc[d] \in Tracked
               PROVE  node'[MyNode(d)] = node[MyNode(d)]
    OBVIOUS
  <2>1. MyNode(d) # MyNode(c) /\ MyNode(d) \in NodeAddr
    BY <1>4, NodesApart, MyNodeType DEF IInv, Tracked, NodePC
  <2> QED BY <1>5, <2>1
<1>12. NextInv'
  BY <1>3, <1>4, <1>6, <1>11 DEF IInv, QueueInv, NextInv, Tracked, QueuedPC
<1>13. FreshInv'
  BY <1>3, <1>4, <1>5, <1>6, <1>11 DEF IInv, QueueInv, FreshInv, Tracked
<1> QED BY <1>8, <1>9, <1>10, <1>12, <1>13 DEF QueueInv

(* A context joins the queue at its end. *)
LEMMA QueueAppend ==
    ASSUME IInv, NEW c \in Ctx, NEW l \in Locks, lk[c] = l, xchg_tail(c, l)
    PROVE  QueueInv'
<1> DEFINE n == Len(queue[l])
<1>1. /\ word' = [word EXCEPT ![l].tail = MyTail(c)] /\ pc[c] = "xchg_tail"
      /\ next' = [next EXCEPT ![c] = NULL] /\ queue' = [queue EXCEPT ![l] = Append(@, c)]
      /\ node' = node /\ lk' = lk /\ idx' = idx
  BY DEF xchg_tail
<1>p. pc \in [Ctx -> PCs] /\ next \in [Ctx -> NodeAddr \cup {NULL}] /\ prev \in [Ctx -> NodeAddr \cup {NULL}]
  BY DEF IInv, TypeOK
<1>q. \A m \in Locks : queue[m] \in Seq(Ctx)
  BY DEF IInv, TypeOK
<1>w. word \in [Locks -> Word]
  BY DEF IInv, TypeOK
<1>2. \A m \in Locks : DOMAIN queue[m] = 1 .. Len(queue[m]) /\ Len(queue[m]) \in Nat
                       /\ \A i \in DOMAIN queue[m] : queue[m][i] \in Ctx
  BY <1>q, SeqDomain
<1>3. /\ \A m \in Locks \ {l} : queue'[m] = queue[m]
      /\ queue'[l] = Append(queue[l], c)
  <2>1. queue \in [Locks -> Seq(Ctx)]
    BY DEF IInv, TypeOK
  <2> QED BY <1>1, <2>1
<1>4. /\ queue'[l] # <<>> /\ Len(queue'[l]) = n + 1 /\ DOMAIN queue'[l] = 1 .. n + 1
      /\ \A i \in 1 .. n : queue'[l][i] = queue[l][i]
      /\ queue'[l][n + 1] = c
  BY <1>q, <1>3, AppendFacts
<1>5. /\ \A d \in Ctx \ {c} : pc'[d] = pc[d] /\ next'[d] = next[d] /\ prev'[d] = prev[d]
      /\ next'[c] = NULL
      /\ word[l].tail = 0 => pc'[c] = "head_wait"
      /\ word[l].tail # 0 => pc'[c] = "link" /\ prev'[c] = decode_tail(word[l].tail)
  BY <1>1, <1>p DEF xchg_tail, Goto
<1>6. /\ \A m \in Locks \ {l} : word'[m].tail = word[m].tail
      /\ word'[l].tail = MyTail(c)
  BY <1>1, <1>w DEF Word
<1>7. \A d \in Ctx : MyNode(d)' = MyNode(d) /\ MyTail(d)' = MyTail(d)
  BY <1>1 DEF MyNode, MyTail
<1>8. \A m \in Locks : \A i \in DOMAIN queue[m] : queue[m][i] # c
  BY <1>1 DEF IInv, QueueInv, MemberInv, QueuedPC
<1>9. n = 0 <=> word[l].tail = 0
  <2>1. n = 0 => word[l].tail = 0
    BY <1>q DEF IInv, QueueInv, LinkInv
  <2>2. word[l].tail = 0 => n = 0
    <3> SUFFICES ASSUME word[l].tail = 0, n # 0 PROVE FALSE
      OBVIOUS
    <3>1. n \in DOMAIN queue[l] /\ queue[l][n] \in Ctx /\ queue[l] # <<>>
      BY <1>q, <1>2
    <3>2. lk[queue[l][n]] = l /\ pc[queue[l][n]] \in QueuedPC
      BY <3>1 DEF IInv, QueueInv, MemberInv
    <3> QED BY <3>1, <3>2, QueuedTail
  <2> QED BY <2>1, <2>2
<1>10. n # 0 => decode_tail(word[l].tail) = MyNode(queue[l][n])
  BY <1>9, TailNode DEF IInv, QueueInv
<1>11. pc'[c] \in QueuedPC /\ pc[c] \notin QueuedPC
  BY <1>1, <1>5 DEF QueuedPC
<1>12. MemberInv'
  <2>1. ASSUME NEW m \in Locks \ {l}
        PROVE  (/\ \A i \in DOMAIN queue[m] : lk[queue[m][i]] = m /\ pc[queue[m][i]] \in QueuedPC
                /\ \A i, j \in DOMAIN queue[m] : queue[m][i] = queue[m][j] => i = j
                /\ \A d \in Ctx : lk[d] = m /\ pc[d] \in QueuedPC
                                     => \E i \in DOMAIN queue[m] : queue[m][i] = d)'
    BY <1>1, <1>2, <1>3, <1>5, <1>8 DEF IInv, QueueInv, MemberInv
  <2>2. (\A i \in DOMAIN queue[l] : lk[queue[l][i]] = l /\ pc[queue[l][i]] \in QueuedPC)'
    <3> SUFFICES ASSUME NEW i \in 1 .. n + 1
                 PROVE  lk[queue'[l][i]] = l /\ pc'[queue'[l][i]] \in QueuedPC
      BY <1>1, <1>4
    <3>1. CASE i = n + 1
      BY <1>4, <1>11, <3>1
    <3>2. CASE i \in 1 .. n
      BY <1>2, <1>4, <1>5, <1>8, <3>2 DEF IInv, QueueInv, MemberInv
    <3> QED BY <1>2, <3>1, <3>2
  <2>3. (\A i, j \in DOMAIN queue[l] : queue[l][i] = queue[l][j] => i = j)'
    <3> SUFFICES ASSUME NEW i \in 1 .. n + 1, NEW j \in 1 .. n + 1, queue'[l][i] = queue'[l][j]
                 PROVE  i = j
      BY <1>4
    <3>1. CASE i \in 1 .. n /\ j \in 1 .. n
      BY <1>2, <1>4, <3>1 DEF IInv, QueueInv, MemberInv
    <3>2. CASE ~(i \in 1 .. n /\ j \in 1 .. n)
      BY <1>2, <1>4, <1>8, <3>2
    <3> QED BY <3>1, <3>2
  <2>4. (\A d \in Ctx : lk[d] = l /\ pc[d] \in QueuedPC => \E i \in DOMAIN queue[l] : queue[l][i] = d)'
    <3> SUFFICES ASSUME NEW d \in Ctx, lk[d] = l, pc'[d] \in QueuedPC
                 PROVE  \E i \in 1 .. n + 1 : queue'[l][i] = d
      BY <1>1, <1>4
    <3>1. CASE d = c
      BY <1>2, <1>4, <3>1
    <3>2. CASE d # c
      <4>1. PICK i \in DOMAIN queue[l] : queue[l][i] = d
        BY <1>5, <3>2 DEF IInv, QueueInv, MemberInv
      <4> QED BY <1>2, <1>4, <4>1
    <3> QED BY <3>1, <3>2
  <2> QED BY <2>1, <2>2, <2>3, <2>4 DEF MemberInv
<1>13. OrderInv'
  <2> SUFFICES ASSUME NEW m \in Locks, NEW i \in DOMAIN queue'[m] PROVE OrderAt(m, i)'
    BY DEF OrderInv
  <2>0. OrderAt(m, i)' <=>
          IF i = 1
          THEN /\ pc'[queue'[m][i]] # "link"
               /\ pc'[queue'[m][i]] = "mcs_wait" => node'[MyNode(queue'[m][i])].locked = 1
          ELSE /\ pc'[queue'[m][i]] \in {"link", "mcs_wait"}
               /\ node'[MyNode(queue'[m][i])].locked = 0
               /\ pc'[queue'[m][i]] = "link" => prev'[queue'[m][i]] = MyNode(queue'[m][i - 1])
    BY <1>1 DEF OrderAt, MyNode
  <2>1. CASE i \in DOMAIN queue[m]
    <3>1. queue'[m][i] = queue[m][i] /\ queue[m][i] \in Ctx \ {c}
      BY <1>2, <1>3, <1>4, <1>8, <2>1
    <3>2. i # 1 => i - 1 \in DOMAIN queue[m] /\ queue'[m][i - 1] = queue[m][i - 1]
      BY <1>2, <1>3, <1>4, <2>1
    <3>3. OrderAt(m, i)
      BY <2>1 DEF IInv, QueueInv, OrderInv
    <3> QED BY <1>1, <1>5, <2>0, <3>1, <3>2, <3>3 DEF OrderAt
  <2>2. CASE i \notin DOMAIN queue[m]
    <3>1. m = l /\ i = n + 1 /\ queue'[m][i] = c
      BY <1>2, <1>3, <1>4, <2>2
    <3>2. CASE n = 0
      BY <1>5, <1>9, <2>0, <3>1, <3>2
    <3>3. CASE n # 0
      <4>1. pc'[c] = "link" /\ prev'[c] = MyNode(queue[l][n])
        BY <1>5, <1>9, <1>10, <3>3
      <4>2. queue'[m][i - 1] = queue[l][n]
        BY <1>2, <1>4, <3>1, <3>3
      <4>3. node'[MyNode(c)].locked = 0
        BY <1>1 DEF IInv, QueueInv, FreshInv
      <4> QED BY <1>2, <2>0, <3>1, <3>3, <4>1, <4>2, <4>3
    <3> QED BY <3>2, <3>3
  <2> QED BY <2>1, <2>2
<1>14. LinkInv'
  <2>1. \A m \in Locks : (queue[m] = <<>> => word[m].tail = 0)'
    BY <1>3, <1>4, <1>6 DEF IInv, QueueInv, LinkInv
  <2>2. \A m \in Locks : (queue[m] # <<>> => word[m].tail = MyTail(queue[m][Len(queue[m])]))'
    <3> SUFFICES ASSUME NEW m \in Locks, queue'[m] # <<>>
                 PROVE  word'[m].tail = MyTail(queue[m][Len(queue[m])])'
      OBVIOUS
    <3>1. CASE m = l
      BY <1>1, <1>4, <1>6, <3>1 DEF MyTail
    <3>2. CASE m # l
      <4>1. Len(queue[m]) \in DOMAIN queue[m] /\ queue'[m] = queue[m]
        BY <1>q, <1>2, <1>3, <3>2
      <4> QED BY <1>2, <1>3, <1>6, <1>7, <3>2, <4>1 DEF IInv, QueueInv, LinkInv
    <3> QED BY <3>1, <3>2
  <2>3. \A m \in Locks : \A i \in DOMAIN queue'[m] :
           (node[MyNode(queue[m][i])].next =
              IF i < Len(queue[m]) /\ pc[queue[m][i + 1]] # "link"
              THEN MyNode(queue[m][i + 1]) ELSE NULL)'
    <3> SUFFICES ASSUME NEW m \in Locks, NEW i \in DOMAIN queue'[m]
                 PROVE  (node[MyNode(queue[m][i])].next =
                            IF i < Len(queue[m]) /\ pc[queue[m][i + 1]] # "link"
                            THEN MyNode(queue[m][i + 1]) ELSE NULL)'
      OBVIOUS
    <3>1. CASE m # l
      <4>1. queue'[m] = queue[m] /\ i \in DOMAIN queue[m] /\ queue[m][i] \in Ctx
            /\ (i < Len(queue[m]) => i + 1 \in DOMAIN queue[m] /\ queue[m][i + 1] \in Ctx \ {c})
        BY <1>2, <1>3, <1>8, <3>1
      <4>2. node[MyNode(queue[m][i])].next =
              IF i < Len(queue[m]) /\ pc[queue[m][i + 1]] # "link"
              THEN MyNode(queue[m][i + 1]) ELSE NULL
        BY <4>1 DEF IInv, QueueInv, LinkInv
      <4> QED BY <1>1, <1>5, <1>7, <4>1, <4>2
    <3>2. CASE m = l /\ i = n + 1
      <4>1. node[MyNode(c)].next = NULL
        BY <1>1 DEF IInv, QueueInv, FreshInv
      <4> QED BY <1>1, <1>2, <1>4, <1>7, <3>2, <4>1
    <3>3. CASE m = l /\ i = n
      <4>1. i # 0 /\ n # 0 /\ i \in DOMAIN queue[l] /\ queue[l][i] \in Ctx
        BY <1>2, <1>4, <3>3
      <4>2. pc'[c] = "link"
        BY <1>5, <1>9, <4>1
      <4>3. node[MyNode(queue[l][i])].next = NULL
        <5>1. node[MyNode(queue[l][i])].next =
                IF i < Len(queue[l]) /\ pc[queue[l][i + 1]] # "link"
                THEN MyNode(queue[l][i + 1]) ELSE NULL
          BY <4>1 DEF IInv, QueueInv, LinkInv
        <5>2. ~(i < Len(queue[l]))
          BY <1>2, <3>3
        <5> QED BY <5>1, <5>2
      <4> QED BY <1>1, <1>2, <1>4, <1>7, <3>3, <4>1, <4>2, <4>3
    <3>4. CASE m = l /\ i < n
      <4>1. i \in DOMAIN queue[l] /\ i + 1 \in DOMAIN queue[l] /\ queue[l][i] \in Ctx
            /\ queue[l][i + 1] \in Ctx \ {c} /\ i < n + 1
        BY <1>2, <1>4, <1>8, <3>4
      <4>2. queue'[l][i] = queue[l][i] /\ queue'[l][i + 1] = queue[l][i + 1]
        BY <1>2, <1>4, <4>1
      <4>3. node[MyNode(queue[l][i])].next =
              IF pc[queue[l][i + 1]] # "link" THEN MyNode(queue[l][i + 1]) ELSE NULL
        BY <3>4, <4>1 DEF IInv, QueueInv, LinkInv
      <4> QED BY <1>1, <1>4, <1>5, <1>7, <3>4, <4>1, <4>2, <4>3
    <3> QED BY <1>2, <1>4, <3>1, <3>2, <3>3, <3>4
  <2> QED BY <2>1, <2>2, <2>3 DEF LinkInv
<1>15. NextInv'
  BY <1>1, <1>5, <1>7 DEF IInv, QueueInv, NextInv
<1>16. FreshInv'
  BY <1>1, <1>5, <1>7 DEF IInv, QueueInv, FreshInv
<1> QED BY <1>12, <1>13, <1>14, <1>15, <1>16 DEF QueueInv

(* A waiter links itself behind its predecessor, which has not gone on. *)
LEMMA QueueLink ==
    ASSUME IInv, NEW c \in Ctx, NEW l \in Locks, lk[c] = l, Link(c, l)
    PROVE  QueueInv'
<1>1. /\ node' = [node EXCEPT ![prev[c]].next = MyNode(c)] /\ pc[c] = "link"
      /\ pc' = [pc EXCEPT ![c] = "mcs_wait"]
      /\ word' = word /\ lk' = lk /\ idx' = idx /\ prev' = prev /\ next' = next /\ queue' = queue
  BY DEF Link, Goto
<1>n. node \in [NodeAddr -> [locked : 0 .. 1, next : NodeAddr \cup {NULL}]]
  BY DEF IInv, TypeOK
<1>q. \A m \in Locks : queue[m] \in Seq(Ctx)
  BY DEF IInv, TypeOK
<1>2. \A m \in Locks : DOMAIN queue[m] = 1 .. Len(queue[m]) /\ Len(queue[m]) \in Nat
                       /\ \A i \in DOMAIN queue[m] : queue[m][i] \in Ctx
  BY <1>q, SeqDomain
<1>3. pc'[c] = "mcs_wait" /\ \A d \in Ctx \ {c} : pc'[d] = pc[d]
  <2>1. pc \in [Ctx -> PCs]
    BY DEF IInv, TypeOK
  <2> QED BY <1>1, <2>1
<1>4. PICK k \in DOMAIN queue[l] : queue[l][k] = c
  BY <1>1 DEF IInv, QueueInv, MemberInv, QueuedPC
<1>5. k # 1 /\ k - 1 \in DOMAIN queue[l] /\ k - 1 < Len(queue[l])
  <2>1. OrderAt(l, k)
    BY DEF IInv, QueueInv, OrderInv
  <2>2. k # 1
    BY <1>1, <1>4, <2>1 DEF OrderAt
  <2> QED BY <1>2, <2>2
<1> DEFINE u == queue[l][k - 1]
<1>6. u \in Ctx /\ prev[c] = MyNode(u) /\ pc[u] \in QueuedPC /\ pc[u] \in NodePC /\ lk[u] = l /\ u # c
  <2>1. OrderAt(l, k)
    BY DEF IInv, QueueInv, OrderInv
  <2>2. prev[c] = MyNode(u)
    BY <1>1, <1>4, <1>5, <2>1 DEF OrderAt
  <2>3. pc[u] \in QueuedPC /\ lk[u] = l
    BY <1>5 DEF IInv, QueueInv, MemberInv
  <2>4. u # c
    BY <1>2, <1>4, <1>5 DEF IInv, QueueInv, MemberInv
  <2> QED BY <1>2, <1>5, <2>2, <2>3, <2>4 DEF NodePC
<1>7. node[MyNode(u)].next = NULL
  <2>1. node[MyNode(queue[l][k - 1])].next =
           IF k - 1 < Len(queue[l]) /\ pc[queue[l][(k - 1) + 1]] # "link"
           THEN MyNode(queue[l][(k - 1) + 1]) ELSE NULL
    BY <1>5 DEF IInv, QueueInv, LinkInv
  <2>2. (k - 1) + 1 = k
    BY <1>2
  <2> QED BY <1>1, <1>4, <2>1, <2>2
<1>8. /\ \A a \in NodeAddr : node'[a].locked = node[a].locked
      /\ \A a \in NodeAddr \ {MyNode(u)} : node'[a] = node[a]
      /\ node'[MyNode(u)].next = MyNode(c)
  <2>1. MyNode(u) \in NodeAddr
    BY <1>6, MyNodeType DEF IInv
  <2> QED BY <1>1, <1>6, <1>n, <2>1
<1>9. \A d \in Ctx : MyNode(d)' = MyNode(d) /\ MyTail(d)' = MyTail(d) /\ MyNode(d) \in NodeAddr
  BY <1>1, MyNodeType DEF MyNode, MyTail, IInv
<1>10. \A d \in Ctx \ {u} : pc[d] \in NodePC => node'[MyNode(d)] = node[MyNode(d)]
  <2> SUFFICES ASSUME NEW d \in Ctx \ {u}, pc[d] \in NodePC
               PROVE  node'[MyNode(d)] = node[MyNode(d)]
    OBVIOUS
  <2>1. MyNode(d) # MyNode(u)
    BY <1>6, NodesApart DEF IInv
  <2> QED BY <1>8, <1>9, <2>1
<1>11. MemberInv'
  BY <1>1, <1>2, <1>3 DEF IInv, QueueInv, MemberInv, QueuedPC
<1>12. OrderInv'
  <2> SUFFICES ASSUME NEW m \in Locks, NEW i \in DOMAIN queue[m] PROVE OrderAt(m, i)'
    BY <1>1 DEF OrderInv
  <2>0. OrderAt(m, i)' <=>
          IF i = 1
          THEN /\ pc'[queue[m][i]] # "link"
               /\ pc'[queue[m][i]] = "mcs_wait" => node'[MyNode(queue[m][i])].locked = 1
          ELSE /\ pc'[queue[m][i]] \in {"link", "mcs_wait"}
               /\ node'[MyNode(queue[m][i])].locked = 0
               /\ pc'[queue[m][i]] = "link" => prev[queue[m][i]] = MyNode(queue[m][i - 1])
    BY <1>1 DEF OrderAt, MyNode
  <2>1. OrderAt(m, i)
    BY DEF IInv, QueueInv, OrderInv
  <2>2. node'[MyNode(queue[m][i])].locked = node[MyNode(queue[m][i])].locked
    BY <1>2, <1>8, <1>9
  <2>3. CASE queue[m][i] = c
    <3>1. i # 1
      BY <1>1, <2>1, <2>3 DEF OrderAt
    <3> QED BY <1>3, <2>0, <2>1, <2>2, <2>3, <3>1 DEF OrderAt
  <2>4. CASE queue[m][i] # c
    BY <1>2, <1>3, <2>0, <2>1, <2>2, <2>4 DEF OrderAt
  <2> QED BY <2>3, <2>4
<1>13. LinkInv'
  <2>1. \A m \in Locks : (queue[m] = <<>> => word[m].tail = 0)'
    BY <1>1 DEF IInv, QueueInv, LinkInv
  <2>2. \A m \in Locks : (queue[m] # <<>> => word[m].tail = MyTail(queue[m][Len(queue[m])]))'
    <3> SUFFICES ASSUME NEW m \in Locks, queue[m] # <<>>
                 PROVE  word'[m].tail = MyTail(queue[m][Len(queue[m])])'
      BY <1>1
    <3>1. Len(queue[m]) \in DOMAIN queue[m]
      BY <1>q, <1>2
    <3> QED BY <1>1, <1>2, <1>9, <3>1 DEF IInv, QueueInv, LinkInv
  <2>3. \A m \in Locks : \A i \in DOMAIN queue[m] :
           (node[MyNode(queue[m][i])].next =
              IF i < Len(queue[m]) /\ pc[queue[m][i + 1]] # "link"
              THEN MyNode(queue[m][i + 1]) ELSE NULL)'
    <3> SUFFICES ASSUME NEW m \in Locks, NEW i \in DOMAIN queue[m]
                 PROVE  node'[MyNode(queue[m][i])].next =
                            IF i < Len(queue[m]) /\ pc'[queue[m][i + 1]] # "link"
                            THEN MyNode(queue[m][i + 1]) ELSE NULL
      BY <1>1 DEF MyNode
    <3>0. node[MyNode(queue[m][i])].next =
              IF i < Len(queue[m]) /\ pc[queue[m][i + 1]] # "link"
              THEN MyNode(queue[m][i + 1]) ELSE NULL
      BY DEF IInv, QueueInv, LinkInv
    <3>1. CASE queue[m][i] = u
      <4>1. m = l /\ i = k - 1
        <5>1. lk[queue[m][i]] = m
          BY DEF IInv, QueueInv, MemberInv
        <5>2. m = l
          BY <1>6, <3>1, <5>1
        <5> QED BY <1>5, <3>1, <5>2 DEF IInv, QueueInv, MemberInv
      <4>2. i < Len(queue[m]) /\ queue[m][i + 1] = c
        BY <1>2, <1>4, <1>5, <4>1
      <4> QED BY <1>3, <1>8, <3>1, <4>2
    <3>2. CASE queue[m][i] # u
      <4>1. node'[MyNode(queue[m][i])] = node[MyNode(queue[m][i])]
        <5>1. pc[queue[m][i]] \in NodePC
          BY DEF IInv, QueueInv, MemberInv, NodePC
        <5> QED BY <1>2, <1>10, <3>2, <5>1
      <4>2. i < Len(queue[m]) => i + 1 \in DOMAIN queue[m] /\ queue[m][i + 1] \in Ctx /\ queue[m][i + 1] # c
        <5> SUFFICES ASSUME i < Len(queue[m])
                     PROVE  i + 1 \in DOMAIN queue[m] /\ queue[m][i + 1] \in Ctx /\ queue[m][i + 1] # c
          OBVIOUS
        <5>1. i + 1 \in DOMAIN queue[m] /\ queue[m][i + 1] \in Ctx
          BY <1>2
        <5>2. ASSUME queue[m][i + 1] = c PROVE FALSE
          <6>1. lk[queue[m][i + 1]] = m
            BY <5>1 DEF IInv, QueueInv, MemberInv
          <6>2. m = l
            BY <5>2, <6>1
          <6>3. i + 1 = k
            BY <1>4, <5>1, <5>2, <6>2 DEF IInv, QueueInv, MemberInv
          <6>4. i = k - 1
            BY <1>2, <6>3
          <6> QED BY <3>2, <6>2, <6>4
        <5> QED BY <5>1, <5>2
      <4> QED BY <1>3, <3>0, <4>1, <4>2
    <3> QED BY <3>1, <3>2
  <2> QED BY <1>1, <2>1, <2>2, <2>3 DEF LinkInv
<1>14. NextInv'
  <2> SUFFICES ASSUME NEW d \in Ctx
               PROVE  /\ pc'[d] \in {"head_wait", "claim", "set_locked"}
                             => next[d] \in {NULL, node'[MyNode(d)].next}
                      /\ pc'[d] = "pass" => next[d] # NULL /\ next[d] = node'[MyNode(d)].next
    BY <1>1, <1>9 DEF NextInv
  <2>0. /\ pc[d] \in {"head_wait", "claim", "set_locked"} => next[d] \in {NULL, node[MyNode(d)].next}
        /\ pc[d] = "pass" => next[d] # NULL /\ next[d] = node[MyNode(d)].next
    BY DEF IInv, QueueInv, NextInv
  <2>1. CASE d = u
    BY <1>3, <1>6, <1>7, <2>0, <2>1
  <2>2. CASE d = c
    BY <1>3, <2>2
  <2>3. CASE d # u /\ d # c /\ pc[d] \in {"head_wait", "claim", "set_locked", "pass"}
    BY <1>3, <1>10, <2>0, <2>3 DEF NodePC, QueuedPC
  <2>4. CASE d # u /\ d # c /\ pc[d] \notin {"head_wait", "claim", "set_locked", "pass"}
    BY <1>3, <2>4
  <2> QED BY <2>1, <2>2, <2>3, <2>4
<1>15. FreshInv'
  <2> SUFFICES ASSUME NEW d \in Ctx, pc'[d] \in {"trylock", "xchg_tail"}
               PROVE  node'[MyNode(d)] = [locked |-> 0, next |-> NULL]
    BY <1>9 DEF FreshInv
  <2>1. d # c /\ pc[d] \in {"trylock", "xchg_tail"} /\ d # u /\ pc[d] \in NodePC
    BY <1>3, <1>6 DEF NodePC, QueuedPC
  <2> QED BY <1>10, <2>1 DEF IInv, QueueInv, FreshInv
<1> QED BY <1>11, <1>12, <1>13, <1>14, <1>15 DEF QueueInv

(* The head leaves: what the queues and their members are then. *)
LEMMA HeadLeaves ==
    ASSUME IInv, NEW c \in Ctx, NEW l \in Locks, lk[c] = l, pc[c] \in HeadPC, Dequeue(c, l)
    PROVE  /\ \A m \in Locks \ {l} : queue'[m] = queue[m]
           /\ queue[l] # <<>> /\ queue[l] \in Seq(Ctx) /\ queue[l][1] = c
           /\ Len(queue'[l]) = Len(queue[l]) - 1 /\ DOMAIN queue'[l] = 1 .. Len(queue[l]) - 1
           /\ \A i \in 1 .. Len(queue[l]) - 1 : queue'[l][i] = queue[l][i + 1]
           /\ queue'[l] = Tail(queue[l])
           /\ \A m \in Locks : \A i \in DOMAIN queue'[m] : queue'[m][i] \in Ctx \ {c}
<1>0. queue \in [Locks -> Seq(Ctx)]
  BY DEF IInv, TypeOK
<1>1. queue[l] # <<>> /\ queue[l][1] = c /\ queue[l] \in Seq(Ctx) /\ 1 \in DOMAIN queue[l]
  BY <1>0, HeadFirst
<1>2. Head(queue[l]) = c
  BY <1>1, TailFacts
<1>3. queue' = [queue EXCEPT ![l] = Tail(queue[l])]
  BY <1>1, <1>2 DEF Dequeue
<1>4. queue'[l] = Tail(queue[l]) /\ \A m \in Locks \ {l} : queue'[m] = queue[m]
  BY <1>0, <1>3
<1>5. /\ Len(queue'[l]) = Len(queue[l]) - 1 /\ DOMAIN queue'[l] = 1 .. Len(queue[l]) - 1
      /\ \A i \in 1 .. Len(queue[l]) - 1 : queue'[l][i] = queue[l][i + 1]
  BY <1>1, <1>4, TailFacts
<1>6. Len(queue[l]) \in Nat /\ DOMAIN queue[l] = 1 .. Len(queue[l])
      /\ \A i \in DOMAIN queue[l] : queue[l][i] \in Ctx
  BY <1>1, SeqDomain
<1>7. ASSUME NEW i \in DOMAIN queue'[l] PROVE queue'[l][i] \in Ctx \ {c}
  <2>1. i + 1 \in DOMAIN queue[l] /\ i + 1 # 1 /\ queue'[l][i] = queue[l][i + 1]
    BY <1>5, <1>6
  <2> QED BY <1>1, <1>6, <2>1 DEF IInv, QueueInv, MemberInv
<1>8. ASSUME NEW m \in Locks \ {l}, NEW i \in DOMAIN queue'[m] PROVE queue'[m][i] \in Ctx \ {c}
  <2>1. queue[m] \in Seq(Ctx) /\ i \in DOMAIN queue[m] /\ queue'[m] = queue[m]
    BY <1>0, <1>4
  <2>2. queue[m][i] \in Ctx
    BY <2>1, SeqDomain
  <2>3. lk[queue[m][i]] = m
    BY <2>1 DEF IInv, QueueInv, MemberInv
  <2> QED BY <2>1, <2>2, <2>3
<1> QED BY <1>1, <1>4, <1>5, <1>7, <1>8

LEMMA MemberLeaves ==
    ASSUME IInv, NEW c \in Ctx, NEW l \in Locks, lk[c] = l, pc[c] \in HeadPC, Dequeue(c, l),
           lk' = lk, pc'[c] = "release", \A d \in Ctx \ {c} : pc'[d] = pc[d]
    PROVE  MemberInv'
<1> DEFINE n == Len(queue[l])
<1>1. /\ \A m \in Locks \ {l} : queue'[m] = queue[m]
      /\ queue[l] \in Seq(Ctx) /\ queue[l][1] = c
      /\ DOMAIN queue'[l] = 1 .. n - 1
      /\ \A i \in 1 .. n - 1 : queue'[l][i] = queue[l][i + 1]
      /\ \A m \in Locks : \A i \in DOMAIN queue'[m] : queue'[m][i] \in Ctx \ {c}
  BY HeadLeaves
<1>2. n \in Nat /\ DOMAIN queue[l] = 1 .. n
  BY <1>1, SeqDomain
<1>3. pc'[c] \notin QueuedPC
  BY DEF QueuedPC
<1>4. ASSUME NEW m \in Locks \ {l}
      PROVE  (/\ \A i \in DOMAIN queue[m] : lk[queue[m][i]] = m /\ pc[queue[m][i]] \in QueuedPC
              /\ \A i, j \in DOMAIN queue[m] : queue[m][i] = queue[m][j] => i = j
              /\ \A d \in Ctx : lk[d] = m /\ pc[d] \in QueuedPC
                                   => \E i \in DOMAIN queue[m] : queue[m][i] = d)'
  BY <1>1, <1>3 DEF IInv, QueueInv, MemberInv
<1>5. ASSUME NEW i \in 1 .. n - 1
      PROVE  lk[queue'[l][i]] = l /\ pc'[queue'[l][i]] \in QueuedPC
  <2>1. i + 1 \in DOMAIN queue[l] /\ queue'[l][i] = queue[l][i + 1] /\ queue'[l][i] \in Ctx \ {c}
    BY <1>1, <1>2
  <2> QED BY <2>1 DEF IInv, QueueInv, MemberInv
<1>6. ASSUME NEW i \in 1 .. n - 1, NEW j \in 1 .. n - 1, queue'[l][i] = queue'[l][j]
      PROVE  i = j
  <2>1. i + 1 \in DOMAIN queue[l] /\ j + 1 \in DOMAIN queue[l] /\ queue[l][i + 1] = queue[l][j + 1]
    BY <1>1, <1>2, <1>6
  <2>2. i + 1 = j + 1
    BY <2>1 DEF IInv, QueueInv, MemberInv
  <2> QED BY <1>2, <2>2
<1>7. ASSUME NEW d \in Ctx, lk[d] = l, pc'[d] \in QueuedPC
      PROVE  \E i \in 1 .. n - 1 : queue'[l][i] = d
  <2>1. d # c /\ pc[d] \in QueuedPC
    BY <1>3, <1>7
  <2>2. PICK i \in DOMAIN queue[l] : queue[l][i] = d
    BY <1>7, <2>1 DEF IInv, QueueInv, MemberInv
  <2>3. i # 1
    BY <1>1, <2>1, <2>2
  <2>4. i - 1 \in 1 .. n - 1 /\ queue'[l][i - 1] = queue[l][(i - 1) + 1] /\ (i - 1) + 1 = i
    BY <1>1, <1>2, <2>3
  <2> QED BY <2>2, <2>4
<1>8. (/\ \A i \in DOMAIN queue[l] : lk[queue[l][i]] = l /\ pc[queue[l][i]] \in QueuedPC
       /\ \A i, j \in DOMAIN queue[l] : queue[l][i] = queue[l][j] => i = j
       /\ \A d \in Ctx : lk[d] = l /\ pc[d] \in QueuedPC
                            => \E i \in DOMAIN queue[l] : queue[l][i] = d)'
  BY <1>1, <1>5, <1>6, <1>7
<1> QED BY <1>4, <1>8 DEF MemberInv

(* The only waiter claims the lock and clears the tail. *)
LEMMA QueueClaim ==
    ASSUME IInv, NEW c \in Ctx, NEW l \in Locks, lk[c] = l, Claim(c, l),
           word[l] = [locked |-> 0, pending |-> 0, tail |-> MyTail(c)]
    PROVE  QueueInv'
<1> DEFINE n == Len(queue[l])
<1>1. /\ word' = [word EXCEPT ![l] = [locked |-> 1, pending |-> 0, tail |-> 0]]
      /\ Dequeue(c, l) /\ pc' = [pc EXCEPT ![c] = "release"] /\ pc[c] = "claim"
      /\ node' = node /\ lk' = lk /\ idx' = idx /\ prev' = prev /\ next' = next
  BY DEF Claim, Goto
<1>2. pc'[c] = "release" /\ \A d \in Ctx \ {c} : pc'[d] = pc[d]
  <2>1. pc \in [Ctx -> PCs]
    BY DEF IInv, TypeOK
  <2> QED BY <1>1, <2>1
<1>3. pc[c] \in HeadPC /\ pc[c] \in NodePC /\ pc[c] \in QueuedPC
  BY <1>1 DEF HeadPC, QueuedPC, NodePC
<1>4. /\ \A m \in Locks \ {l} : queue'[m] = queue[m]
      /\ queue[l] # <<>> /\ queue[l] \in Seq(Ctx) /\ queue[l][1] = c
      /\ Len(queue'[l]) = n - 1 /\ DOMAIN queue'[l] = 1 .. n - 1
      /\ \A m \in Locks : \A i \in DOMAIN queue'[m] : queue'[m][i] \in Ctx \ {c}
      /\ queue'[l] = Tail(queue[l])
  BY <1>1, <1>3, HeadLeaves
<1>5. n \in Nat \ {0} /\ DOMAIN queue[l] = 1 .. n /\ queue[l][n] \in Ctx
  BY <1>4, SeqDomain
<1>6. queue[l][n] = c
  <2>1. MyTail(queue[l][n]) = MyTail(c)
    BY <1>4 DEF IInv, QueueInv, LinkInv
  <2>2. MyNode(queue[l][n]) = MyNode(c)
    <3>1. idx \in [Ctx -> 0 .. MAX_NODES - 1]
      BY DEF IInv, TypeOK
    <3>2. /\ smp_processor_id[c] \in Cpus /\ smp_processor_id[queue[l][n]] \in Cpus
          /\ idx[c] \in 0 .. MAX_NODES - 1 /\ idx[queue[l][n]] \in 0 .. MAX_NODES - 1
      BY <1>5, <3>1, CtxAssumption
    <3> QED BY <2>1, <3>2, TailCode DEF MyTail, MyNode
  <2> QED BY <1>3, <1>5, <2>2, WaiterNodes
<1>7. n = 1
  <2>1. 1 \in DOMAIN queue[l] /\ n \in DOMAIN queue[l] /\ queue[l][1] = queue[l][n]
    BY <1>4, <1>5, <1>6
  <2> QED BY <2>1 DEF IInv, QueueInv, MemberInv
<1>8. queue'[l] = <<>>
  BY <1>4, <1>7
<1>9. word'[l].tail = 0 /\ \A m \in Locks \ {l} : word'[m] = word[m]
  <2>1. word \in [Locks -> Word]
    BY DEF IInv, TypeOK
  <2> QED BY <1>1, <2>1
<1>10. MemberInv'
  BY <1>1, <1>2, <1>3, MemberLeaves
<1>11. OrderInv'
  <2> SUFFICES ASSUME NEW m \in Locks, NEW i \in DOMAIN queue'[m] PROVE OrderAt(m, i)'
    BY DEF OrderInv
  <2>1. m # l /\ queue'[m] = queue[m]
    BY <1>4, <1>7, <1>8
  <2>2. OrderAt(m, i)
    BY <2>1 DEF IInv, QueueInv, OrderInv
  <2>3. queue[m][i] \in Ctx \ {c}
    BY <1>4, <2>1
  <2> QED BY <1>1, <1>2, <2>1, <2>2, <2>3 DEF OrderAt, MyNode
<1>12. LinkInv'
  <2> SUFFICES ASSUME NEW m \in Locks \ {l}
               PROVE (/\ queue[m] = <<>> => word[m].tail = 0
                      /\ queue[m] # <<>> => word[m].tail = MyTail(queue[m][Len(queue[m])])
                      /\ \A i \in DOMAIN queue[m] :
                            node[MyNode(queue[m][i])].next =
                               IF i < Len(queue[m]) /\ pc[queue[m][i + 1]] # "link"
                               THEN MyNode(queue[m][i + 1]) ELSE NULL)'
    BY <1>4, <1>7, <1>8, <1>9 DEF LinkInv
  <2>1. queue'[m] = queue[m] /\ word'[m] = word[m]
    BY <1>4, <1>9
  <2>2. (queue[m] = <<>> => word[m].tail = 0)'
    BY <2>1 DEF IInv, QueueInv, LinkInv
  <2>3. (queue[m] # <<>> => word[m].tail = MyTail(queue[m][Len(queue[m])]))'
    BY <1>1, <2>1 DEF IInv, QueueInv, LinkInv, MyTail
  <2>4. ASSUME NEW i \in DOMAIN queue[m]
        PROVE  (node[MyNode(queue[m][i])].next =
                  IF i < Len(queue[m]) /\ pc[queue[m][i + 1]] # "link"
                  THEN MyNode(queue[m][i + 1]) ELSE NULL)'
    <3>1. node[MyNode(queue[m][i])].next =
                  IF i < Len(queue[m]) /\ pc[queue[m][i + 1]] # "link"
                  THEN MyNode(queue[m][i + 1]) ELSE NULL
      BY DEF IInv, QueueInv, LinkInv
    <3>2. i < Len(queue[m]) => queue[m][i + 1] \in Ctx \ {c}
      <4>1. queue[m] \in Seq(Ctx)
        BY DEF IInv, TypeOK
      <4>2. i < Len(queue[m]) => i + 1 \in DOMAIN queue[m]
        BY <4>1, SeqDomain
      <4> QED BY <1>4, <2>1, <4>2
    <3> QED BY <1>1, <1>2, <2>1, <3>1, <3>2 DEF MyNode
  <2> QED BY <2>1, <2>2, <2>3, <2>4
<1>13. NextInv'
  BY <1>1, <1>2 DEF IInv, QueueInv, NextInv, MyNode
<1>14. FreshInv'
  BY <1>1, <1>2 DEF IInv, QueueInv, FreshInv, MyNode
<1> QED BY <1>10, <1>11, <1>12, <1>13, <1>14 DEF QueueInv

(* The owner tells the next waiter, which has linked itself, to go on. *)
LEMMA QueuePass ==
    ASSUME IInv, NEW c \in Ctx, NEW l \in Locks, lk[c] = l, Pass(c, l)
    PROVE  QueueInv'
<1> DEFINE n == Len(queue[l])
           u == queue[l][2]
<1>1. /\ node' = [node EXCEPT ![next[c]].locked = 1]
      /\ Dequeue(c, l) /\ pc' = [pc EXCEPT ![c] = "release"] /\ pc[c] = "pass"
      /\ word' = word /\ lk' = lk /\ idx' = idx /\ prev' = prev /\ next' = next
  BY DEF Pass, Goto
<1>2. pc'[c] = "release" /\ \A d \in Ctx \ {c} : pc'[d] = pc[d]
  <2>1. pc \in [Ctx -> PCs]
    BY DEF IInv, TypeOK
  <2> QED BY <1>1, <2>1
<1>3. pc[c] \in HeadPC /\ pc[c] \in NodePC /\ pc[c] \in QueuedPC
  BY <1>1 DEF HeadPC, QueuedPC, NodePC
<1>4. /\ \A m \in Locks \ {l} : queue'[m] = queue[m]
      /\ queue[l] # <<>> /\ queue[l] \in Seq(Ctx) /\ queue[l][1] = c
      /\ Len(queue'[l]) = n - 1 /\ DOMAIN queue'[l] = 1 .. n - 1
      /\ \A i \in 1 .. n - 1 : queue'[l][i] = queue[l][i + 1]
      /\ \A m \in Locks : \A i \in DOMAIN queue'[m] : queue'[m][i] \in Ctx \ {c}
  BY <1>1, <1>3, HeadLeaves
<1>5. n \in Nat \ {0} /\ DOMAIN queue[l] = 1 .. n /\ \A i \in 1 .. n : queue[l][i] \in Ctx
  BY <1>4, SeqDomain
<1>6. n > 1 /\ pc[u] # "link" /\ next[c] = MyNode(u)
  <2>1. next[c] # NULL /\ next[c] = node[MyNode(c)].next
    BY <1>1 DEF IInv, QueueInv, NextInv
  <2>2. 1 \in DOMAIN queue[l] /\ 1 + 1 = 2
    BY <1>5
  <2>3. node[MyNode(queue[l][1])].next =
           IF 1 < Len(queue[l]) /\ pc[queue[l][1 + 1]] # "link"
           THEN MyNode(queue[l][1 + 1]) ELSE NULL
    BY <2>2 DEF IInv, QueueInv, LinkInv
  <2> QED BY <1>4, <1>5, <2>1, <2>2, <2>3
<1>7. /\ u \in Ctx /\ u # c /\ 2 \in DOMAIN queue[l] /\ pc[u] = "mcs_wait" /\ pc[u] \in NodePC
      /\ lk[u] = l
  <2>1. 2 \in DOMAIN queue[l] /\ u \in Ctx /\ 1 \in DOMAIN queue[l]
    BY <1>5, <1>6
  <2>2. OrderAt(l, 2)
    BY <2>1 DEF IInv, QueueInv, OrderInv
  <2>3. pc[u] = "mcs_wait"
    BY <1>6, <2>2 DEF OrderAt
  <2>4. lk[u] = l
    BY <2>1 DEF IInv, QueueInv, MemberInv
  <2> QED BY <1>1, <2>1, <2>3, <2>4 DEF NodePC, QueuedPC
<1>8. \A d \in Ctx : MyNode(d)' = MyNode(d) /\ MyTail(d)' = MyTail(d) /\ MyNode(d) \in NodeAddr
  BY <1>1, MyNodeType DEF MyNode, MyTail, IInv
<1>9. /\ \A a \in NodeAddr : node'[a].next = node[a].next
      /\ \A a \in NodeAddr \ {MyNode(u)} : node'[a] = node[a]
      /\ node'[MyNode(u)].locked = 1
  <2>1. node \in [NodeAddr -> [locked : 0 .. 1, next : NodeAddr \cup {NULL}]]
    BY DEF IInv, TypeOK
  <2> QED BY <1>1, <1>6, <1>7, <1>8, <2>1
<1>10. \A d \in Ctx \ {u} : pc[d] \in NodePC => node'[MyNode(d)] = node[MyNode(d)]
  <2> SUFFICES ASSUME NEW d \in Ctx \ {u}, pc[d] \in NodePC
               PROVE  node'[MyNode(d)] = node[MyNode(d)]
    OBVIOUS
  <2>1. MyNode(d) # MyNode(u)
    BY <1>7, NodesApart DEF IInv
  <2> QED BY <1>8, <1>9, <2>1
<1>11. MemberInv'
  BY <1>1, <1>2, <1>3, MemberLeaves
<1>12. OrderInv'
  <2> SUFFICES ASSUME NEW m \in Locks, NEW i \in DOMAIN queue'[m] PROVE OrderAt(m, i)'
    BY DEF OrderInv
  <2>0. OrderAt(m, i)' <=>
          IF i = 1
          THEN /\ pc'[queue'[m][i]] # "link"
               /\ pc'[queue'[m][i]] = "mcs_wait" => node'[MyNode(queue'[m][i])].locked = 1
          ELSE /\ pc'[queue'[m][i]] \in {"link", "mcs_wait"}
               /\ node'[MyNode(queue'[m][i])].locked = 0
               /\ pc'[queue'[m][i]] = "link" => prev[queue'[m][i]] = MyNode(queue'[m][i - 1])
    BY <1>1 DEF OrderAt, MyNode
  <2>1. CASE m # l
    <3>1. queue'[m] = queue[m] /\ i \in DOMAIN queue[m] /\ queue[m][i] \in Ctx \ {c}
      BY <1>4, <2>1
    <3>2. OrderAt(m, i) /\ lk[queue[m][i]] = m /\ pc[queue[m][i]] \in NodePC
      BY <3>1 DEF IInv, QueueInv, OrderInv, MemberInv, NodePC
    <3>3. node'[MyNode(queue[m][i])] = node[MyNode(queue[m][i])]
      BY <1>7, <1>10, <2>1, <3>1, <3>2
    <3> QED BY <1>2, <2>0, <3>1, <3>2, <3>3 DEF OrderAt
  <2>2. CASE m = l /\ i = 1
    <3>1. queue'[l][1] = u
      BY <1>4, <1>5, <1>6
    <3> QED BY <1>2, <1>7, <1>9, <2>0, <2>2, <3>1
  <2>3. CASE m = l /\ i # 1
    <3>0. i \in 1 .. n - 1
      BY <1>4, <2>3
    <3>a. /\ i + 1 \in 1 .. n /\ i + 1 # 1 /\ i + 1 # 2
          /\ i - 1 \in 1 .. n - 1 /\ (i - 1) + 1 = (i + 1) - 1
      BY <1>5, <2>3, <3>0
    <3>1. /\ i + 1 \in DOMAIN queue[l] /\ queue'[l][i] = queue[l][i + 1] /\ i + 1 # 1 /\ i + 1 # 2
          /\ i - 1 \in 1 .. n - 1 /\ queue'[l][i - 1] = queue[l][(i + 1) - 1]
      BY <1>4, <1>5, <3>0, <3>a
    <3>2. OrderAt(l, i + 1) /\ pc[queue[l][i + 1]] \in NodePC
      BY <3>1 DEF IInv, QueueInv, OrderInv, MemberInv, NodePC
    <3>3. queue[l][i + 1] # u
      BY <1>7, <3>1 DEF IInv, QueueInv, MemberInv
    <3>4. node'[MyNode(queue[l][i + 1])] = node[MyNode(queue[l][i + 1])]
      BY <1>5, <1>10, <3>1, <3>2, <3>3
    <3>5. queue'[l][i] \in Ctx \ {c}
      BY <1>4, <2>3
    <3> QED BY <1>2, <2>0, <2>3, <3>1, <3>2, <3>4, <3>5 DEF OrderAt
  <2> QED BY <2>1, <2>2, <2>3
<1>13. LinkInv'
  <2>1. ASSUME NEW m \in Locks PROVE (queue[m] = <<>> => word[m].tail = 0)'
    <3>1. queue'[l] # <<>>
      BY <1>4, <1>5, <1>6
    <3> QED BY <1>1, <1>4, <3>1 DEF IInv, QueueInv, LinkInv
  <2>2. ASSUME NEW m \in Locks, queue'[m] # <<>>
        PROVE  word'[m].tail = MyTail(queue'[m][Len(queue'[m])])
    <3>1. CASE m # l
      BY <1>1, <1>4, <2>2, <3>1 DEF IInv, QueueInv, LinkInv
    <3>2. CASE m = l
      <4>1. queue'[l][n - 1] = queue[l][n]
        BY <1>4, <1>5, <1>6
      <4> QED BY <1>1, <1>4, <3>2, <4>1 DEF IInv, QueueInv, LinkInv
    <3> QED BY <3>1, <3>2
  <2>3. ASSUME NEW m \in Locks, NEW i \in DOMAIN queue'[m]
        PROVE  node'[MyNode(queue'[m][i])].next =
                  IF i < Len(queue'[m]) /\ pc'[queue'[m][i + 1]] # "link"
                  THEN MyNode(queue'[m][i + 1]) ELSE NULL
    <3>0. node'[MyNode(queue'[m][i])].next = node[MyNode(queue'[m][i])].next
      BY <1>4, <1>8, <1>9
    <3>1. CASE m # l
      <4>1. queue'[m] = queue[m] /\ i \in DOMAIN queue[m]
        BY <1>4, <3>1
      <4>2. node[MyNode(queue[m][i])].next =
                  IF i < Len(queue[m]) /\ pc[queue[m][i + 1]] # "link"
                  THEN MyNode(queue[m][i + 1]) ELSE NULL
        BY <4>1 DEF IInv, QueueInv, LinkInv
      <4>3. i < Len(queue[m]) => queue[m][i + 1] \in Ctx \ {c}
        <5>1. queue[m] \in Seq(Ctx)
          BY DEF IInv, TypeOK
        <5>2. i < Len(queue[m]) => i + 1 \in DOMAIN queue[m]
          BY <4>1, <5>1, SeqDomain
        <5> QED BY <1>4, <4>1, <5>2
      <4> QED BY <1>2, <3>0, <4>1, <4>2, <4>3
    <3>2. CASE m = l
      <4>0. i \in 1 .. n - 1
        BY <1>4, <3>2
      <4>a. i + 1 \in 1 .. n /\ (i < n - 1 <=> i + 1 < n) /\ (i < n - 1 => i + 1 \in 1 .. n - 1)
        BY <1>5, <4>0
      <4>1. i + 1 \in DOMAIN queue[l] /\ queue'[l][i] = queue[l][i + 1]
            /\ (i < n - 1 <=> i + 1 < n)
        BY <1>4, <1>5, <4>0, <4>a
      <4>2. node[MyNode(queue[l][i + 1])].next =
                  IF i + 1 < Len(queue[l]) /\ pc[queue[l][(i + 1) + 1]] # "link"
                  THEN MyNode(queue[l][(i + 1) + 1]) ELSE NULL
        BY <4>1 DEF IInv, QueueInv, LinkInv
      <4>3. i < n - 1 => queue'[l][i + 1] = queue[l][(i + 1) + 1] /\ queue'[l][i + 1] \in Ctx \ {c}
        BY <1>4, <4>a
      <4>4. /\ Len(queue'[l]) = n - 1
            /\ node'[MyNode(queue'[l][i])].next = node[MyNode(queue[l][i + 1])].next
        BY <1>4, <3>0, <3>2, <4>1
      <4>5. CASE i < n - 1
        <5>1. pc'[queue'[l][i + 1]] = pc[queue[l][(i + 1) + 1]]
          BY <1>2, <4>3, <4>5
        <5>2. i + 1 < Len(queue[l])
          BY <4>1, <4>5
        <5>3. node'[MyNode(queue'[l][i])].next =
                  IF pc'[queue'[l][i + 1]] # "link"
                  THEN MyNode(queue'[l][i + 1]) ELSE NULL
          BY <4>2, <4>3, <4>4, <4>5, <5>1, <5>2
        <5> QED BY <3>2, <4>4, <4>5, <5>3
      <4>6. CASE ~(i < n - 1)
        BY <3>2, <4>1, <4>2, <4>4, <4>6
      <4> QED BY <4>5, <4>6
    <3> QED BY <3>1, <3>2
  <2>4. ASSUME NEW m \in Locks
        PROVE (queue[m] # <<>> => word[m].tail = MyTail(queue[m][Len(queue[m])]))'
    BY <1>1, <2>2 DEF MyTail
  <2>5. ASSUME NEW m \in Locks, NEW i \in DOMAIN queue'[m]
        PROVE (node[MyNode(queue[m][i])].next =
                  IF i < Len(queue[m]) /\ pc[queue[m][i + 1]] # "link"
                  THEN MyNode(queue[m][i + 1]) ELSE NULL)'
    BY <1>1, <2>3 DEF MyNode
  <2> QED BY <2>1, <2>4, <2>5 DEF LinkInv
<1>14. NextInv'
  BY <1>1, <1>2, <1>8, <1>9 DEF IInv, QueueInv, NextInv
<1>15. FreshInv'
  <2> SUFFICES ASSUME NEW d \in Ctx, pc'[d] \in {"trylock", "xchg_tail"}
               PROVE  node'[MyNode(d)] = [locked |-> 0, next |-> NULL]
    BY <1>8 DEF FreshInv
  <2>1. d # c /\ pc[d] \in {"trylock", "xchg_tail"} /\ d # u /\ pc[d] \in NodePC
    BY <1>2, <1>7 DEF NodePC
  <2> QED BY <1>10, <2>1 DEF IInv, QueueInv, FreshInv
<1> QED BY <1>11, <1>12, <1>13, <1>14, <1>15 DEF QueueInv

LEMMA QueueStep == IInv /\ [Next]_vars => QueueInv'
<1> SUFFICES ASSUME IInv, [Next]_vars PROVE QueueInv'
  OBVIOUS
<1>w. word \in [Locks -> Word]
  BY DEF IInv, TypeOK
<1>p. /\ pc \in [Ctx -> PCs] /\ lk \in [Ctx -> Locks \cup {0}] /\ idx \in [Ctx -> 0 .. MAX_NODES - 1]
      /\ prev \in [Ctx -> NodeAddr \cup {NULL}] /\ next \in [Ctx -> NodeAddr \cup {NULL}]
  BY DEF IInv, TypeOK
<1>1. CASE UNCHANGED vars
  <2>1. UNCHANGED <<word, node, pc, lk, idx, prev, next, queue>>
    BY <1>1 DEF vars
  <2>2. MemberInv' /\ NextInv' /\ FreshInv'
    BY <2>1 DEF IInv, QueueInv, MemberInv, NextInv, FreshInv, MyNode
  <2>3. OrderInv'
    BY <2>1 DEF IInv, QueueInv, OrderInv, OrderAt, MyNode
  <2>4. LinkInv'
    BY <2>1 DEF IInv, QueueInv, LinkInv, MyNode, MyTail
  <2> QED BY <2>2, <2>3, <2>4 DEF QueueInv
<1>2. ASSUME NEW c \in Ctx, NEW l \in Locks,
             \/ queued_spin_lock(c, l) \/ queued_spin_trylock(c, l) \/ queued_spin_unlock(c, l)
      PROVE  QueueInv'
  <2>1. queue' = queue /\ node' = node /\ idx' = idx /\ prev' = prev /\ next' = next /\ pc[c] = "idle"
    BY <1>2 DEF queued_spin_lock, queued_spin_trylock, queued_spin_unlock, MayRun
  <2>2. \A m \in Locks : word'[m].tail = word[m].tail
    BY <1>w, <1>2 DEF queued_spin_lock, queued_spin_trylock, queued_spin_unlock, Word
  <2>3. /\ \A d \in Ctx \ {c} : pc'[d] = pc[d] /\ lk'[d] = lk[d]
        /\ pc'[c] \in {"idle", "pend_spin", "queue", "set_pending"}
    BY <1>p, <1>2, <2>1 DEF queued_spin_lock, queued_spin_trylock, queued_spin_unlock, Goto, AfterRead
  <2>4. pc[c] \notin Tracked /\ pc'[c] \notin Tracked
    BY <2>1, <2>3 DEF Tracked, QueuedPC
  <2> QED BY <2>1, <2>2, <2>3, <2>4, QueueFrame
<1>3. ASSUME NEW c \in Ctx, NEW l \in Locks, lk[c] = l,
             \/ PendSpin(c, l) \/ SetPending(c, l) \/ UndoPending(c, l) \/ PendWait(c, l)
             \/ PendTake(c, l) \/ CountRead(c, l) \/ CountWrite(c, l) \/ Release(c, l)
      PROVE  QueueInv'
  <2>1. queue' = queue /\ node' = node
    BY <1>3 DEF PendSpin, SetPending, UndoPending, PendWait, PendTake, CountRead, CountWrite, Release
  <2>2. \A m \in Locks : word'[m].tail = word[m].tail
    BY <1>w, <1>3 DEF PendSpin, SetPending, UndoPending, PendWait, PendTake, CountRead, CountWrite,
                      Release, Word
  <2>3. \A d \in Ctx \ {c} : /\ lk'[d] = lk[d] /\ idx'[d] = idx[d]
                             /\ prev'[d] = prev[d] /\ next'[d] = next[d]
    BY <1>p, <1>3 DEF PendSpin, SetPending, UndoPending, PendWait, PendTake, CountRead, CountWrite,
                      Release, Return
  <2>4. /\ pc[c] \notin Tracked
        /\ \E t : t \notin Tracked /\ pc' = [pc EXCEPT ![c] = t]
    BY <1>3 DEF PendSpin, SetPending, UndoPending, PendWait, PendTake, CountRead, CountWrite,
                Release, Return, Goto, AfterRead, AfterFetch, Tracked, QueuedPC
  <2>5. pc'[c] \notin Tracked /\ \A d \in Ctx \ {c} : pc'[d] = pc[d]
    BY <1>p, <2>4
  <2> QED BY <2>1, <2>2, <2>3, <2>4, <2>5, QueueFrame
<1>4. ASSUME NEW c \in Ctx, NEW l \in Locks, lk[c] = l, TryLock(c, l) PROVE QueueInv'
  <2>1. /\ queue' = queue /\ node' = node /\ lk' = lk /\ idx' = idx /\ prev' = prev /\ next' = next
        /\ pc[c] = "trylock" /\ \E t \in {"release", "xchg_tail"} : pc' = [pc EXCEPT ![c] = t]
    BY <1>4 DEF TryLock, Goto
  <2>2. \A m \in Locks : word'[m].tail = word[m].tail
    BY <1>w, <1>4 DEF TryLock, Word
  <2>3. pc'[c] \in {"release", "xchg_tail"} /\ \A d \in Ctx \ {c} : pc'[d] = pc[d]
    BY <1>p, <2>1
  <2>4. \A m \in Locks : \A i \in DOMAIN queue[m] : queue[m][i] \in Ctx \ {c}
    <3>1. \A m \in Locks : queue[m] \in Seq(Ctx)
      BY DEF IInv, TypeOK
    <3> QED BY <2>1, <3>1, SeqDomain DEF IInv, QueueInv, MemberInv, QueuedPC
  <2>5. MemberInv'
    BY <2>1, <2>3, <2>4 DEF IInv, QueueInv, MemberInv, QueuedPC
  <2>6. OrderInv'
    <3> SUFFICES ASSUME NEW m \in Locks, NEW i \in DOMAIN queue[m] PROVE OrderAt(m, i)'
      BY <2>1 DEF OrderInv
    <3>1. OrderAt(m, i)
      BY DEF IInv, QueueInv, OrderInv
    <3> QED BY <2>1, <2>3, <2>4, <3>1 DEF OrderAt, MyNode
  <2>7. LinkInv'
    <3>1. ASSUME NEW m \in Locks
          PROVE (/\ queue[m] = <<>> => word[m].tail = 0
                 /\ queue[m] # <<>> => word[m].tail = MyTail(queue[m][Len(queue[m])]))'
      BY <2>1, <2>2 DEF IInv, QueueInv, LinkInv, MyTail
    <3>2. ASSUME NEW m \in Locks, NEW i \in DOMAIN queue[m]
          PROVE (node[MyNode(queue[m][i])].next =
                  IF i < Len(queue[m]) /\ pc[queue[m][i + 1]] # "link"
                  THEN MyNode(queue[m][i + 1]) ELSE NULL)'
      <4>1. node[MyNode(queue[m][i])].next =
                  IF i < Len(queue[m]) /\ pc[queue[m][i + 1]] # "link"
                  THEN MyNode(queue[m][i + 1]) ELSE NULL
        BY DEF IInv, QueueInv, LinkInv
      <4>2. i < Len(queue[m]) => queue[m][i + 1] \in Ctx \ {c}
        <5>1. queue[m] \in Seq(Ctx)
          BY DEF IInv, TypeOK
        <5>2. i < Len(queue[m]) => i + 1 \in DOMAIN queue[m]
          BY <5>1, SeqDomain
        <5> QED BY <2>4, <5>2
      <4> QED BY <2>1, <2>3, <4>1, <4>2 DEF MyNode
    <3> QED BY <2>1, <3>1, <3>2 DEF LinkInv
  <2>8. NextInv'
    BY <2>1, <2>3 DEF IInv, QueueInv, NextInv, MyNode
  <2>9. FreshInv'
    BY <2>1, <2>3 DEF IInv, QueueInv, FreshInv, MyNode
  <2> QED BY <2>5, <2>6, <2>7, <2>8, <2>9 DEF QueueInv
<1>5. ASSUME NEW c \in Ctx, NEW l \in Locks, lk[c] = l,
             McsWait(c, l) \/ ReadNext(c, l) \/ HeadWait(c, l) \/ set_locked(c, l) \/ WaitNext(c, l)
             \/ (Claim(c, l) /\ word[l] # [locked |-> 0, pending |-> 0, tail |-> MyTail(c)])
      PROVE  QueueInv'
  <2>1. queue' = queue /\ node' = node /\ lk' = lk /\ idx' = idx /\ prev' = prev
    BY <1>5 DEF McsWait, ReadNext, HeadWait, set_locked, WaitNext, Claim
  <2>2. \A m \in Locks : word'[m].tail = word[m].tail
    BY <1>w, <1>5 DEF McsWait, ReadNext, HeadWait, set_locked, WaitNext, Claim, Word
  <2>3. /\ \E t \in HeadPC : pc' = [pc EXCEPT ![c] = t]
        /\ \/ pc[c] \in HeadPC
           \/ pc[c] = "mcs_wait" /\ node[MyNode(c)].locked = 1
    BY <1>5 DEF McsWait, ReadNext, HeadWait, set_locked, WaitNext, Claim, Goto, HeadPC, QueuedPC
  <2>4. pc'[c] \in HeadPC /\ \A d \in Ctx \ {c} : pc'[d] = pc[d]
    BY <1>p, <2>3
  <2>5. \A d \in Ctx \ {c} : next'[d] = next[d]
    BY <1>p, <1>5 DEF McsWait, ReadNext, HeadWait, set_locked, WaitNext, Claim
  <2>6. /\ pc'[c] \in {"head_wait", "claim", "set_locked"} => next'[c] \in {NULL, node[MyNode(c)].next}
        /\ pc'[c] = "pass" => next'[c] # NULL /\ next'[c] = node[MyNode(c)].next
    <3>1. CASE McsWait(c, l)
      BY <1>p, <3>1 DEF McsWait, Goto
    <3>2. CASE ReadNext(c, l)
      BY <1>p, <3>2 DEF ReadNext, Goto
    <3>3. CASE \/ HeadWait(c, l)
               \/ Claim(c, l) /\ word[l] # [locked |-> 0, pending |-> 0, tail |-> MyTail(c)]
      BY <1>p, <3>3 DEF HeadWait, Claim, Goto, IInv, QueueInv, NextInv
    <3>4. CASE set_locked(c, l)
      BY <1>p, <3>4 DEF set_locked, Goto, IInv, QueueInv, NextInv
    <3>5. CASE WaitNext(c, l)
      BY <1>p, <3>5 DEF WaitNext, Goto
    <3> QED BY <1>5, <3>1, <3>2, <3>3, <3>4, <3>5
  <2> QED BY <1>5, <2>1, <2>2, <2>3, <2>4, <2>5, <2>6, QueueMove
<1> QED BY <1>1, <1>2, <1>3, <1>4, <1>5, QueueInit, QueueAppend, QueueLink, QueueClaim, QueuePass
        DEF Next, queued_spin_lock_slowpath

-----------------------------------------------------------------------------
(* The theorems *)

LEMMA InvInit == Init => IInv
<1> SUFFICES ASSUME Init PROVE IInv
  OBVIOUS
<1>0. \A l \in Locks : word[l].locked = 0 /\ word[l].tail = 0
  BY DEF Init, Unlocked
<1>1. TypeOK
  <2>1. word \in [Locks -> Word]
    BY DEF Init, Unlocked, Word
  <2>2. count \in [Cpus -> 0 .. MAX_NODES] /\ idx \in [Ctx -> 0 .. MAX_NODES - 1]
    BY DEF Init, MAX_NODES
  <2>3. node \in [NodeAddr -> [locked : 0 .. 1, next : NodeAddr \cup {NULL}]]
    BY DEF Init
  <2>4. pc \in [Ctx -> PCs] /\ lk \in [Ctx -> Locks \cup {0}]
    BY DEF Init, PCs
  <2>5. prev \in [Ctx -> NodeAddr \cup {NULL}] /\ next \in [Ctx -> NodeAddr \cup {NULL}]
    BY DEF Init
  <2>6. held \in [Ctx -> SUBSET Locks] /\ queue \in [Locks -> Seq(Ctx)]
    BY DEF Init
  <2> QED BY <2>1, <2>2, <2>3, <2>4, <2>5, <2>6 DEF TypeOK
<1>2. CallInv
  BY DEF Init, CallInv
<1>3. \A c \in Ctx : pc[c] = "idle" /\ held[c] = {}
  BY DEF Init
<1>4. NodeInv
  BY <1>3 DEF Init, NodeInv, Reserved, NodePC, QueuedPC
<1>5. LockInv
  BY <1>3 DEF LockInv, HeldInv, PendInv, TakeInv, MutualExclusion, PendSet, PendPC
<1>6. \A l \in Locks : queue[l] = <<>> /\ DOMAIN queue[l] = {}
  BY DEF Init
<1>7. QueueInv
  BY <1>0, <1>3, <1>6 DEF QueueInv, MemberInv, OrderInv, LinkInv, NextInv, FreshInv, QueuedPC
<1> QED BY <1>1, <1>2, <1>4, <1>5, <1>7 DEF IInv

(* IInv is an inductive invariant of the queued spin lock. *)
THEOREM Invariance == Spec => []IInv
<1>1. IInv /\ [Next]_vars => IInv'
  <2> SUFFICES ASSUME IInv, [Next]_vars PROVE IInv'
    OBVIOUS
  <2>1. NodeInv'
    BY NodeStep DEF IInv
  <2>2. TypeOK'
    BY <2>1, TypeStep DEF IInv, QueueInv
  <2>3. CallInv' /\ LockInv' /\ QueueInv'
    BY CallStep, LockStep, QueueStep DEF IInv
  <2> QED BY <2>1, <2>2, <2>3 DEF IInv
<1> QED BY <1>1, InvInit, PTL DEF Spec

(* Every field keeps its type, and no CPU ever needs a fifth queue node. *)
THEOREM TypeCorrect == Spec => []TypeOK
<1>1. IInv => TypeOK
  BY DEF IInv
<1> QED BY <1>1, Invariance, PTL

(* No two contexts own the same lock, for any number of CPUs, nesting levels
   and locks. *)
THEOREM Exclusion == Spec => []MutualExclusion
<1>1. IInv => MutualExclusion
  BY DEF IInv, LockInv, HeldInv
<1> QED BY <1>1, Invariance, PTL

(* No two contexts use the same queue node at the same time. *)
THEOREM Nodes == Spec => []NodesDistinct
<1>1. IInv => NodesDistinct
  BY NodesApart DEF IInv, NodesDistinct
<1> QED BY <1>1, Invariance, PTL

(* The tail and the next pointers lead through the waiters in order. *)
THEOREM Linked == Spec => []QueueLinked
<1>1. IInv => QueueLinked
  <2> SUFFICES ASSUME IInv, NEW l \in Locks
               PROVE  /\ word[l].tail = IF queue[l] = <<>> THEN 0 ELSE MyTail(queue[l][Len(queue[l])])
                      /\ \A i \in 1 .. Len(queue[l]) :
                            node[MyNode(queue[l][i])].next =
                               IF i < Len(queue[l]) /\ pc[queue[l][i + 1]] # "link"
                               THEN MyNode(queue[l][i + 1]) ELSE NULL
                      /\ \A i \in 2 .. Len(queue[l]) : node[MyNode(queue[l][i])].locked = 0
    BY DEF QueueLinked
  <2>0. queue[l] \in Seq(Ctx)
    BY DEF IInv, TypeOK
  <2>1. DOMAIN queue[l] = 1 .. Len(queue[l]) /\ Len(queue[l]) \in Nat
    BY <2>0, SeqDomain
  <2>2. \A i \in 2 .. Len(queue[l]) : i \in DOMAIN queue[l] /\ i # 1
    BY <2>1
  <2>3. \A i \in 2 .. Len(queue[l]) : node[MyNode(queue[l][i])].locked = 0
    BY <2>2 DEF IInv, QueueInv, OrderInv, OrderAt
  <2> QED BY <2>1, <2>3 DEF IInv, QueueInv, LinkInv
<1> QED BY <1>1, Invariance, PTL

-----------------------------------------------------------------------------
(* What IInv does not say *)

(* A set pending byte has a context that is bound to clear it. *)
PendBound == \A l \in Locks : word[l].pending = 1 =>
                \E c \in Ctx : lk[c] = l /\ pc[c] \in PendSet

(* Between taking the lock and leaving the slow path a context owns the lock of
   its call, and before that it does not. *)
OwnerPC == {"wait_next", "pass", "release"}
OwnerInv == \A c \in Ctx : pc[c] # "idle" => (lk[c] \in held[c] <=> pc[c] \in OwnerPC)

FifoInv == PendBound /\ OwnerInv

(* The facts about types that the steps below use *)
LEMMA Types ==
    ASSUME IInv
    PROVE  /\ word \in [Locks -> Word] /\ pc \in [Ctx -> PCs] /\ lk \in [Ctx -> Locks \cup {0}]
           /\ held \in [Ctx -> SUBSET Locks] /\ queue \in [Locks -> Seq(Ctx)]
           /\ 0 \notin Locks
           /\ \A c \in Ctx : pc[c] # "idle" => lk[c] \in Locks
<1>1. /\ word \in [Locks -> Word] /\ pc \in [Ctx -> PCs] /\ lk \in [Ctx -> Locks \cup {0}]
      /\ held \in [Ctx -> SUBSET Locks] /\ queue \in [Locks -> Seq(Ctx)]
  BY DEF IInv, TypeOK
<1>2. 0 \notin Locks
  BY LocksAssumption
<1> QED BY <1>1, <1>2 DEF IInv, CallInv

-----------------------------------------------------------------------------
(* PendBound and OwnerInv are inductive relative to IInv. *)

(* Steps that leave the pending bytes and those bound to clear them alone. *)
LEMMA BoundFrame ==
    ASSUME PendBound, NEW c \in Ctx,
           \A m \in Locks : word'[m].pending = word[m].pending,
           \A d \in Ctx \ {c} : pc'[d] = pc[d] /\ lk'[d] = lk[d],
           pc[c] \notin PendSet \/ (pc'[c] \in PendSet /\ lk'[c] = lk[c])
    PROVE  PendBound'
<1> SUFFICES ASSUME NEW m \in Locks, word'[m].pending = 1
             PROVE  \E d \in Ctx : lk'[d] = m /\ pc'[d] \in PendSet
  BY DEF PendBound
<1>1. PICK d \in Ctx : lk[d] = m /\ pc[d] \in PendSet
  BY DEF PendBound
<1> QED BY <1>1

(* Steps that clear the pending byte of l, which c was bound to, if anyone. *)
LEMMA BoundCleared ==
    ASSUME PendBound, NEW c \in Ctx, NEW l \in Locks, word'[l].pending = 0,
           \A m \in Locks \ {l} : word'[m].pending = word[m].pending,
           \A d \in Ctx \ {c} : pc'[d] = pc[d] /\ lk'[d] = lk[d],
           pc[c] \in PendSet => lk[c] = l
    PROVE  PendBound'
<1> SUFFICES ASSUME NEW m \in Locks, word'[m].pending = 1
             PROVE  \E d \in Ctx : lk'[d] = m /\ pc'[d] \in PendSet
  BY DEF PendBound
<1>1. m # l
  OBVIOUS
<1>2. PICK d \in Ctx : lk[d] = m /\ pc[d] \in PendSet
  BY <1>1 DEF PendBound
<1> QED BY <1>1, <1>2

LEMMA BoundStep == IInv /\ PendBound /\ [Next]_vars => PendBound'
<1> SUFFICES ASSUME IInv, PendBound, [Next]_vars PROVE PendBound'
  OBVIOUS
<1>t. /\ word \in [Locks -> Word] /\ pc \in [Ctx -> PCs] /\ lk \in [Ctx -> Locks \cup {0}]
  BY Types
<1>1. CASE UNCHANGED vars
  BY <1>1 DEF vars, PendBound
<1>2. ASSUME NEW c \in Ctx, NEW l \in Locks,
             \/ queued_spin_lock(c, l) \/ queued_spin_trylock(c, l) \/ queued_spin_unlock(c, l)
      PROVE  PendBound'
  <2>1. pc[c] \notin PendSet
    BY <1>2 DEF queued_spin_lock, queued_spin_trylock, queued_spin_unlock, MayRun, PendSet, PendPC
  <2>2. \A m \in Locks : word'[m].pending = word[m].pending
    BY <1>t, <1>2 DEF queued_spin_lock, queued_spin_trylock, queued_spin_unlock, Word
  <2>3. \A d \in Ctx \ {c} : pc'[d] = pc[d] /\ lk'[d] = lk[d]
    BY <1>t, <1>2 DEF queued_spin_lock, queued_spin_trylock, queued_spin_unlock, Goto
  <2> QED BY <2>1, <2>2, <2>3, BoundFrame
<1>3. ASSUME NEW c \in Ctx, NEW l \in Locks,
             \/ PendSpin(c, l) \/ CountRead(c, l) \/ CountWrite(c, l) \/ InitNode(c, l)
             \/ TryLock(c, l) \/ xchg_tail(c, l) \/ Link(c, l) \/ McsWait(c, l)
             \/ ReadNext(c, l) \/ HeadWait(c, l) \/ set_locked(c, l) \/ WaitNext(c, l)
             \/ Pass(c, l) \/ Release(c, l)
      PROVE  PendBound'
  <2>1. pc[c] \notin PendSet
    BY <1>3 DEF PendSpin, CountRead, CountWrite, InitNode, TryLock, xchg_tail, Link, McsWait,
                ReadNext, HeadWait, set_locked, WaitNext, Pass, Release, PendSet, PendPC
  <2>2. \A m \in Locks : word'[m].pending = word[m].pending
    BY <1>t, <1>3 DEF PendSpin, CountRead, CountWrite, InitNode, TryLock, xchg_tail, Link, McsWait,
                ReadNext, HeadWait, set_locked, WaitNext, Pass, Release, Word
  <2>3. \A d \in Ctx \ {c} : pc'[d] = pc[d] /\ lk'[d] = lk[d]
    BY <1>t, <1>3 DEF PendSpin, CountRead, CountWrite, InitNode, TryLock, xchg_tail, Link, McsWait,
                ReadNext, HeadWait, set_locked, WaitNext, Pass, Release, Goto, Return
  <2> QED BY <2>1, <2>2, <2>3, BoundFrame
<1>4. ASSUME NEW c \in Ctx, NEW l \in Locks, lk[c] = l, SetPending(c, l) PROVE PendBound'
  <2>1. /\ pc[c] = "set_pending" /\ lk' = lk
        /\ word'[l].pending = 1 /\ \A m \in Locks \ {l} : word'[m] = word[m]
        /\ pc' = [pc EXCEPT ![c] = AfterFetch(word[l])]
    BY <1>t, <1>4 DEF SetPending, Goto, Word
  <2>2. pc'[c] = AfterFetch(word[l]) /\ \A d \in Ctx \ {c} : pc'[d] = pc[d]
    BY <1>t, <2>1
  <2> SUFFICES ASSUME NEW m \in Locks, word'[m].pending = 1
               PROVE  \E d \in Ctx : lk'[d] = m /\ pc'[d] \in PendSet
    BY DEF PendBound
  <2>3. CASE m = l /\ word[l].pending # 1
    <3>1. pc'[c] \in PendSet
      BY <2>2, <2>3 DEF AfterFetch, PendSet, PendPC
    <3> QED BY <1>4, <2>1, <2>3, <3>1
  <2>4. CASE word[m].pending = 1
    <3>1. PICK d \in Ctx : lk[d] = m /\ pc[d] \in PendSet
      BY <2>4 DEF PendBound
    <3>2. d # c
      BY <2>1, <3>1 DEF PendSet, PendPC
    <3> QED BY <2>1, <2>2, <3>1, <3>2
  <2> QED BY <2>1, <2>3, <2>4
<1>5. ASSUME NEW c \in Ctx, NEW l \in Locks, lk[c] = l, UndoPending(c, l) \/ PendTake(c, l)
      PROVE  PendBound'
  <2>1. word'[l].pending = 0 /\ \A m \in Locks \ {l} : word'[m].pending = word[m].pending
    BY <1>t, <1>5 DEF UndoPending, PendTake, Word
  <2>2. \A d \in Ctx \ {c} : pc'[d] = pc[d] /\ lk'[d] = lk[d]
    BY <1>t, <1>5 DEF UndoPending, PendTake, Goto, Return
  <2> QED BY <1>5, <2>1, <2>2, BoundCleared
<1>6. ASSUME NEW c \in Ctx, NEW l \in Locks, PendWait(c, l) PROVE PendBound'
  <2>1. word' = word /\ lk' = lk /\ pc' = [pc EXCEPT ![c] = "pend_take"]
    BY <1>6 DEF PendWait, Goto
  <2>2. pc'[c] \in PendSet /\ \A d \in Ctx \ {c} : pc'[d] = pc[d]
    BY <1>t, <2>1 DEF PendSet, PendPC
  <2> QED BY <2>1, <2>2, BoundFrame
<1>7. ASSUME NEW c \in Ctx, NEW l \in Locks, Claim(c, l) PROVE PendBound'
  <2>1. pc[c] \notin PendSet
    BY <1>7 DEF Claim, PendSet, PendPC
  <2>2. \A m \in Locks : word'[m].pending = word[m].pending
    <3>1. CASE word[l] = [locked |-> 0, pending |-> 0, tail |-> MyTail(c)]
      <4>1. word' = [word EXCEPT ![l] = [locked |-> 1, pending |-> 0, tail |-> 0]]
        BY <1>7, <3>1 DEF Claim
      <4>2. word[l].pending = 0
        BY <3>1
      <4> QED BY <1>t, <4>1, <4>2
    <3>2. CASE word[l] # [locked |-> 0, pending |-> 0, tail |-> MyTail(c)]
      BY <1>7, <3>2 DEF Claim
    <3> QED BY <3>1, <3>2
  <2>3. \A d \in Ctx \ {c} : pc'[d] = pc[d] /\ lk'[d] = lk[d]
    BY <1>t, <1>7 DEF Claim, Goto
  <2> QED BY <2>1, <2>2, <2>3, BoundFrame
<1> QED BY <1>1, <1>2, <1>3, <1>4, <1>5, <1>6, <1>7 DEF Next, queued_spin_lock_slowpath

LEMMA OwnerStep == IInv /\ OwnerInv /\ [Next]_vars => OwnerInv'
<1> SUFFICES ASSUME IInv, OwnerInv, [Next]_vars PROVE OwnerInv'
  OBVIOUS
<1>t. /\ pc \in [Ctx -> PCs] /\ lk \in [Ctx -> Locks \cup {0}] /\ held \in [Ctx -> SUBSET Locks]
      /\ \A c \in Ctx : pc[c] # "idle" => lk[c] \in Locks
  BY Types
<1>1. CASE UNCHANGED vars
  BY <1>1 DEF vars, OwnerInv
<1>2. ASSUME NEW c \in Ctx, NEW l \in Locks,
             \/ queued_spin_trylock(c, l) \/ queued_spin_unlock(c, l)
      PROVE  OwnerInv'
  <2>1. /\ pc' = pc /\ lk' = lk /\ pc[c] = "idle"
        /\ \A d \in Ctx \ {c} : held'[d] = held[d]
    BY <1>t, <1>2 DEF queued_spin_trylock, queued_spin_unlock, MayRun, Acquire
  <2> QED BY <2>1 DEF OwnerInv
<1>3. ASSUME NEW c \in Ctx, NEW l \in Locks, queued_spin_lock(c, l) PROVE OwnerInv'
  <2>0. pc[c] = "idle" /\ MayWait(c, l)
    BY <1>3 DEF queued_spin_lock, MayRun
  <2>1. CASE word[l] = Unlocked
    <3>1. pc' = pc /\ lk' = lk /\ \A d \in Ctx \ {c} : held'[d] = held[d]
      BY <1>t, <1>3, <2>1 DEF queued_spin_lock, Acquire
    <3> QED BY <2>0, <3>1 DEF OwnerInv
  <2>2. CASE word[l] # Unlocked
    <3>1. /\ lk' = [lk EXCEPT ![c] = l] /\ held' = held
          /\ \E t \in {"pend_spin", "queue", "set_pending"} : pc' = [pc EXCEPT ![c] = t]
      BY <1>3, <2>2 DEF queued_spin_lock, Goto, AfterRead
    <3>2. /\ pc'[c] \in {"pend_spin", "queue", "set_pending"} /\ lk'[c] = l
          /\ \A d \in Ctx \ {c} : pc'[d] = pc[d] /\ lk'[d] = lk[d]
      BY <1>t, <3>1
    <3>3. l \notin held[c]
      <4>1. \A m \in held[c] : m < l
        BY <2>0 DEF MayWait, Engaged
      <4> QED BY <4>1, LocksAssumption
    <3> QED BY <3>1, <3>2, <3>3 DEF OwnerInv, OwnerPC
  <2> QED BY <2>1, <2>2
<1>4. ASSUME NEW c \in Ctx, NEW l \in Locks, lk[c] = l,
             \/ PendSpin(c, l) \/ SetPending(c, l) \/ UndoPending(c, l) \/ PendWait(c, l)
             \/ CountRead(c, l) \/ CountWrite(c, l) \/ InitNode(c, l)
             \/ xchg_tail(c, l) \/ Link(c, l) \/ McsWait(c, l) \/ ReadNext(c, l)
             \/ HeadWait(c, l)
      PROVE  OwnerInv'
  <2>1. lk' = lk /\ held' = held
    BY <1>4 DEF PendSpin, SetPending, UndoPending, PendWait, CountRead, CountWrite, InitNode,
                xchg_tail, Link, McsWait, ReadNext, HeadWait
  <2>2. /\ pc[c] \notin OwnerPC \cup {"idle"}
        /\ \E t : t \notin OwnerPC /\ pc' = [pc EXCEPT ![c] = t]
    BY <1>4 DEF PendSpin, SetPending, UndoPending, PendWait, CountRead, CountWrite, InitNode,
                xchg_tail, Link, McsWait, ReadNext, HeadWait, OwnerPC, Goto, AfterRead, AfterFetch
  <2>3. pc'[c] \notin OwnerPC /\ \A d \in Ctx \ {c} : pc'[d] = pc[d]
    BY <1>t, <2>2
  <2> QED BY <2>1, <2>2, <2>3 DEF OwnerInv
<1>5. ASSUME NEW c \in Ctx, NEW l \in Locks, lk[c] = l, PendTake(c, l) \/ Release(c, l)
      PROVE  OwnerInv'
  <2>1. /\ pc'[c] = "idle" /\ \A d \in Ctx \ {c} : pc'[d] = pc[d] /\ lk'[d] = lk[d]
        /\ \A d \in Ctx \ {c} : held'[d] = held[d]
    BY <1>t, <1>5 DEF PendTake, Release, Return, Goto, Acquire
  <2> QED BY <2>1 DEF OwnerInv
<1>6. ASSUME NEW c \in Ctx, NEW l \in Locks, lk[c] = l, Acquire(c, l), lk' = lk,
             \E t \in OwnerPC : pc' = [pc EXCEPT ![c] = t]
      PROVE  OwnerInv'
  <2>1. /\ pc'[c] \in OwnerPC /\ l \in held'[c]
        /\ \A d \in Ctx \ {c} : pc'[d] = pc[d] /\ held'[d] = held[d]
    BY <1>t, <1>6 DEF Acquire
  <2> QED BY <1>6, <2>1 DEF OwnerInv
<1>7. ASSUME NEW c \in Ctx, NEW l \in Locks, lk[c] = l, held' = held, lk' = lk,
             pc[c] # "idle", \E t : /\ t \in OwnerPC <=> pc[c] \in OwnerPC
                                    /\ pc' = [pc EXCEPT ![c] = t]
      PROVE  OwnerInv'
  <2>1. /\ pc'[c] \in OwnerPC <=> pc[c] \in OwnerPC
        /\ \A d \in Ctx \ {c} : pc'[d] = pc[d]
    BY <1>t, <1>7
  <2> QED BY <1>7, <2>1 DEF OwnerInv
<1>8. ASSUME NEW c \in Ctx, NEW l \in Locks, lk[c] = l, TryLock(c, l) PROVE OwnerInv'
  <2>1. CASE word[l] = Unlocked
    BY <1>6, <1>8, <2>1 DEF TryLock, Goto, OwnerPC
  <2>2. CASE word[l] # Unlocked
    BY <1>7, <1>8, <2>2 DEF TryLock, Goto, OwnerPC
  <2> QED BY <2>1, <2>2
<1>9. ASSUME NEW c \in Ctx, NEW l \in Locks, lk[c] = l, Claim(c, l) PROVE OwnerInv'
  <2>1. CASE word[l] = [locked |-> 0, pending |-> 0, tail |-> MyTail(c)]
    BY <1>6, <1>9, <2>1 DEF Claim, Goto, OwnerPC
  <2>2. CASE word[l] # [locked |-> 0, pending |-> 0, tail |-> MyTail(c)]
    BY <1>7, <1>9, <2>2 DEF Claim, Goto, OwnerPC
  <2> QED BY <2>1, <2>2
<1>10. ASSUME NEW c \in Ctx, NEW l \in Locks, lk[c] = l, set_locked(c, l) PROVE OwnerInv'
  BY <1>6, <1>10 DEF set_locked, Goto, OwnerPC
<1>11. ASSUME NEW c \in Ctx, NEW l \in Locks, lk[c] = l, WaitNext(c, l) \/ Pass(c, l)
       PROVE  OwnerInv'
  BY <1>7, <1>11 DEF WaitNext, Pass, Goto, OwnerPC
<1> QED BY <1>1, <1>2, <1>3, <1>4, <1>5, <1>8, <1>9, <1>10, <1>11
        DEF Next, queued_spin_lock_slowpath

(* The whole invariant. *)
THEOREM FifoInvariance == Spec => [](IInv /\ FifoInv)
<1>1. Init => FifoInv
  <2> SUFFICES ASSUME Init PROVE FifoInv
    OBVIOUS
  <2>1. PendBound
    BY DEF Init, PendBound, Unlocked
  <2>2. OwnerInv
    BY DEF Init, OwnerInv
  <2> QED BY <2>1, <2>2 DEF FifoInv
<1>2. IInv /\ FifoInv /\ [Next]_vars => FifoInv'
  BY BoundStep, OwnerStep DEF FifoInv
<1> QED BY <1>1, <1>2, Invariance, PTL DEF Spec

(* The pending byte of a lock is set exactly while one context is bound to clear
   it, however fetch_or, clear_pending and clear_pending_set_locked interleave. *)
THEOREM Pending == Spec => []PendingOwned
<1>1. IInv /\ FifoInv => PendingOwned
  <2> SUFFICES ASSUME IInv, FifoInv, NEW l \in Locks
               PROVE  Cardinality({c \in Ctx : lk[c] = l /\ pc[c] \in PendSet}) = word[l].pending
    BY DEF PendingOwned, PendSet
  <2> DEFINE S == {c \in Ctx : lk[c] = l /\ pc[c] \in PendSet}
  <2>1. word[l].pending \in {0, 1}
    BY Types DEF Word
  <2>2. CASE word[l].pending = 0
    <3>1. S = {}
      BY <2>2 DEF IInv, LockInv, PendInv
    <3> QED BY <2>2, <3>1, FS_EmptySet
  <2>3. CASE word[l].pending = 1
    <3>1. PICK c \in Ctx : lk[c] = l /\ pc[c] \in PendSet
      BY <2>3 DEF FifoInv, PendBound
    <3>2. S = {c}
      BY <3>1 DEF IInv, LockInv, PendInv
    <3> QED BY <2>3, <3>2, FS_Singleton
  <2> QED BY <2>1, <2>2, <2>3
<1> QED BY <1>1, FifoInvariance, PTL

-----------------------------------------------------------------------------
(* The refinement mapping *)

(* The context in a PendPC is the one next in line. *)
LEMMA PendIs ==
    ASSUME IInv, NEW l \in Locks, NEW c \in Ctx, lk[c] = l, pc[c] \in PendPC
    PROVE  PendHolder(l) = c
<1>1. {d \in Ctx : lk[d] = l /\ pc[d] \in PendPC} = {c}
  BY DEF IInv, LockInv, PendInv, PendSet
<1> QED BY <1>1 DEF PendHolder, TheOne

LEMMA PendIsNone ==
    ASSUME NEW l \in Locks, \A c \in Ctx : lk[c] = l => pc[c] \notin PendPC
    PROVE  PendHolder(l) = None
BY DEF PendHolder, TheOne

(* Steps that leave those in a PendPC alone do not change who is next. *)
LEMMA PendSame ==
    ASSUME NEW l \in Locks,
           \A d \in Ctx : (lk[d] = l /\ pc[d] \in PendPC) <=> (lk'[d] = l /\ pc'[d] \in PendPC)
    PROVE  PendHolder(l)' = PendHolder(l)
<1>1. {d \in Ctx : lk[d] = l /\ pc[d] \in PendPC} = {d \in Ctx : lk'[d] = l /\ pc'[d] \in PendPC}
  OBVIOUS
<1> QED BY <1>1 DEF PendHolder

(* Steps that leave a queue and its members' ownership of the lock alone do not
   change the waiters. *)
LEMMA WaitSame ==
    ASSUME IInv, NEW l \in Locks, queue'[l] = queue[l],
           \A d \in Ctx : lk[d] = l /\ pc[d] \in QueuedPC => (l \in held'[d] <=> l \in held[d])
    PROVE  Waiting(l)' = Waiting(l)
<1>0. queue[l] \in Seq(Ctx)
  BY Types
<1>1. ASSUME queue[l] # <<>>
      PROVE  l \in held'[Head(queue[l])] <=> l \in held[Head(queue[l])]
  <2>1. 1 \in DOMAIN queue[l] /\ Head(queue[l]) = queue[l][1] /\ queue[l][1] \in Ctx
    BY <1>0, <1>1
  <2> QED BY <2>1 DEF IInv, QueueInv, MemberInv
<1> QED BY <1>1 DEF Waiting

(* A lock without a tail has no waiters, one without a pending byte nobody in line. *)
LEMMA Quiet ==
    ASSUME IInv, NEW l \in Locks
    PROVE  /\ word[l].tail = 0 => queue[l] = <<>> /\ Waiting(l) = <<>>
           /\ word[l].pending = 0 => PendHolder(l) = None
           /\ word[l].locked = 0 => \A c \in Ctx : l \notin held[c]
<1>1. ASSUME queue[l] # <<>> PROVE word[l].tail # 0
  <2>1. queue[l] \in Seq(Ctx)
    BY Types
  <2>2. queue[l][Len(queue[l])] \in Ctx
    BY <1>1, <2>1
  <2>3. MyTail(queue[l][Len(queue[l])]) # 0
    BY <2>2, MyNodeType DEF IInv
  <2> QED BY <1>1, <2>3 DEF IInv, QueueInv, LinkInv
<1>2. word[l].pending = 0 => \A c \in Ctx : lk[c] = l => pc[c] \notin PendPC
  BY DEF IInv, LockInv, PendInv, PendSet
<1>3. word[l].locked = 0 => \A c \in Ctx : l \notin held[c]
  BY DEF IInv, LockInv, HeldInv
<1> QED BY <1>1, <1>2, <1>3, PendIsNone DEF Waiting

(* What a step of c that leaves queues alone does to those in line and waiting. *)
LEMMA LineSame ==
    ASSUME NEW c \in Ctx, \A d \in Ctx \ {c} : pc'[d] = pc[d] /\ lk'[d] = lk[d],
           \/ pc[c] \notin PendPC /\ pc'[c] \notin PendPC
           \/ pc[c] \in PendPC /\ pc'[c] \in PendPC /\ lk'[c] = lk[c]
    PROVE  \A m \in Locks : PendHolder(m)' = PendHolder(m)
<1> SUFFICES ASSUME NEW m \in Locks PROVE PendHolder(m)' = PendHolder(m)
  OBVIOUS
<1>1. \A d \in Ctx : (lk[d] = m /\ pc[d] \in PendPC) <=> (lk'[d] = m /\ pc'[d] \in PendPC)
  OBVIOUS
<1> QED BY <1>1, PendSame

(* Someone takes a free lock with nobody in line and nobody waiting. *)
LEMMA TakesFree ==
    ASSUME IInv, NEW c \in Ctx, NEW l \in Locks, word[l] = Unlocked, Acquire(c, l),
           queue' = queue, pc[c] \notin PendPC, pc'[c] \notin PendPC,
           \A d \in Ctx \ {c} : pc'[d] = pc[d] /\ lk'[d] = lk[d]
    PROVE  Abs!Barge(c, l)
<1>1. word[l].locked = 0 /\ word[l].pending = 0 /\ word[l].tail = 0
  BY DEF Unlocked
<1>2. /\ \A d \in Ctx : l \notin held[d]
      /\ PendHolder(l) = None /\ Waiting(l) = <<>> /\ queue[l] = <<>>
  BY <1>1, Quiet
<1>3. \A m \in Locks : PendHolder(m)' = PendHolder(m)
  BY LineSame
<1>4. \A d \in Ctx, m \in Locks : m # l => (m \in held'[d] <=> m \in held[d])
  BY Types DEF Acquire
<1>5. \A m \in Locks : Waiting(m)' = Waiting(m)
  <2> SUFFICES ASSUME NEW m \in Locks PROVE Waiting(m)' = Waiting(m)
    OBVIOUS
  <2>1. CASE m = l
    BY <1>2, <2>1 DEF Waiting
  <2>2. CASE m # l
    BY <1>4, <2>2, WaitSame
  <2> QED BY <2>1, <2>2
<1> QED BY <1>2, <1>3, <1>5 DEF Abs!Barge, Abs!Take, Abs!Free, Acquire

(* Steps that take, release, queue and announce nothing. *)
LEMMA Stutters ==
    ASSUME IInv, NEW c \in Ctx, held' = held, queue' = queue,
           \A d \in Ctx \ {c} : pc'[d] = pc[d] /\ lk'[d] = lk[d],
           \/ pc[c] \notin PendPC /\ pc'[c] \notin PendPC
           \/ pc[c] \in PendPC /\ pc'[c] \in PendPC /\ lk'[c] = lk[c]
    PROVE  UNCHANGED Abs!vars
<1>1. \A m \in Locks : PendHolder(m)' = PendHolder(m)
  BY LineSame
<1>2. \A m \in Locks : Waiting(m)' = Waiting(m)
  BY WaitSame
<1> QED BY <1>1, <1>2 DEF Abs!vars

LEMMA EntryRefines ==
    ASSUME IInv, FifoInv, NEW c \in Ctx, NEW l \in Locks,
           queued_spin_lock(c, l) \/ queued_spin_trylock(c, l) \/ queued_spin_unlock(c, l)
    PROVE  [Abs!Next]_(Abs!vars)
<1>t. pc \in [Ctx -> PCs] /\ lk \in [Ctx -> Locks \cup {0}] /\ held \in [Ctx -> SUBSET Locks]
  BY Types
<1>0. pc[c] = "idle" /\ "idle" \notin PendPC /\ "idle" \notin QueuedPC
  BY DEF queued_spin_lock, queued_spin_trylock, queued_spin_unlock, MayRun, PendPC, QueuedPC
<1>1. CASE queued_spin_trylock(c, l)
  BY <1>0, <1>1, TakesFree DEF queued_spin_trylock, Abs!Next
<1>2. CASE queued_spin_lock(c, l) /\ word[l] = Unlocked
  BY <1>0, <1>2, TakesFree DEF queued_spin_lock, Abs!Next
<1>3. CASE queued_spin_lock(c, l) /\ word[l] # Unlocked
  <2>1. /\ lk' = [lk EXCEPT ![c] = l] /\ held' = held /\ queue' = queue
        /\ \E t \in {"pend_spin", "queue", "set_pending"} : pc' = [pc EXCEPT ![c] = t]
    BY <1>3 DEF queued_spin_lock, Goto, AfterRead
  <2>2. /\ \A d \in Ctx \ {c} : pc'[d] = pc[d] /\ lk'[d] = lk[d]
        /\ pc'[c] \notin PendPC
    BY <1>t, <2>1 DEF PendPC
  <2> QED BY <1>0, <2>1, <2>2, Stutters
<1>4. CASE queued_spin_unlock(c, l)
  <2>1. /\ pc' = pc /\ lk' = lk /\ queue' = queue /\ l \in held[c]
        /\ held' = [held EXCEPT ![c] = @ \ {l}]
    BY <1>4 DEF queued_spin_unlock
  <2>2. \A m \in Locks : PendHolder(m)' = PendHolder(m)
    BY <1>0, <2>1, LineSame
  <2>3. \A m \in Locks : Waiting(m)' = Waiting(m)
    <3> SUFFICES ASSUME NEW m \in Locks PROVE Waiting(m)' = Waiting(m)
      OBVIOUS
    <3>1. \A d \in Ctx : pc[d] \in QueuedPC => held'[d] = held[d]
      BY <1>t, <1>0, <2>1
    <3> QED BY <2>1, <3>1, WaitSame
  <2>4. Abs!Unlock(c, l)
    BY <2>1, <2>2, <2>3 DEF Abs!Unlock
  <2> QED BY <2>4 DEF Abs!Next
<1> QED BY <1>1, <1>2, <1>3, <1>4

LEMMA PendRefines ==
    ASSUME IInv, IInv', FifoInv, NEW c \in Ctx, NEW l \in Locks, lk[c] = l,
           SetPending(c, l) \/ PendTake(c, l)
    PROVE  [Abs!Next]_(Abs!vars)
<1>t. /\ pc \in [Ctx -> PCs] /\ lk \in [Ctx -> Locks \cup {0}] /\ held \in [Ctx -> SUBSET Locks]
      /\ word \in [Locks -> Word]
  BY Types
<1>1. CASE SetPending(c, l)
  <2>1. /\ pc[c] = "set_pending" /\ lk' = lk /\ held' = held /\ queue' = queue
        /\ pc' = [pc EXCEPT ![c] = AfterFetch(word[l])]
    BY <1>1 DEF SetPending, Goto
  <2>2. pc'[c] = AfterFetch(word[l]) /\ \A d \in Ctx \ {c} : pc'[d] = pc[d] /\ lk'[d] = lk[d]
    BY <1>t, <2>1
  <2>3. CASE Contended(word[l])
    <3>1. pc[c] \notin PendPC /\ pc'[c] \notin PendPC
      BY <2>1, <2>2, <2>3 DEF AfterFetch, PendPC
    <3> QED BY <2>1, <2>2, <3>1, Stutters
  <2>4. CASE ~ Contended(word[l])
    <3>1. pc'[c] \in PendPC /\ lk'[c] = l
      BY <2>1, <2>2, <2>4 DEF AfterFetch, PendPC
    <3>2. word[l].pending = 0 /\ word[l].tail = 0
      BY <1>t, <2>4 DEF Contended, Word
    <3>3. PendHolder(l) = None /\ Waiting(l) = <<>>
      BY <3>2, Quiet
    <3>4. \A d \in Ctx : lk[d] = l => pc[d] \notin PendPC
      BY <3>2 DEF IInv, LockInv, PendInv, PendSet
    <3>5. PendHolder(l)' = c
      <4>1. {d \in Ctx : lk'[d] = l /\ pc'[d] \in PendPC} = {c}
        BY <2>1, <2>2, <3>1, <3>4
      <4> QED BY <4>1 DEF PendHolder, TheOne
    <3>6. \A m \in Locks \ {l} : PendHolder(m)' = PendHolder(m)
      <4> SUFFICES ASSUME NEW m \in Locks \ {l} PROVE PendHolder(m)' = PendHolder(m)
        OBVIOUS
      <4>1. \A d \in Ctx : (lk[d] = m /\ pc[d] \in PendPC) <=> (lk'[d] = m /\ pc'[d] \in PendPC)
        BY <2>1, <2>2
      <4> QED BY <4>1, PendSame
    <3>7. \A m \in Locks : Waiting(m)' = Waiting(m)
      BY <2>1, WaitSame
    <3>8. l \notin held[c]
      BY <2>1 DEF FifoInv, OwnerInv, OwnerPC
    <3>9. Abs!Outside(c, l)
      BY <3>3, <3>8, NoneAssumption DEF Abs!Outside
    <3>10. Abs!Pend(c, l)
      BY <2>1, <3>3, <3>5, <3>6, <3>7, <3>9 DEF Abs!Pend
    <3> QED BY <3>10 DEF Abs!Next
  <2> QED BY <2>3, <2>4
<1>2. CASE PendTake(c, l)
  <2>1. /\ pc[c] = "pend_take" /\ queue' = queue
        /\ held' = [held EXCEPT ![c] = @ \cup {l}]
        /\ pc'[c] = "idle" /\ \A d \in Ctx \ {c} : pc'[d] = pc[d] /\ lk'[d] = lk[d]
    BY <1>t, <1>2 DEF PendTake, Acquire, Return, Goto
  <2>2. pc[c] \in PendPC /\ pc'[c] \notin PendPC /\ pc[c] \notin QueuedPC
    BY <2>1 DEF PendPC, QueuedPC
  <2>3. PendHolder(l) = c
    BY <2>2, PendIs
  <2>4. PendHolder(l)' = None
    <3>1. \A d \in Ctx : lk'[d] = l => pc'[d] \notin PendPC
      BY <2>1, <2>2 DEF IInv, LockInv, PendInv, PendSet
    <3>2. {d \in Ctx : lk'[d] = l /\ pc'[d] \in PendPC} = {}
      BY <3>1
    <3> QED BY <3>2 DEF PendHolder, TheOne
  <2>5. \A m \in Locks \ {l} : PendHolder(m)' = PendHolder(m)
    <3> SUFFICES ASSUME NEW m \in Locks \ {l} PROVE PendHolder(m)' = PendHolder(m)
      OBVIOUS
    <3>1. \A d \in Ctx : (lk[d] = m /\ pc[d] \in PendPC) <=> (lk'[d] = m /\ pc'[d] \in PendPC)
      BY <2>1, <2>2
    <3> QED BY <3>1, PendSame
  <2>6. \A m \in Locks : Waiting(m)' = Waiting(m)
    <3>1. \A d \in Ctx : pc[d] \in QueuedPC => held'[d] = held[d]
      BY <1>t, <2>1, <2>2
    <3> QED BY <2>1, <3>1, WaitSame
  <2>7. \A d \in Ctx : l \notin held[d]
    BY <2>1, Quiet DEF IInv, LockInv, TakeInv
  <2>8. Abs!TakePend(c, l)
    BY <2>1, <2>3, <2>4, <2>5, <2>6, <2>7 DEF Abs!TakePend, Abs!Take, Abs!Free
  <2> QED BY <2>8 DEF Abs!Next
<1> QED BY <1>1, <1>2

(* A waiter that has just joined queues behind all the others. *)
LEMMA EnqueueRefines ==
    ASSUME IInv, FifoInv, NEW c \in Ctx, NEW l \in Locks, lk[c] = l, xchg_tail(c, l)
    PROVE  [Abs!Next]_(Abs!vars)
<1>t. pc \in [Ctx -> PCs] /\ queue \in [Locks -> Seq(Ctx)]
  BY Types
<1>1. /\ pc[c] = "xchg_tail" /\ lk' = lk /\ held' = held
      /\ queue' = [queue EXCEPT ![l] = Append(@, c)]
      /\ \E t \in {"link", "head_wait"} : pc' = [pc EXCEPT ![c] = t]
  BY DEF xchg_tail, Goto
<1>2. /\ pc[c] \notin PendPC /\ pc'[c] \notin PendPC /\ pc[c] \notin QueuedPC
      /\ \A d \in Ctx \ {c} : pc'[d] = pc[d]
  BY <1>t, <1>1 DEF PendPC, QueuedPC
<1>3. \A m \in Locks : PendHolder(m)' = PendHolder(m)
  BY <1>1, <1>2, LineSame
<1>4. \A m \in Locks \ {l} : Waiting(m)' = Waiting(m)
  BY <1>t, <1>1, WaitSame
<1>5. l \notin held[c]
  BY <1>1 DEF FifoInv, OwnerInv, OwnerPC
<1>6. queue'[l] = Append(queue[l], c) /\ queue[l] \in Seq(Ctx)
  BY <1>t, <1>1
<1>7. Waiting(l)' = Append(Waiting(l), c)
  <2>1. CASE queue[l] = <<>>
    <3>1. queue'[l] = <<c>>
      BY <1>6, <2>1
    <3> QED BY <1>1, <1>5, <2>1, <3>1 DEF Waiting
  <2>2. CASE queue[l] # <<>>
    <3>1. /\ queue'[l] # <<>> /\ Head(queue'[l]) = Head(queue[l])
          /\ Tail(queue'[l]) = Append(Tail(queue[l]), c)
      BY <1>6, <2>2
    <3> QED BY <1>1, <1>6, <2>2, <3>1 DEF Waiting
  <2> QED BY <2>1, <2>2
<1>8. \A i \in DOMAIN Waiting(l) : Waiting(l)[i] # c
  <2>1. \A i \in 1 .. Len(queue[l]) : queue[l][i] # c
    BY <1>2, <1>6, SeqDomain DEF IInv, QueueInv, MemberInv
  <2>2. CASE queue[l] # <<>> /\ l \in held[Head(queue[l])]
    <3>1. Waiting(l) = Tail(queue[l])
      BY <2>2 DEF Waiting
    <3>2. \A i \in DOMAIN Tail(queue[l]) : i + 1 \in 1 .. Len(queue[l])
                                           /\ Tail(queue[l])[i] = queue[l][i + 1]
      BY <1>6, <2>2, TailFacts, SeqDomain
    <3> QED BY <2>1, <3>1, <3>2
  <2>3. CASE ~ (queue[l] # <<>> /\ l \in held[Head(queue[l])])
    <3>1. Waiting(l) = queue[l]
      BY <2>3 DEF Waiting
    <3> QED BY <1>6, <2>1, <3>1, SeqDomain
  <2> QED BY <2>2, <2>3
<1>9. PendHolder(l) # c
  <2>1. c \notin {d \in Ctx : lk[d] = l /\ pc[d] \in PendPC}
    BY <1>2
  <2> QED BY <2>1, NoneAssumption DEF PendHolder, TheOne
<1>10. Abs!Enqueue(c, l)
  BY <1>1, <1>3, <1>4, <1>5, <1>7, <1>8, <1>9 DEF Abs!Enqueue, Abs!Outside
<1> QED BY <1>10 DEF Abs!Next

(* The head of the queue takes the lock, and leaves the waiters at once (claim) or
   keeps its node until it has told its successor (set_locked). *)
LEMMA HeadRefines ==
    ASSUME IInv, IInv', FifoInv, NEW c \in Ctx, NEW l \in Locks, lk[c] = l,
           \/ set_locked(c, l)
           \/ Claim(c, l) /\ word[l] = [locked |-> 0, pending |-> 0, tail |-> MyTail(c)]
    PROVE  [Abs!Next]_(Abs!vars)
<1>t. /\ pc \in [Ctx -> PCs] /\ queue \in [Locks -> Seq(Ctx)] /\ held \in [Ctx -> SUBSET Locks]
  BY Types
<1>1. /\ pc[c] \in {"set_locked", "claim"} /\ lk' = lk
      /\ held' = [held EXCEPT ![c] = @ \cup {l}]
      /\ \E t \in {"wait_next", "pass", "release"} : pc' = [pc EXCEPT ![c] = t]
  BY DEF set_locked, Claim, Acquire, Goto
<1>2. /\ pc[c] \notin PendPC /\ pc'[c] \notin PendPC /\ pc[c] \in HeadPC
      /\ \A d \in Ctx \ {c} : pc'[d] = pc[d]
  BY <1>t, <1>1 DEF PendPC, HeadPC, QueuedPC
<1>3. \A m \in Locks : PendHolder(m)' = PendHolder(m)
  BY <1>1, <1>2, LineSame
<1>4. queue[l] # <<>> /\ queue[l][1] = c /\ queue[l] \in Seq(Ctx) /\ Head(queue[l]) = c
  BY <1>t, <1>2, HeadFirst
<1>5. word[l].locked = 0 /\ \A d \in Ctx : lk[d] = l => pc[d] \notin PendPC
  BY <1>1 DEF IInv, LockInv, TakeInv
<1>6. PendHolder(l) = None /\ \A d \in Ctx : l \notin held[d]
  BY <1>5, PendIsNone, Quiet
<1>7. Waiting(l) = queue[l]
  BY <1>4, <1>6 DEF Waiting
<1>8. \A m \in Locks \ {l} : queue'[m] = queue[m]
  BY <1>t DEF set_locked, Claim, Dequeue
<1>9. \A m \in Locks \ {l} : Waiting(m)' = Waiting(m)
  <2> SUFFICES ASSUME NEW m \in Locks \ {l} PROVE Waiting(m)' = Waiting(m)
    OBVIOUS
  <2>1. \A d \in Ctx : m \in held'[d] <=> m \in held[d]
    BY <1>t, <1>1
  <2> QED BY <1>8, <2>1, WaitSame
<1>10. Waiting(l)' = Tail(queue[l])
  <2>1. l \in held'[c]
    BY <1>t, <1>1
  <2>2. CASE set_locked(c, l)
    <3>1. queue' = queue
      BY <2>2 DEF set_locked
    <3> QED BY <1>4, <2>1, <3>1 DEF Waiting
  <2>3. CASE Claim(c, l) /\ word[l] = [locked |-> 0, pending |-> 0, tail |-> MyTail(c)]
    <3>1. queue'[l] = Tail(queue[l]) /\ pc' = [pc EXCEPT ![c] = "release"]
      BY <1>t, <1>4, <2>3 DEF Claim, Dequeue, Goto
    <3>2. ASSUME queue'[l] # <<>> PROVE l \notin held'[Head(queue'[l])]
      <4>1. queue'[l] \in Seq(Ctx)
        BY <1>4, <3>1
      <4>2. 1 \in DOMAIN queue'[l] /\ Head(queue'[l]) = queue'[l][1] /\ queue'[l][1] \in Ctx
        BY <3>2, <4>1
      <4>3. pc'[queue'[l][1]] \in QueuedPC
        BY <4>2 DEF IInv, QueueInv, MemberInv
      <4>4. pc'[c] \notin QueuedPC
        BY <1>t, <3>1 DEF QueuedPC
      <4>5. queue'[l][1] # c
        BY <4>3, <4>4
      <4> QED BY <1>t, <1>1, <1>6, <4>2, <4>5
    <3> QED BY <3>1, <3>2 DEF Waiting
  <2> QED BY <2>2, <2>3
<1>11. Abs!TakeHead(c, l)
  BY <1>1, <1>3, <1>4, <1>6, <1>7, <1>9, <1>10 DEF Abs!TakeHead, Abs!Take, Abs!Free
<1> QED BY <1>11 DEF Abs!Next

(* The hand-over of the node is not seen: its owner left the waiters before. *)
LEMMA PassRefines ==
    ASSUME IInv, FifoInv, NEW c \in Ctx, NEW l \in Locks, lk[c] = l, Pass(c, l)
    PROVE  UNCHANGED Abs!vars
<1>t. pc \in [Ctx -> PCs] /\ queue \in [Locks -> Seq(Ctx)]
  BY Types
<1>1. /\ pc[c] = "pass" /\ lk' = lk /\ held' = held /\ pc' = [pc EXCEPT ![c] = "release"]
  BY DEF Pass, Goto
<1>2. /\ pc[c] \notin PendPC /\ pc'[c] \notin PendPC /\ pc[c] \in HeadPC
      /\ \A d \in Ctx \ {c} : pc'[d] = pc[d]
  BY <1>t, <1>1 DEF PendPC, HeadPC, QueuedPC
<1>3. \A m \in Locks : PendHolder(m)' = PendHolder(m)
  BY <1>1, <1>2, LineSame
<1>4. queue[l] # <<>> /\ queue[l][1] = c /\ queue[l] \in Seq(Ctx) /\ Head(queue[l]) = c
  BY <1>t, <1>2, HeadFirst
<1>5. l \in held[c]
  BY <1>1 DEF FifoInv, OwnerInv, OwnerPC
<1>6. queue'[l] = Tail(queue[l]) /\ \A m \in Locks \ {l} : queue'[m] = queue[m]
  BY <1>t, <1>4 DEF Pass, Dequeue
<1>7. \A m \in Locks \ {l} : Waiting(m)' = Waiting(m)
  BY <1>1, <1>6, WaitSame
<1>8. ASSUME Tail(queue[l]) # <<>> PROVE l \notin held[Head(Tail(queue[l]))]
  <2>1. 2 \in DOMAIN queue[l] /\ Head(Tail(queue[l])) = queue[l][2] /\ queue[l][2] \in Ctx
    BY <1>4, <1>8
  <2>2. 1 \in DOMAIN queue[l]
    BY <1>4
  <2>3. queue[l][2] # c
    BY <1>4, <2>1, <2>2 DEF IInv, QueueInv, MemberInv
  <2> QED BY <1>5, <2>1, <2>3 DEF IInv, LockInv, HeldInv, MutualExclusion
<1>9. Waiting(l)' = Waiting(l)
  BY <1>1, <1>4, <1>5, <1>6, <1>8 DEF Waiting
<1> QED BY <1>1, <1>3, <1>7, <1>9 DEF Abs!vars

LEMMA StepRefines ==
    IInv /\ FifoInv /\ IInv' /\ [Next]_vars => [Abs!Next]_(Abs!vars)
<1> SUFFICES ASSUME IInv, FifoInv, IInv', [Next]_vars PROVE [Abs!Next]_(Abs!vars)
  OBVIOUS
<1>t. pc \in [Ctx -> PCs] /\ lk \in [Ctx -> Locks \cup {0}]
  BY Types
<1>1. CASE UNCHANGED vars
  <2>1. \A m \in Locks : PendHolder(m)' = PendHolder(m) /\ Waiting(m)' = Waiting(m)
    BY <1>1, PendSame, WaitSame DEF vars
  <2> QED BY <1>1, <2>1 DEF vars, Abs!vars
<1>2. ASSUME NEW c \in Ctx, NEW l \in Locks, lk[c] = l,
             \/ PendSpin(c, l) \/ UndoPending(c, l) \/ CountRead(c, l) \/ CountWrite(c, l)
             \/ InitNode(c, l) \/ Link(c, l) \/ McsWait(c, l) \/ ReadNext(c, l)
             \/ HeadWait(c, l) \/ WaitNext(c, l) \/ Release(c, l)
             \/ TryLock(c, l) /\ word[l] # Unlocked
             \/ Claim(c, l) /\ word[l] # [locked |-> 0, pending |-> 0, tail |-> MyTail(c)]
      PROVE  UNCHANGED Abs!vars
  <2>1. held' = held /\ queue' = queue
    BY <1>2 DEF PendSpin, UndoPending, CountRead, CountWrite, InitNode, Link, McsWait, ReadNext,
                HeadWait, WaitNext, Release, TryLock, Claim
  <2>2. /\ pc[c] \notin PendPC
        /\ \E t : t \notin PendPC /\ pc' = [pc EXCEPT ![c] = t]
    BY <1>2 DEF PendSpin, UndoPending, CountRead, CountWrite, InitNode, Link, McsWait, ReadNext,
                HeadWait, WaitNext, Release, Return, TryLock, Claim, Goto, AfterRead, PendPC
  <2>3. \A d \in Ctx \ {c} : lk'[d] = lk[d]
    BY <1>t, <1>2 DEF PendSpin, UndoPending, CountRead, CountWrite, InitNode, Link, McsWait,
                ReadNext, HeadWait, WaitNext, Release, Return, TryLock, Claim
  <2>4. pc'[c] \notin PendPC /\ \A d \in Ctx \ {c} : pc'[d] = pc[d]
    BY <1>t, <2>2
  <2> QED BY <2>1, <2>2, <2>3, <2>4, Stutters
<1>3. ASSUME NEW c \in Ctx, NEW l \in Locks, lk[c] = l, PendWait(c, l)
      PROVE  UNCHANGED Abs!vars
  <2>1. /\ held' = held /\ queue' = queue /\ lk' = lk
        /\ pc[c] = "pend_wait" /\ pc' = [pc EXCEPT ![c] = "pend_take"]
    BY <1>3 DEF PendWait, Goto
  <2>2. pc[c] \in PendPC /\ pc'[c] \in PendPC /\ \A d \in Ctx \ {c} : pc'[d] = pc[d]
    BY <1>t, <2>1 DEF PendPC
  <2> QED BY <2>1, <2>2, Stutters
<1>4. ASSUME NEW c \in Ctx, NEW l \in Locks, lk[c] = l, TryLock(c, l) /\ word[l] = Unlocked
      PROVE  [Abs!Next]_(Abs!vars)
  <2>1. /\ Acquire(c, l) /\ queue' = queue /\ lk' = lk /\ pc[c] = "trylock"
        /\ pc' = [pc EXCEPT ![c] = "release"]
    BY <1>4 DEF TryLock, Goto
  <2>2. pc[c] \notin PendPC /\ pc'[c] \notin PendPC /\ \A d \in Ctx \ {c} : pc'[d] = pc[d]
    BY <1>t, <2>1 DEF PendPC
  <2> QED BY <1>4, <2>1, <2>2, TakesFree DEF Abs!Next
<1>5. ASSUME NEW c \in Ctx, NEW l \in Locks, queued_spin_lock_slowpath(c, l)
      PROVE  [Abs!Next]_(Abs!vars)
  BY <1>2, <1>3, <1>4, <1>5, PendRefines, EnqueueRefines, HeadRefines, PassRefines
     DEF queued_spin_lock_slowpath
<1> QED BY <1>1, <1>5, EntryRefines DEF Next

(* The queued spin lock implements the FIFO lock: whichever of its paths a context
   takes, it does not overtake the pending waiter or the queue, and the queue is
   served in the order of its xchg_tail. *)
THEOREM Implements == Spec => Fifo
<1>1. Init => Abs!Init
  <2> SUFFICES ASSUME Init PROVE Abs!Init
    OBVIOUS
  <2>1. \A l \in Locks : PendHolder(l) = None
    BY PendIsNone DEF Init, PendPC
  <2>2. \A l \in Locks : Waiting(l) = <<>>
    BY DEF Init, Waiting
  <2> QED BY <2>1, <2>2 DEF Init, Abs!Init
<1> QED BY <1>1, StepRefines, FifoInvariance, PTL DEF Spec, Fifo, Abs!Spec
=============================================================================
