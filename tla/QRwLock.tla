------------------------------ MODULE QRwLock ------------------------------
(***************************************************************************)
(* The queued reader/writer lock: kernel/locking/qrwlock.c and the inline  *)
(* fast paths of include/asm-generic/qrwlock.h.  One lock; its wait_lock   *)
(* is the spin lock of SpinLockSpec, which QSpinLock implements.           *)
(*                                                                         *)
(* in_interrupt() is the constant 0 in this kernel (include/linux/         *)
(* preempt.h), so the interrupt branch of the reader slow path is dead.    *)
(* Each action is one atomic operation on cnts or one step of wait_lock.   *)
(***************************************************************************)
EXTENDS Integers, Sequences, FiniteSets

CONSTANTS
    Cpus,      \* the CPUs that use the lock
    None       \* no CPU

ASSUME CpusAssumption == IsFiniteSet(Cpus) /\ None \notin Cpus

VARIABLES
    cnts,      \* the counter: readers * 512 + waiting flag + locked byte
    pc,        \* per CPU: the next atomic operation of its call
    wheld, wpend, wqueue    \* wait_lock

vars == <<cnts, pc, wheld, wpend, wqueue>>
wlock == <<wheld, wpend, wqueue>>

wait_lock == "wait_lock"
WL == INSTANCE SpinLockSpec WITH
         Ctx <- Cpus, Locks <- {wait_lock},
         held <- wheld, pend <- wpend, waiting <- wqueue

_QW_WAITING == 256
_QW_LOCKED == 255
_QR_BIAS == 512
WMask(v) == v % 512      \* v & _QW_WMASK
WLocked(v) == v % 256    \* v & _QW_LOCKED

Goto(p, label) == pc' = [pc EXCEPT ![p] = label]

-----------------------------------------------------------------------------
(* Readers *)

(* atomic_add_return: on success the caller reads, otherwise it goes to fail. *)
AddReader(p, fail) ==
    /\ cnts' = cnts + _QR_BIAS
    /\ Goto(p, IF WMask(cnts') = 0 THEN "reading" ELSE fail)
    /\ UNCHANGED wlock

queued_read_lock(p) == pc[p] = "idle" /\ AddReader(p, "r_sub")

queued_read_trylock_always_undoes(p) ==
    /\ pc[p] = "idle"
    /\ Goto(p, IF WMask(cnts) = 0 THEN "rt_add" ELSE "rt_undo")
    /\ UNCHANGED <<cnts, wlock>>
(* The test of the first atomic_read; a caller that fails it changes nothing. *)
queued_read_trylock(p) ==
    /\ pc[p] = "idle"
    /\ WMask(cnts) = 0
    /\ Goto(p, "rt_add")
    /\ UNCHANGED <<cnts, wlock>>

ReadTryAdd(p) == pc[p] = "rt_add" /\ AddReader(p, "rt_undo")

SubReader(p, from, to) ==
    /\ pc[p] = from
    /\ cnts' = cnts - _QR_BIAS
    /\ Goto(p, to)
    /\ UNCHANGED wlock

ReadTryUndo(p) == SubReader(p, "rt_undo", "idle")
ReadSlowSub(p) == SubReader(p, "r_sub", "r_wait")
queued_read_unlock(p) == SubReader(p, "reading", "idle")

ReadSlowAdd(p) ==
    /\ pc[p] = "r_add"
    /\ cnts' = cnts + _QR_BIAS
    /\ Goto(p, "r_spin")
    /\ UNCHANGED wlock

ReadSlowSpin_does_not_wait(p) ==
    /\ pc[p] = "r_spin"
    /\ Goto(p, "r_unlock")
    /\ UNCHANGED <<cnts, wlock>>
ReadSlowSpin(p) ==
    /\ pc[p] = "r_spin"
    /\ WLocked(cnts) = 0
    /\ Goto(p, "r_unlock")
    /\ UNCHANGED <<cnts, wlock>>

-----------------------------------------------------------------------------
(* Writers *)

(* cmpxchg(cnts, old, _QW_LOCKED) *)
Claim(p, old, won, lost) ==
    /\ cnts' = IF cnts = old THEN _QW_LOCKED ELSE cnts
    /\ Goto(p, IF cnts = old THEN won ELSE lost)
    /\ UNCHANGED wlock

queued_write_lock(p) == pc[p] = "idle" /\ Claim(p, 0, "writing", "w_wait")

(* A failed trylock changes nothing. *)
queued_write_trylock(p) == pc[p] = "idle" /\ cnts = 0 /\ Claim(p, 0, "writing", "idle")

(* The read and the cmpxchg that follows it linearise at the one that decides. *)
WriteSlowTry(p) == pc[p] = "w_try" /\ Claim(p, 0, "w_unlock", "w_add")

WriteSlowAdd(p) ==
    /\ pc[p] = "w_add"
    /\ cnts' = cnts + _QW_WAITING
    /\ Goto(p, "w_spin")
    /\ UNCHANGED wlock

WriteSlowSpin(p) ==
    /\ pc[p] = "w_spin"
    /\ cnts = _QW_WAITING
    /\ Goto(p, "w_claim")
    /\ UNCHANGED <<cnts, wlock>>

WriteSlowClaim(p) == pc[p] = "w_claim" /\ Claim(p, _QW_WAITING, "w_unlock", "w_spin")

queued_write_unlock_stores_word(p) ==
    /\ pc[p] = "writing"
    /\ cnts' = 0
    /\ Goto(p, "idle")
    /\ UNCHANGED wlock
queued_write_unlock_clears_waiting(p) ==
    /\ pc[p] = "writing"
    /\ cnts' = (cnts \div 512) * 512
    /\ Goto(p, "idle")
    /\ UNCHANGED wlock
(* A store of zero to the locked byte alone. *)
queued_write_unlock(p) ==
    /\ pc[p] = "writing"
    /\ cnts' = (cnts \div 256) * 256
    /\ Goto(p, "idle")
    /\ UNCHANGED wlock

-----------------------------------------------------------------------------
(* wait_lock *)

(* arch_spin_lock(&lock->wait_lock): line up, or take the lock and go on. *)
WaitLock(p) ==
    /\ pc[p] \in {"r_wait", "w_wait"}
    /\ \/ /\ WL!Pend(p, wait_lock) \/ WL!Enqueue(p, wait_lock)
          /\ UNCHANGED pc
       \/ /\ \/ WL!Barge(p, wait_lock)
             \/ WL!TakePend(p, wait_lock)
             \/ WL!TakeHead(p, wait_lock)
          /\ Goto(p, IF pc[p] = "r_wait" THEN "r_add" ELSE "w_try")
    /\ UNCHANGED cnts

WaitUnlock(p) ==
    /\ pc[p] \in {"r_unlock", "w_unlock"}
    /\ WL!Unlock(p, wait_lock)
    /\ Goto(p, IF pc[p] = "r_unlock" THEN "reading" ELSE "writing")
    /\ UNCHANGED cnts

-----------------------------------------------------------------------------
(* A step of a call that has begun. *)
Continue(p) ==
    \/ ReadTryAdd(p)   \/ ReadTryUndo(p)
    \/ ReadSlowSub(p)  \/ ReadSlowAdd(p)   \/ ReadSlowSpin(p)
    \/ WriteSlowTry(p) \/ WriteSlowAdd(p)  \/ WriteSlowSpin(p) \/ WriteSlowClaim(p)
    \/ WaitLock(p)     \/ WaitUnlock(p)

Unlock(p) == queued_read_unlock(p) \/ queued_write_unlock(p)

Start(p) ==
    \/ queued_read_lock(p)  \/ queued_read_trylock(p)
    \/ queued_write_lock(p) \/ queued_write_trylock(p)

Next == \E p \in Cpus : Start(p) \/ Continue(p) \/ Unlock(p)

Init == cnts = 0 /\ pc = [p \in Cpus |-> "idle"] /\ WL!Init

Spec == Init /\ [][Next]_vars

(* Spinning CPUs run and critical sections end. *)
Fairness == \A p \in Cpus : WF_vars(Continue(p)) /\ WF_vars(Unlock(p))
FairSpec == Spec /\ Fairness

-----------------------------------------------------------------------------
(* Properties *)

InWait == {"r_add", "r_spin", "r_unlock", "w_try", "w_add", "w_spin", "w_claim", "w_unlock"}
ReadPC == {"reading", "r_unlock"}
WritePC == {"writing", "w_unlock"}
BiasPC == {"reading", "r_unlock", "r_sub", "rt_undo", "r_spin"}
FlagPC == {"w_spin", "w_claim"}
PCs == InWait \cup WritePC \cup BiasPC \cup {"idle", "rt_add", "r_wait", "w_wait"}

At(S) == {p \in Cpus : pc[p] \in S}

(* Every variable has its type: no failed or undone read leaves cnts below zero. *)
TypeOK ==
    /\ cnts \in Nat
    /\ pc \in [Cpus -> PCs]
    /\ wheld \in [Cpus -> SUBSET {wait_lock}]
    /\ wpend \in [{wait_lock} -> Cpus \cup {None}]
    /\ wqueue \in [{wait_lock} -> Seq(Cpus)]

(* A writer shares the lock with nobody, however it and the others came to it:
   fast path, trylock, or slow path with the wait_lock still held. *)
RwExclusion ==
    \A p \in At(WritePC) : At(WritePC) = {p} /\ At(ReadPC) = {}

(* The counter says exactly who is there: one bias for each reader, the failed
   and the spinning ones included, one waiting flag, one locked byte.  No undo is
   lost, no bias is left behind, the flag is never added twice. *)
CntsExact ==
    cnts = _QR_BIAS * Cardinality(At(BiasPC)) + _QW_WAITING * Cardinality(At(FlagPC))
              + _QW_LOCKED * Cardinality(At(WritePC))

(* Every read_lock, write_lock and trylock returns: readers that keep coming
   cannot starve the waiting writer, nor writers a queued reader. *)
CallsReturn ==
    \A p \in Cpus :
       pc[p] \notin {"idle", "reading", "writing"} ~> pc[p] \in {"idle", "reading", "writing"}
=============================================================================
