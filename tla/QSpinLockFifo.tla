---------------------------- MODULE QSpinLockFifo ----------------------------
(***************************************************************************)
(* The queued spin lock as an implementation of SpinLockSpec: whom the     *)
(* lock word, the places of the contexts and the queue make the next in    *)
(* line and the waiters.                                                   *)
(***************************************************************************)
EXTENDS QSpinLock

CONSTANT None       \* no context is next in line

ASSUME NoneAssumption == None \notin Ctx

(* The context that owns the pending byte and will take the lock with it; one
   that only has to undo its fetch_or (undo_pending) is not in line. *)
TheOne(S) == IF S = {} THEN None ELSE CHOOSE c \in S : TRUE
PendHolder(l) == TheOne({c \in Ctx : lk[c] = l /\ pc[c] \in PendPC})

(* The head keeps its place in the queue for a while after it took the lock. *)
Waiting(l) ==
    IF queue[l] # <<>> /\ l \in held[Head(queue[l])] THEN Tail(queue[l]) ELSE queue[l]

Abs == INSTANCE SpinLockSpec WITH
          pend <- [l \in Locks |-> PendHolder(l)],
          waiting <- [l \in Locks |-> Waiting(l)]

(* The lock is the FIFO lock of SpinLockSpec: nobody takes it past the pending
   waiter or past the queue, and the queue is served in order. *)
Fifo == Abs!Spec
=============================================================================
