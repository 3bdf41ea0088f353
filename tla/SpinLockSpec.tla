---------------------------- MODULE SpinLockSpec ----------------------------
(***************************************************************************)
(* What a queued spin lock promises its callers: one owner at a time, a    *)
(* newcomer takes a free lock only when nobody waits, at most one waiter   *)
(* is next in line without queueing, and the others are served in the      *)
(* order in which they queued.                                             *)
(***************************************************************************)
EXTENDS Sequences

CONSTANTS Ctx, Locks, None

VARIABLES
    held,     \* per context: the locks it owns
    pend,     \* per lock: the waiter next in line, or None
    waiting   \* per lock: the queued waiters, oldest first

vars == <<held, pend, waiting>>

Free(l) == \A c \in Ctx : l \notin held[c]
Take(c, l) == Free(l) /\ held' = [held EXCEPT ![c] = @ \cup {l}]

(* The context is not involved with the lock yet. *)
Outside(c, l) ==
    l \notin held[c] /\ pend[l] # c /\ \A i \in DOMAIN waiting[l] : waiting[l][i] # c

Barge(c, l) ==
    /\ pend[l] = None /\ waiting[l] = <<>>
    /\ Take(c, l)
    /\ UNCHANGED <<pend, waiting>>

Pend(c, l) ==
    /\ Outside(c, l)
    /\ pend[l] = None /\ waiting[l] = <<>>
    /\ pend' = [pend EXCEPT ![l] = c]
    /\ UNCHANGED <<held, waiting>>

TakePend(c, l) ==
    /\ pend[l] = c
    /\ Take(c, l)
    /\ pend' = [pend EXCEPT ![l] = None]
    /\ UNCHANGED waiting

Enqueue(c, l) ==
    /\ Outside(c, l)
    /\ waiting' = [waiting EXCEPT ![l] = Append(@, c)]
    /\ UNCHANGED <<held, pend>>

TakeHead(c, l) ==
    /\ pend[l] = None
    /\ waiting[l] # <<>> /\ Head(waiting[l]) = c
    /\ Take(c, l)
    /\ waiting' = [waiting EXCEPT ![l] = Tail(@)]
    /\ UNCHANGED pend

Unlock(c, l) ==
    /\ l \in held[c]
    /\ held' = [held EXCEPT ![c] = @ \ {l}]
    /\ UNCHANGED <<pend, waiting>>

Next == \E c \in Ctx, l \in Locks :
            \/ Barge(c, l) \/ Pend(c, l) \/ TakePend(c, l)
            \/ Enqueue(c, l) \/ TakeHead(c, l) \/ Unlock(c, l)

Init ==
    /\ held = [c \in Ctx |-> {}]
    /\ pend = [l \in Locks |-> None]
    /\ waiting = [l \in Locks |-> <<>>]

Spec == Init /\ [][Next]_vars
=============================================================================
