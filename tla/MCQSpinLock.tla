---------------------------- MODULE MCQSpinLock ----------------------------
(* Instances of QSpinLock, with its mapping to SpinLockSpec, for TLC. *)
EXTENDS QSpinLockFifo

(* One context per CPU, one lock. *)
OneLevelCpu == [c \in Ctx |-> c]
OneLevel == [c \in Ctx |-> 0]
NoIrq == [l \in Locks |-> 0]

(* Contexts 0 and 1 are the tasks of CPUs 0 and 1, context 2 the interrupt level of
   CPU 0; that level waits for lock 2 and only tries lock 1. *)
NestedCpu == [c \in Ctx |-> c % 2]
NestedLevel == [c \in Ctx |-> c \div 2]
NestedIrq == [l \in Locks |-> l - 1]
=============================================================================
