--------------------------- MODULE QRwLockProofs ---------------------------
(***************************************************************************)
(* The reader/writer lock excludes writers, and its counter is exact, for  *)
(* every finite set of CPUs.                                               *)
(***************************************************************************)
EXTENDS QRwLock, FiniteSetTheorems, TLAPS

(* The steps made while holding wait_lock are made by its owner, who is alone. *)
WaitOwner ==
    /\ \A p \in Cpus : wait_lock \in wheld[p] <=> pc[p] \in InWait
    /\ \A p, q \in Cpus : wait_lock \in wheld[p] /\ wait_lock \in wheld[q] => p = q

IInv == TypeOK /\ WaitOwner /\ CntsExact /\ RwExclusion

-----------------------------------------------------------------------------
(* What the tests on the counter mean, given its parts. *)
LEMMA Masks ==
    ASSUME NEW R \in Nat, NEW W \in 0 .. 1, NEW L \in 0 .. 1
    PROVE  LET v == 512 * R + 256 * W + 255 * L IN
           /\ v % 512 = 0 => W = 0 /\ L = 0
           /\ v % 256 = 0 => L = 0
           /\ v = 0 => R = 0 /\ W = 0 /\ L = 0
           /\ v = 256 => R = 0 /\ W = 1 /\ L = 0
           /\ L = 1 => (v \div 256) * 256 = v - 255
           /\ (v + 512) % 512 = 0 => W = 0 /\ L = 0
<1>1. CASE W = 0 /\ L = 0
  BY <1>1
<1>2. CASE W = 1 /\ L = 0
  BY <1>2
<1>3. CASE W = 0 /\ L = 1
  BY <1>3
<1>4. CASE W = 1 /\ L = 1
  BY <1>4
<1> QED BY <1>1, <1>2, <1>3, <1>4

(* How many CPUs are in a set of places after one of them has moved. *)
LEMMA MoveCount ==
    ASSUME TypeOK, NEW p \in Cpus, NEW x, pc' = [pc EXCEPT ![p] = x], NEW S
    PROVE  /\ Cardinality(At(S)) \in Nat
           /\ Cardinality({q \in Cpus : pc'[q] \in S}) =
                 Cardinality(At(S)) + (IF x \in S THEN 1 ELSE 0)
                                    - (IF pc[p] \in S THEN 1 ELSE 0)
<1>1. IsFiniteSet(At(S))
  BY CpusAssumption, FS_Subset, At(S) \in SUBSET Cpus DEF At
<1> DEFINE T == At(S) \ {p}
<1>2. /\ IsFiniteSet(T)
      /\ Cardinality(T) = IF p \in At(S) THEN Cardinality(At(S)) - 1
                                         ELSE Cardinality(At(S))
  BY <1>1, FS_RemoveElement
<1>3. Cardinality(At(S)) \in Nat
  BY <1>1, FS_CardinalityType
<1>4. p \notin T /\ (p \in At(S) <=> pc[p] \in S)
  BY DEF At
<1>5. /\ pc'[p] = x
      /\ \A q \in Cpus : q # p => pc'[q] = pc[q]
  BY DEF TypeOK
<1>6. CASE x \in S
  <2>1. {q \in Cpus : pc'[q] \in S} = T \cup {p}
    BY <1>5, <1>6 DEF At
  <2>2. Cardinality(T \cup {p}) = Cardinality(T) + 1
    BY <1>2, <1>4, FS_AddElement
  <2>3. Cardinality({q \in Cpus : pc'[q] \in S}) = Cardinality(T) + 1
    BY <2>1, <2>2
  <2>4. CASE pc[p] \in S
    BY <1>2, <1>3, <1>4, <1>6, <2>3, <2>4
  <2>5. CASE pc[p] \notin S
    BY <1>2, <1>3, <1>4, <1>6, <2>3, <2>5
  <2> QED BY <2>4, <2>5
<1>7. CASE x \notin S
  <2>1. {q \in Cpus : pc'[q] \in S} = T
    BY <1>5, <1>7 DEF At
  <2>2. Cardinality({q \in Cpus : pc'[q] \in S}) = Cardinality(T)
    BY <2>1
  <2>3. CASE pc[p] \in S
    BY <1>2, <1>3, <1>4, <1>7, <2>2, <2>3
  <2>4. CASE pc[p] \notin S
    BY <1>2, <1>3, <1>4, <1>7, <2>2, <2>4
  <2> QED BY <2>3, <2>4
<1> QED BY <1>6, <1>7

(* Under the invariant at most one CPU has set the flag and at most one writes. *)
LEMMA Counts ==
    ASSUME IInv
    PROVE  /\ Cardinality(At(BiasPC)) \in Nat
           /\ Cardinality(At(FlagPC)) \in 0 .. 1
           /\ Cardinality(At(WritePC)) \in 0 .. 1
<1>1. \A S : IsFiniteSet(At(S)) /\ Cardinality(At(S)) \in Nat
  <2> TAKE S
  <2>1. At(S) \in SUBSET Cpus
    BY DEF At
  <2>2. IsFiniteSet(At(S))
    BY <2>1, CpusAssumption, FS_Subset
  <2> QED BY <2>2, FS_CardinalityType
<1>2. Cardinality(At(FlagPC)) \in 0 .. 1
  <2>1. CASE At(FlagPC) = {}
    BY <2>1, FS_EmptySet
  <2>2. CASE At(FlagPC) # {}
    <3>1. PICK p : p \in At(FlagPC)
      BY <2>2
    <3>2. \A q \in At(FlagPC) : q = p
      BY <3>1 DEF IInv, WaitOwner, At, FlagPC, InWait
    <3>3. At(FlagPC) = {p}
      BY <3>1, <3>2
    <3>4. Cardinality({p}) = 1
      BY FS_Singleton, Zenon
    <3> QED BY <3>3, <3>4
  <2> QED BY <2>1, <2>2
<1>3. Cardinality(At(WritePC)) \in 0 .. 1
  <2>1. CASE At(WritePC) = {}
    BY <2>1, FS_EmptySet
  <2>2. CASE At(WritePC) # {}
    <3>1. PICK p : p \in At(WritePC)
      BY <2>2
    <3>2. At(WritePC) = {p}
      BY <3>1 DEF IInv, RwExclusion
    <3>3. Cardinality({p}) = 1
      BY FS_Singleton, Zenon
    <3> QED BY <3>2, <3>3
  <2> QED BY <2>1, <2>2
<1> QED BY <1>1, <1>2, <1>3

(* No CPU is in a set of places that counts zero. *)
LEMMA NobodyAt ==
    ASSUME NEW S, Cardinality(At(S)) = 0
    PROVE  At(S) = {}
<1>1. At(S) \in SUBSET Cpus
  BY DEF At
<1> QED BY <1>1, CpusAssumption, FS_Subset, FS_EmptySet

-----------------------------------------------------------------------------
In(x, S) == IF x \in S THEN 1 ELSE 0

(* The counter changes by what the move of p to x adds and takes. *)
Balanced(p, x) ==
    cnts' = cnts + 512 * (In(x, BiasPC) - In(pc[p], BiasPC))
                 + 256 * (In(x, FlagPC) - In(pc[p], FlagPC))
                 + 255 * (In(x, WritePC) - In(pc[p], WritePC))

(* Then it stays exact. *)
LEMMA Recount ==
    ASSUME IInv, NEW p \in Cpus, NEW x \in PCs, pc' = [pc EXCEPT ![p] = x],
           Balanced(p, x)
    PROVE  CntsExact'
<1> DEFINE Card(S) == Cardinality(At(S))
           CardNew(S) == Cardinality({q \in Cpus : pc'[q] \in S})
<1>0. TypeOK
  BY DEF IInv
<1>1. \A S : /\ Card(S) \in Nat
             /\ CardNew(S) = Card(S) + In(x, S) - In(pc[p], S)
  BY <1>0, MoveCount DEF In
<1>2. cnts = 512 * Card(BiasPC) + 256 * Card(FlagPC) + 255 * Card(WritePC)
  BY DEF IInv, CntsExact, _QR_BIAS, _QW_WAITING, _QW_LOCKED
<1>3. \A S : In(x, S) \in Int /\ In(pc[p], S) \in Int
  BY DEF In
<1> HIDE DEF Card, CardNew
<1>4. cnts' = 512 * CardNew(BiasPC) + 256 * CardNew(FlagPC) + 255 * CardNew(WritePC)
  <2>1. /\ CardNew(BiasPC) = Card(BiasPC) + In(x, BiasPC) - In(pc[p], BiasPC)
        /\ CardNew(FlagPC) = Card(FlagPC) + In(x, FlagPC) - In(pc[p], FlagPC)
        /\ CardNew(WritePC) = Card(WritePC) + In(x, WritePC) - In(pc[p], WritePC)
        /\ Card(BiasPC) \in Nat /\ Card(FlagPC) \in Nat /\ Card(WritePC) \in Nat
        /\ In(x, BiasPC) \in Int /\ In(pc[p], BiasPC) \in Int
        /\ In(x, FlagPC) \in Int /\ In(pc[p], FlagPC) \in Int
        /\ In(x, WritePC) \in Int /\ In(pc[p], WritePC) \in Int
    BY <1>1, <1>3
  <2> QED BY <1>2, <2>1 DEF Balanced
<1> QED BY <1>4 DEF CardNew, CntsExact, At, _QR_BIAS, _QW_WAITING, _QW_LOCKED,
                    BiasPC, FlagPC, WritePC

(* Exclusion survives the move of p if p finds the lock as it needs it. *)
LEMMA ExclusionStep ==
    ASSUME IInv, NEW p \in Cpus, NEW x \in PCs, pc' = [pc EXCEPT ![p] = x],
           x \in WritePC => At(WritePC) \subseteq {p} /\ At(ReadPC) \subseteq {p},
           x \in ReadPC => At(WritePC) = {}
    PROVE  RwExclusion'
<1>1. /\ pc'[p] = x
      /\ \A q \in Cpus : q # p => pc'[q] = pc[q]
  BY DEF IInv, TypeOK
<1>2. ~(x \in WritePC /\ x \in ReadPC)
  BY DEF WritePC, ReadPC
<1> SUFFICES ASSUME NEW r \in Cpus, pc'[r] \in WritePC, NEW q \in Cpus
             PROVE  (pc'[q] \in WritePC => q = r) /\ pc'[q] \notin ReadPC
  BY DEF RwExclusion, At, WritePC, ReadPC
<1>3. CASE r = p
  BY <1>1, <1>2, <1>3 DEF At
<1>4. CASE r # p
  <2>1. r \in At(WritePC)
    BY <1>1, <1>4 DEF At
  <2>2. x \notin WritePC /\ x \notin ReadPC
    BY <1>4, <2>1
  <2>3. At(WritePC) = {r} /\ At(ReadPC) = {}
    BY <2>1 DEF IInv, RwExclusion
  <2> QED BY <1>1, <2>2, <2>3 DEF At
<1> QED BY <1>3, <1>4

(* A step that leaves wait_lock alone and does not cross its critical section. *)
LEMMA WaitStep ==
    ASSUME IInv, NEW p \in Cpus, NEW x \in PCs, pc' = [pc EXCEPT ![p] = x],
           UNCHANGED wlock, x \in InWait <=> pc[p] \in InWait
    PROVE  WaitOwner'
<1>1. /\ pc'[p] = x /\ wheld' = wheld
      /\ \A q \in Cpus : q # p => pc'[q] = pc[q]
  BY DEF IInv, TypeOK, wlock
<1> QED BY <1>1 DEF IInv, WaitOwner, InWait, wait_lock

(* p moves to x outside of the wait_lock's hand-overs, with the counter balanced and
   the lock as p needs it. *)
Moves(p, x) ==
    /\ x \in PCs
    /\ pc' = [pc EXCEPT ![p] = x]
    /\ UNCHANGED wlock
    /\ x \in InWait <=> pc[p] \in InWait
    /\ cnts' \in Nat
    /\ Balanced(p, x)
    /\ x \in WritePC => At(WritePC) \subseteq {p} /\ At(ReadPC) \subseteq {p}
    /\ x \in ReadPC => At(WritePC) = {}

LEMMA CounterStep ==
    ASSUME IInv, NEW p \in Cpus, NEW x, Moves(p, x)
    PROVE  IInv'
<1> USE DEF Moves
<1>1. TypeOK'
  BY DEF IInv, TypeOK, wlock, PCs, InWait, WritePC, BiasPC, wait_lock
<1> QED BY <1>1, WaitStep, Recount, ExclusionStep DEF IInv

-----------------------------------------------------------------------------
(* The parts of the counter, and what each test on it tells the caller. *)
LEMMA Tests ==
    ASSUME IInv
    PROVE  /\ cnts \in Nat
           /\ WMask(cnts) = 0 => At(WritePC) = {}
           /\ WMask(cnts + _QR_BIAS) = 0 => At(WritePC) = {}
           /\ WLocked(cnts) = 0 => At(WritePC) = {}
           /\ cnts \in {0, _QW_WAITING} => At(WritePC) = {} /\ At(ReadPC) = {}
           /\ At(WritePC) # {} => (cnts \div 256) * 256 = cnts - 255
           /\ At(BiasPC) # {} => cnts - 512 \in Nat
           /\ At(WritePC) # {} => cnts - 255 \in Nat
<1> DEFINE R == Cardinality(At(BiasPC))
           W == Cardinality(At(FlagPC))
           L == Cardinality(At(WritePC))
<1>1. R \in Nat /\ W \in 0 .. 1 /\ L \in 0 .. 1
  BY Counts
<1>2. cnts = 512 * R + 256 * W + 255 * L /\ cnts \in Nat
  BY DEF IInv, TypeOK, CntsExact, _QR_BIAS, _QW_WAITING, _QW_LOCKED
<1>3. (L = 0 => At(WritePC) = {}) /\ (R = 0 => At(BiasPC) = {})
  BY NobodyAt
<1>4. At(BiasPC) = {} => At(ReadPC) = {}
  BY DEF At, BiasPC, ReadPC
<1> HIDE DEF R, W, L
<1>5. /\ cnts % 512 = 0 => L = 0
      /\ (cnts + 512) % 512 = 0 => L = 0
      /\ cnts % 256 = 0 => L = 0
      /\ cnts = 0 => R = 0 /\ L = 0
      /\ cnts = 256 => R = 0 /\ L = 0
      /\ L = 1 => (cnts \div 256) * 256 = cnts - 255
  BY <1>1, <1>2, Masks
<1>6. /\ At(WritePC) # {} => L = 1
      /\ At(BiasPC) # {} => R >= 1
  BY <1>1, <1>3
<1>7. At(BiasPC) # {} => cnts - 512 \in Nat
  BY <1>1, <1>2, <1>6
<1>8. At(WritePC) # {} => cnts - 255 \in Nat
  BY <1>1, <1>2, <1>6
<1> QED BY <1>2, <1>3, <1>4, <1>5, <1>6, <1>7, <1>8
        DEF WMask, WLocked, _QR_BIAS, _QW_WAITING

(* The places, for the leaves below. *)
LEMMA ReaderAdds ==
    ASSUME IInv, NEW p \in Cpus, NEW fail,
           \/ pc[p] = "idle" /\ fail = "r_sub"
           \/ pc[p] = "rt_add" /\ fail = "rt_undo",
           AddReader(p, fail)
    PROVE  IInv'
<1>0. PICK x : x = IF WMask(cnts + _QR_BIAS) = 0 THEN "reading" ELSE fail
  OBVIOUS
<1>1. cnts' = cnts + 512 /\ pc' = [pc EXCEPT ![p] = x] /\ UNCHANGED wlock
  BY <1>0 DEF AddReader, Goto, _QR_BIAS
<1>2. /\ x \in {"reading", "r_sub", "rt_undo"}
      /\ x = "reading" => At(WritePC) = {}
  BY <1>0, Tests
<1>3. /\ In(x, BiasPC) = 1 /\ In(x, FlagPC) = 0 /\ In(x, WritePC) = 0
      /\ In(pc[p], BiasPC) = 0 /\ In(pc[p], FlagPC) = 0 /\ In(pc[p], WritePC) = 0
      /\ x \in PCs /\ x \notin WritePC
      /\ x \notin InWait /\ pc[p] \notin InWait
  BY <1>2 DEF In, BiasPC, FlagPC, WritePC, PCs, InWait
<1>4. x \in ReadPC => At(WritePC) = {}
  BY <1>2 DEF ReadPC
<1>5. cnts \in Nat
  BY DEF IInv, TypeOK
<1>6. Balanced(p, x) /\ cnts' \in Nat
  BY <1>1, <1>3, <1>5 DEF Balanced
<1>7. Moves(p, x)
  BY <1>1, <1>3, <1>4, <1>6 DEF Moves
<1> QED BY <1>7, CounterStep

LEMMA ReaderSubtracts ==
    ASSUME IInv, NEW p \in Cpus, NEW from \in {"rt_undo", "r_sub", "reading"},
           NEW to \in {"idle", "r_wait"}, SubReader(p, from, to)
    PROVE  IInv'
<1>1. cnts' = cnts - 512 /\ pc' = [pc EXCEPT ![p] = to] /\ UNCHANGED wlock /\ pc[p] = from
  BY DEF SubReader, Goto, _QR_BIAS
<1>2. /\ In(to, BiasPC) = 0 /\ In(to, FlagPC) = 0 /\ In(to, WritePC) = 0
      /\ In(pc[p], BiasPC) = 1 /\ In(pc[p], FlagPC) = 0 /\ In(pc[p], WritePC) = 0
      /\ to \in PCs /\ to \notin WritePC /\ to \notin ReadPC
      /\ to \notin InWait /\ pc[p] \notin InWait
  BY <1>1 DEF In, BiasPC, FlagPC, WritePC, ReadPC, PCs, InWait
<1>3. p \in At(BiasPC)
  BY <1>1 DEF At, BiasPC
<1>4. cnts \in Nat /\ cnts - 512 \in Nat
  BY <1>3, Tests
<1>5. Balanced(p, to)
  BY <1>1, <1>2, <1>4 DEF Balanced
<1>6. cnts' \in Nat
  BY <1>1, <1>4
<1>7. Moves(p, to)
  BY <1>1, <1>2, <1>5, <1>6 DEF Moves
<1> QED BY <1>7, CounterStep

(* A write claim: cmpxchg from a value that says nobody is there. *)
LEMMA WriterClaims ==
    ASSUME IInv, NEW p \in Cpus, NEW old, NEW won, NEW lost,
           \/ pc[p] = "idle" /\ old = 0 /\ won = "writing" /\ lost \in {"idle", "w_wait"}
           \/ pc[p] = "w_try" /\ old = 0 /\ won = "w_unlock" /\ lost = "w_add"
           \/ pc[p] = "w_claim" /\ old = 256 /\ won = "w_unlock" /\ lost = "w_spin",
           Claim(p, old, won, lost)
    PROVE  IInv'
<1>0. PICK x : x = IF cnts = old THEN won ELSE lost
  OBVIOUS
<1>1. /\ cnts' = (IF cnts = old THEN 255 ELSE cnts)
      /\ pc' = [pc EXCEPT ![p] = x] /\ UNCHANGED wlock
  BY <1>0 DEF Claim, Goto, _QW_LOCKED
<1>2. cnts \in Nat /\ (cnts = old => At(WritePC) = {} /\ At(ReadPC) = {})
  BY Tests DEF _QW_WAITING
<1>3. CASE cnts = old
  <2>1. x = won /\ cnts' = 255
    BY <1>0, <1>1, <1>3
  <2>2. /\ In(x, BiasPC) = 0 /\ In(x, FlagPC) = 0 /\ In(x, WritePC) = 1
        /\ In(pc[p], BiasPC) = 0 /\ In(pc[p], FlagPC) = (IF old = 256 THEN 1 ELSE 0)
        /\ In(pc[p], WritePC) = 0
        /\ x \in PCs /\ x \notin ReadPC
        /\ x \in InWait <=> pc[p] \in InWait
    BY <2>1 DEF In, BiasPC, FlagPC, WritePC, ReadPC, PCs, InWait
  <2>3. Balanced(p, x)
    BY <1>3, <2>1, <2>2 DEF Balanced
  <2>4. At(WritePC) \subseteq {p} /\ At(ReadPC) \subseteq {p}
    BY <1>2, <1>3
  <2>5. cnts' \in Nat
    BY <2>1
  <2>6. Moves(p, x)
    BY <1>1, <2>2, <2>3, <2>4, <2>5 DEF Moves
  <2> QED BY <2>6, CounterStep
<1>4. CASE cnts # old
  <2>1. x = lost /\ cnts' = cnts
    BY <1>0, <1>1, <1>4
  <2>2. /\ In(x, BiasPC) = 0 /\ In(pc[p], BiasPC) = 0
        /\ In(x, WritePC) = 0 /\ In(pc[p], WritePC) = 0
        /\ In(x, FlagPC) = In(pc[p], FlagPC) /\ In(x, FlagPC) \in Int
        /\ x \in PCs /\ x \notin ReadPC /\ x \notin WritePC
        /\ x \in InWait <=> pc[p] \in InWait
    BY <2>1 DEF In, BiasPC, FlagPC, WritePC, ReadPC, PCs, InWait
  <2>3. Balanced(p, x)
    BY <1>2, <2>1, <2>2 DEF Balanced
  <2>4. Moves(p, x)
    BY <1>1, <1>2, <2>1, <2>2, <2>3 DEF Moves
  <2> QED BY <2>4, CounterStep
<1> QED BY <1>3, <1>4

(* The other steps on the counter, and the spins that only read it. *)
LEMMA OtherSteps ==
    ASSUME IInv, NEW p \in Cpus,
           \/ queued_read_trylock(p) \/ ReadSlowAdd(p) \/ ReadSlowSpin(p)
           \/ WriteSlowAdd(p) \/ WriteSlowSpin(p) \/ queued_write_unlock(p)
    PROVE  IInv'
<1> USE DEF In, BiasPC, FlagPC, WritePC, ReadPC, PCs, InWait, Goto, Balanced
<1>0. cnts \in Nat
  BY DEF IInv, TypeOK
<1>1. CASE queued_read_trylock(p)
  <2>1. Moves(p, "rt_add")
    BY <1>0, <1>1 DEF queued_read_trylock, Moves
  <2> QED BY <2>1, CounterStep
<1>2. CASE ReadSlowAdd(p)
  <2>1. Moves(p, "r_spin")
    BY <1>0, <1>2 DEF ReadSlowAdd, Moves, _QR_BIAS
  <2> QED BY <2>1, CounterStep
<1>3. CASE ReadSlowSpin(p)
  <2>1. At(WritePC) = {}
    BY <1>3, Tests DEF ReadSlowSpin
  <2>2. Moves(p, "r_unlock")
    BY <1>0, <1>3, <2>1 DEF ReadSlowSpin, Moves
  <2> QED BY <2>2, CounterStep
<1>4. CASE WriteSlowAdd(p)
  <2>1. Moves(p, "w_spin")
    BY <1>0, <1>4 DEF WriteSlowAdd, Moves, _QW_WAITING
  <2> QED BY <2>1, CounterStep
<1>5. CASE WriteSlowSpin(p)
  <2>1. Moves(p, "w_claim")
    BY <1>0, <1>5 DEF WriteSlowSpin, Moves
  <2> QED BY <2>1, CounterStep
<1>6. CASE queued_write_unlock(p)
  <2>1. p \in At(WritePC)
    BY <1>6 DEF queued_write_unlock, At
  <2>2. cnts - 255 \in Nat /\ (cnts \div 256) * 256 = cnts - 255
    BY <2>1, Tests
  <2>3. Moves(p, "idle")
    BY <1>0, <1>6, <2>2 DEF queued_write_unlock, Moves
  <2> QED BY <2>3, CounterStep
<1> QED BY <1>1, <1>2, <1>3, <1>4, <1>5, <1>6

(* Lining up for wait_lock, taking it and giving it back: exactly the owner is
   between the two, because WL lets only one CPU in. *)
LEMMA WaitLockSteps ==
    ASSUME IInv, NEW p \in Cpus, WaitLock(p) \/ WaitUnlock(p)
    PROVE  IInv'
<1> USE DEF wait_lock
<1>0. /\ pc \in [Cpus -> PCs] /\ wheld \in [Cpus -> SUBSET {wait_lock}]
      /\ wpend \in [{wait_lock} -> Cpus \cup {None}]
      /\ wqueue \in [{wait_lock} -> Seq(Cpus)] /\ cnts \in Nat
  BY DEF IInv, TypeOK
<1>1. ASSUME NEW x \in PCs, pc' = [pc EXCEPT ![p] = x], cnts' = cnts,
             x \in BiasPC <=> pc[p] \in BiasPC, x \in FlagPC <=> pc[p] \in FlagPC,
             x \in WritePC <=> pc[p] \in WritePC, x \in ReadPC => pc[p] \in ReadPC
      PROVE  CntsExact' /\ RwExclusion'
  <2>1. Balanced(p, x)
    BY <1>0, <1>1 DEF Balanced, In
  <2>2. x \in ReadPC => At(WritePC) = {}
    BY <1>1 DEF IInv, RwExclusion, At
  <2>3. x \in WritePC => At(WritePC) \subseteq {p} /\ At(ReadPC) \subseteq {p}
    BY <1>1 DEF IInv, RwExclusion, At
  <2> QED BY <1>1, <2>1, <2>2, <2>3, Recount, ExclusionStep
<1>2. CASE /\ WL!Pend(p, wait_lock) \/ WL!Enqueue(p, wait_lock)
           /\ UNCHANGED <<pc, cnts>>
  <2>1. /\ wheld' = wheld
        /\ wpend' \in [{wait_lock} -> Cpus \cup {None}]
        /\ wqueue' \in [{wait_lock} -> Seq(Cpus)]
    <3>1. CASE WL!Pend(p, wait_lock)
      BY <1>0, <3>1 DEF WL!Pend
    <3>2. CASE WL!Enqueue(p, wait_lock)
      <4>1. Append(wqueue[wait_lock], p) \in Seq(Cpus)
        BY <1>0
      <4> QED BY <1>0, <3>2, <4>1 DEF WL!Enqueue
    <3> QED BY <1>2, <3>1, <3>2
  <2>2. TypeOK'
    BY <1>0, <1>2, <2>1 DEF TypeOK, PCs, InWait, WritePC, BiasPC
  <2>3. WaitOwner'
    BY <1>2, <2>1 DEF IInv, WaitOwner, InWait
  <2>4. CntsExact' /\ RwExclusion'
    BY <1>2 DEF IInv, CntsExact, RwExclusion, At, BiasPC, FlagPC, WritePC, ReadPC,
                _QR_BIAS, _QW_WAITING, _QW_LOCKED
  <2> QED BY <2>2, <2>3, <2>4 DEF IInv
<1>3. ASSUME NEW x \in {"r_add", "w_try"}, pc[p] \in {"r_wait", "w_wait"},
             \/ WL!Barge(p, wait_lock) \/ WL!TakePend(p, wait_lock)
             \/ WL!TakeHead(p, wait_lock),
             pc' = [pc EXCEPT ![p] = x], UNCHANGED cnts
      PROVE  IInv'
  <2>1. /\ \A q \in Cpus : wait_lock \notin wheld[q]
        /\ wheld' = [wheld EXCEPT ![p] = @ \cup {wait_lock}]
    BY <1>3 DEF WL!Barge, WL!TakePend, WL!TakeHead, WL!Take, WL!Free
  <2>2. /\ wpend' \in [{wait_lock} -> Cpus \cup {None}]
        /\ wqueue' \in [{wait_lock} -> Seq(Cpus)]
    <3>1. CASE WL!Barge(p, wait_lock)
      BY <1>0, <3>1 DEF WL!Barge
    <3>2. CASE WL!TakePend(p, wait_lock)
      BY <1>0, <3>2 DEF WL!TakePend
    <3>3. CASE WL!TakeHead(p, wait_lock)
      <4>1. Tail(wqueue[wait_lock]) \in Seq(Cpus)
        BY <1>0, <3>3 DEF WL!TakeHead
      <4> QED BY <1>0, <3>3, <4>1 DEF WL!TakeHead
    <3> QED BY <1>3, <3>1, <3>2, <3>3
  <2>3. TypeOK'
    BY <1>0, <1>3, <2>1, <2>2 DEF TypeOK, PCs, InWait, WritePC, BiasPC
  <2>4. WaitOwner'
    <3>1. /\ pc'[p] = x /\ wait_lock \in wheld'[p] /\ pc'[p] \in InWait
          /\ \A q \in Cpus : q # p => pc'[q] = pc[q] /\ wheld'[q] = wheld[q]
      BY <1>0, <1>3, <2>1 DEF InWait
    <3> QED BY <2>1, <3>1 DEF IInv, WaitOwner, InWait
  <2>5. CntsExact' /\ RwExclusion'
    <3>1. /\ x \in PCs
          /\ x \notin BiasPC /\ x \notin FlagPC /\ x \notin WritePC /\ x \notin ReadPC
          /\ pc[p] \notin BiasPC /\ pc[p] \notin FlagPC /\ pc[p] \notin WritePC
      BY <1>3 DEF PCs, InWait, BiasPC, FlagPC, WritePC, ReadPC
    <3> QED BY <1>1, <1>3, <3>1
  <2> QED BY <2>3, <2>4, <2>5 DEF IInv
<1>4. ASSUME NEW x \in {"reading", "writing"},
             pc[p] = IF x = "reading" THEN "r_unlock" ELSE "w_unlock",
             WL!Unlock(p, wait_lock), pc' = [pc EXCEPT ![p] = x], UNCHANGED cnts
      PROVE  IInv'
  <2>1. /\ wheld' = [wheld EXCEPT ![p] = @ \ {wait_lock}]
        /\ UNCHANGED <<wpend, wqueue>>
    BY <1>4 DEF WL!Unlock
  <2>2. TypeOK'
    BY <1>0, <1>4, <2>1 DEF TypeOK, PCs, InWait, WritePC, BiasPC
  <2>3. WaitOwner'
    <3>1. /\ pc'[p] = x /\ wait_lock \notin wheld'[p] /\ pc'[p] \notin InWait
          /\ \A q \in Cpus : q # p => pc'[q] = pc[q] /\ wheld'[q] = wheld[q]
      BY <1>0, <1>4, <2>1 DEF InWait
    <3> QED BY <2>1, <3>1 DEF IInv, WaitOwner, InWait
  <2>4. CntsExact' /\ RwExclusion'
    <3>1. /\ x \in PCs
          /\ x \in BiasPC <=> pc[p] \in BiasPC
          /\ x \in FlagPC <=> pc[p] \in FlagPC
          /\ x \in WritePC <=> pc[p] \in WritePC
          /\ x \in ReadPC => pc[p] \in ReadPC
      BY <1>4 DEF PCs, InWait, BiasPC, FlagPC, WritePC, ReadPC
    <3> QED BY <1>1, <1>4, <3>1
  <2> QED BY <2>2, <2>3, <2>4 DEF IInv
<1>5. CASE WaitLock(p)
  <2>0. PICK x : x = IF pc[p] = "r_wait" THEN "r_add" ELSE "w_try"
    OBVIOUS
  <2> QED BY <1>2, <1>3, <1>5, <2>0 DEF WaitLock, Goto
<1>6. CASE WaitUnlock(p)
  <2>0. PICK x : x = IF pc[p] = "r_unlock" THEN "reading" ELSE "writing"
    OBVIOUS
  <2>1. /\ x \in {"reading", "writing"}
        /\ pc[p] = IF x = "reading" THEN "r_unlock" ELSE "w_unlock"
    BY <1>6, <2>0 DEF WaitUnlock
  <2>2. WL!Unlock(p, wait_lock) /\ pc' = [pc EXCEPT ![p] = x] /\ UNCHANGED cnts
    BY <1>6, <2>0 DEF WaitUnlock, Goto
  <2> QED BY <1>4, <2>1, <2>2
<1> QED BY <1>5, <1>6

-----------------------------------------------------------------------------
(* The inductive invariant holds in every state of every behaviour. *)
THEOREM RwInvariance == Spec => []IInv
<1>1. Init => IInv
  <2> SUFFICES ASSUME Init PROVE IInv
    OBVIOUS
  <2>1. \A S \in {BiasPC, FlagPC, WritePC, ReadPC} : At(S) = {}
    BY DEF Init, At, BiasPC, FlagPC, WritePC, ReadPC
  <2>2. /\ At(BiasPC) = {} /\ At(FlagPC) = {} /\ At(WritePC) = {}
        /\ Cardinality(At(BiasPC)) = 0 /\ Cardinality(At(FlagPC)) = 0
        /\ Cardinality(At(WritePC)) = 0
    BY <2>1, FS_EmptySet
  <2>3. CntsExact /\ RwExclusion
    BY <2>2 DEF Init, CntsExact, RwExclusion, _QR_BIAS, _QW_WAITING, _QW_LOCKED
  <2>4. TypeOK
    BY DEF Init, WL!Init, TypeOK, PCs, wait_lock
  <2>5. WaitOwner
    BY DEF Init, WL!Init, WaitOwner, InWait, wait_lock
  <2> QED BY <2>3, <2>4, <2>5 DEF IInv
<1>2. IInv /\ [Next]_vars => IInv'
  <2> SUFFICES ASSUME IInv, [Next]_vars PROVE IInv'
    OBVIOUS
  <2>1. CASE UNCHANGED vars
    BY <2>1 DEF vars, IInv, TypeOK, WaitOwner, CntsExact, RwExclusion, At, InWait, BiasPC,
                FlagPC, WritePC, ReadPC, _QR_BIAS, _QW_WAITING, _QW_LOCKED, wait_lock, PCs
  <2>2. ASSUME NEW p \in Cpus, Start(p) PROVE IInv'
    <3>1. CASE queued_read_lock(p)
      BY <3>1, ReaderAdds DEF queued_read_lock
    <3>2. CASE queued_read_trylock(p)
      BY <3>2, OtherSteps
    <3>3. CASE queued_write_lock(p)
      BY <3>3, WriterClaims DEF queued_write_lock
    <3>4. CASE queued_write_trylock(p)
      BY <3>4, WriterClaims DEF queued_write_trylock
    <3> QED BY <2>2, <3>1, <3>2, <3>3, <3>4 DEF Start
  <2>3. ASSUME NEW p \in Cpus, Continue(p) PROVE IInv'
    <3>1. CASE ReadTryAdd(p)
      BY <3>1, ReaderAdds DEF ReadTryAdd
    <3>2. CASE ReadTryUndo(p) \/ ReadSlowSub(p)
      BY <3>2, ReaderSubtracts DEF ReadTryUndo, ReadSlowSub
    <3>3. CASE ReadSlowAdd(p) \/ ReadSlowSpin(p) \/ WriteSlowAdd(p) \/ WriteSlowSpin(p)
      BY <3>3, OtherSteps
    <3>4. CASE WriteSlowTry(p)
      BY <3>4, WriterClaims DEF WriteSlowTry
    <3>5. CASE WriteSlowClaim(p)
      BY <3>5, WriterClaims DEF WriteSlowClaim, _QW_WAITING
    <3>6. CASE WaitLock(p) \/ WaitUnlock(p)
      BY <3>6, WaitLockSteps
    <3> QED BY <2>3, <3>1, <3>2, <3>3, <3>4, <3>5, <3>6 DEF Continue
  <2>4. ASSUME NEW p \in Cpus, Unlock(p) PROVE IInv'
    <3>1. CASE queued_read_unlock(p)
      BY <3>1, ReaderSubtracts DEF queued_read_unlock
    <3>2. CASE queued_write_unlock(p)
      BY <3>2, OtherSteps
    <3> QED BY <2>4, <3>1, <3>2 DEF Unlock
  <2> QED BY <2>1, <2>2, <2>3, <2>4 DEF Next
<1> QED BY <1>1, <1>2, PTL DEF Spec

(* Type correctness of the model. *)
THEOREM RwTypeCorrect == Spec => []TypeOK
<1>1. IInv => TypeOK
  BY DEF IInv
<1> QED BY <1>1, RwInvariance, PTL

(* Writers exclude each other and the readers, for any number of CPUs. *)
THEOREM RwExcludes == Spec => []RwExclusion
<1>1. IInv => RwExclusion
  BY DEF IInv
<1> QED BY <1>1, RwInvariance, PTL

(* The counter holds exactly one bias per reader present, the waiting flag and the
   locked byte: nothing the slow paths and the trylocks add is left behind. *)
THEOREM RwCntsExact == Spec => []CntsExact
<1>1. IInv => CntsExact
  BY DEF IInv
<1> QED BY <1>1, RwInvariance, PTL
=============================================================================
