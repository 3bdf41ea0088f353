------------------------------ MODULE MCPercpu ------------------------------
(* An instance of Percpu for TLC: pages of four bits, chunks of two pages. *)
EXTENDS Percpu

(* One bit, three bytes more than a bit aligned to two bits, three bits, five bits
   (always across pages) and a whole chunk. *)
MCRequests ==
    { [size |-> 4, align |-> 1],
      [size |-> 7, align |-> 8],
      [size |-> 12, align |-> 4],
      [size |-> 20, align |-> 4],
      [size |-> 32, align |-> 16] }
=============================================================================
