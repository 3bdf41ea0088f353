------------------------------ MODULE MCVmalloc ------------------------------
(* An instance of Vmalloc for TLC. *)
EXTENDS Vmalloc

MCEarly == << <<4, 5>>, <<1, 2>> >>
MCOffsets == <<0, 2>>
MCSizes == <<1, 1>>

(* vmalloc of two pages and their guard, an ioremap area aligned to its size, and an
   area in the upper part of the range only. *)
MCRequest ==
    { [size |-> 3, align |-> 1, start |-> VMALLOC_START, end |-> VMALLOC_END, populate |-> TRUE],
      [size |-> 1, align |-> 1, start |-> VMALLOC_START, end |-> VMALLOC_END, populate |-> FALSE],
      [size |-> 2, align |-> 2, start |-> VMALLOC_START + 2, end |-> VMALLOC_END, populate |-> FALSE] }
=============================================================================
