----------------------------- MODULE MCMemblock -----------------------------
(* Instances of Memblock for TLC: eight to twelve pages, small static arrays. *)
EXTENDS Memblock

(* All of memory and a part of it; the first pages and a part in the middle; a
   range whose flags change. *)
AllAndMiddle == {<<0, PHYS_ADDR_MAX>>, <<3, 2>>}
LowAndMiddle == {<<0, 2>>, <<4, 2>>}
InMiddle == {<<2, 2>>}
SecondPage == <<1, 1>>

(* Flags that cut memory into many regions *)
EveryOther == {<<2, 1>>, <<4, 1>>, <<6, 1>>}
All == {<<1, PHYS_ADDR_MAX>>}
=============================================================================
