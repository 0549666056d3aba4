--------------------------- MODULE MCParticiones ---------------------------
(***************************************************************************)
(* Instances of Particiones for TLC, in a memory of 8.  The sizes give     *)
(* exact fits, remainders, a message below the minimum and messages that   *)
(* need several victims.  Every algorithm is in some configuration.        *)
(***************************************************************************)
EXTENDS Particiones

Dinamica(libre, reemplazo, frecuencia) ==
  [memoria |-> "PARTICIONES", libre |-> libre, reemplazo |-> reemplazo,
   frecuencia |-> frecuencia, minimo |-> 2, tamanios |-> {1, 3, 5}]

Buddy(reemplazo) ==
  [memoria |-> "BS", libre |-> "FF", reemplazo |-> reemplazo,
   frecuencia |-> 1, minimo |-> 1, tamanios |-> {1, 2, 3, 8}]

Todas ==
  {Dinamica("FF", "FIFO", 1), Dinamica("BF", "LRU", 2), Dinamica("FF", "LRU", -1),
   Dinamica("BF", "FIFO", 1), Buddy("LRU"), Buddy("FIFO")}

SoloBuddy == {Buddy("FIFO")}
=============================================================================
