---------------------------- MODULE MCSharedDB ----------------------------
(* The program's three writers: the tasks Engines and Main write component  *)
(* 1 ("Engines"), Loop writes component 2 ("PositionLoop").                 *)
EXTENDS SharedDB

MCWriter == {"Engines", "Main", "Loop"}
MCCompOf == [w \in MCWriter |-> IF w = "Loop" THEN 2 ELSE 1]
=============================================================================
