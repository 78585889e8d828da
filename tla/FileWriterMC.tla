---------------------------- MODULE FileWriterMC ----------------------------
(***************************************************************************)
(* Five events over two files, two callers.                                *)
(***************************************************************************)
EXTENDS FileWriter

MCFileOf == [e \in 1 .. MaxEvents |-> IF e % 3 = 0 THEN "f2" ELSE "f1"]
=============================================================================
