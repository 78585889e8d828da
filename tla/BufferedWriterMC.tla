-------------------------- MODULE BufferedWriterMC --------------------------
(***************************************************************************)
(* Five events over two files, a queue of three, batches of two: while one *)
(* event is being appended, three fill the queue and the next one meets a  *)
(* full queue.                                                             *)
(***************************************************************************)
EXTENDS BufferedWriter

MCFileOf == [e \in 1 .. MaxEvents |-> IF e % 3 = 0 THEN "f2" ELSE "f1"]
=============================================================================
