----------------------------- MODULE TraceEvents -----------------------------
(***************************************************************************)
(* The events offered to a trace writer, numbered in the order of the      *)
(* write() calls, and the JSONL file each one's row belongs to.            *)
(***************************************************************************)
EXTENDS Naturals

CONSTANTS
    MaxEvents,   \* bound: how many write() calls a behaviour makes
    Files,       \* the JSONL files rows go to
    FileOf       \* FileOf[e]: the file of event e (its run's, or options.filePath)

Ids == 1 .. MaxEvents

ASSUME EventsAssumption ==
    /\ MaxEvents \in Nat
    /\ FileOf \in [Ids -> Files]
=============================================================================
