--------------------------- MODULE StreamContract ---------------------------
(***************************************************************************)
(* What the reactor of a streaming RPC keeps to towards the gRPC callback    *)
(* server: at most one read and one write outstanding, nothing outstanding   *)
(* when it is deleted, and one Finish while the call lives.  gRPC asks for    *)
(* one Finish always; of a call that has died the reactors of this service   *)
(* only promise not to finish it a third time.                               *)
(***************************************************************************)
EXTENDS Integers

VARIABLES reads, writes, broken, finishes, done

vars == <<reads, writes, broken, finishes, done>>

\* The constructor of the reactor makes the first calls.
Init ==
    /\ reads \in {0, 1} /\ writes \in {0, 1} /\ broken = FALSE
    /\ finishes = 0 /\ done = FALSE

StartRead ==
    ~done /\ reads = 0 /\ reads' = 1 /\ UNCHANGED <<writes, broken, finishes, done>>

StartWrite ==
    ~done /\ writes = 0 /\ writes' = 1 /\ UNCHANGED <<reads, broken, finishes, done>>

ReadDone == reads = 1 /\ reads' = 0 /\ UNCHANGED <<writes, broken, finishes, done>>

WriteDone == writes = 1 /\ writes' = 0 /\ UNCHANGED <<reads, broken, finishes, done>>

Finish ==
    /\ ~done /\ (finishes = 0 \/ (broken /\ finishes = 1))
    /\ finishes' = finishes + 1
    /\ UNCHANGED <<reads, writes, broken, done>>

CallBreaks ==
    ~done /\ ~broken /\ broken' = TRUE /\ UNCHANGED <<reads, writes, finishes, done>>

Done ==
    /\ ~done /\ finishes = 1 /\ reads = 0 /\ writes = 0 /\ done' = TRUE
    /\ UNCHANGED <<reads, writes, broken, finishes>>

Next ==
    StartRead \/ StartWrite \/ ReadDone \/ WriteDone \/ Finish \/ CallBreaks \/ Done

Spec == Init /\ [][Next]_vars
=============================================================================
