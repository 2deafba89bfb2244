---------------------------- MODULE ServerStream ----------------------------
(***************************************************************************)
(* The gRPC callback server as one streaming RPC's reactor sees it (external *)
(* code, taken from how NetRemoteDataStreamingReactors.cxx uses it).         *)
(*                                                                          *)
(* A reactor starts reads and writes and is told when one is done, and       *)
(* whether it succeeded; it ends the RPC with Finish.  The reactions to a    *)
(* read, to a write and to a cancelled RPC run on different threads.  A call *)
(* that dies (cancelled by the client, or its connection lost) fails what is *)
(* outstanding and has OnCancel called, in any order.  A write started after *)
(* Finish fails; a second Finish aborts the server.                          *)
(***************************************************************************)
EXTENDS Integers, Sequences

CONSTANTS
    MaxBlocks,      \* bound: blocks the client sends, or takes
    MayBreak        \* whether the call can die

ASSUME StreamAssumption == MaxBlocks \in Nat /\ MayBreak \in BOOLEAN

VARIABLES
    reads,       \* reads outstanding
    writes,      \* writes outstanding
    doomed,      \* the outstanding write was started too late to be sent
    late,        \* history: writes started after Finish
    sentBlocks,  \* blocks the client has sent
    readBlocks,  \* blocks delivered to the reactor
    halfClosed,  \* the client will send no more
    broken,      \* the call has died
    finishes,    \* calls of Finish
    done         \* OnDone was called, the reactor is deleted

clientVars == <<sentBlocks, halfClosed, broken>>
outVars == <<writes, doomed, late>>
streamVars == <<reads, outVars, readBlocks, clientVars, finishes, done>>

StreamTypeOK ==
    /\ reads \in Nat /\ writes \in Nat /\ finishes \in Nat
    /\ sentBlocks \in 0 .. MaxBlocks /\ readBlocks \in 0 .. sentBlocks
    /\ doomed \in BOOLEAN /\ late \in Nat /\ halfClosed \in BOOLEAN
    /\ broken \in BOOLEAN /\ done \in BOOLEAN

\* The RPC once the reactor's constructor has started r reads and w writes.
StreamInit(r, w) ==
    /\ reads = r /\ writes = w /\ doomed = FALSE /\ late = 0
    /\ sentBlocks = 0 /\ readBlocks = 0 /\ halfClosed = FALSE /\ broken = FALSE
    /\ finishes = 0 /\ done = FALSE

\* The reactor exists and the server has not aborted.
Live == ~done /\ finishes < 2

-----------------------------------------------------------------------------
(* What a reactor calls.                                                     *)

StartRead == reads' = reads + 1

StartWrite ==
    /\ writes' = writes + 1
    /\ doomed' = (broken \/ finishes > 0)
    /\ late' = IF finishes > 0 THEN late + 1 ELSE late

Finish == finishes' = finishes + 1

-----------------------------------------------------------------------------
(* When a reaction starts; the reactors' modules say what it does.           *)

ReadCompletes(ok) ==
    /\ Live /\ reads > 0
    /\ IF ok THEN readBlocks < sentBlocks /\ readBlocks' = readBlocks + 1
             ELSE /\ (halfClosed /\ readBlocks = sentBlocks) \/ broken \/ finishes > 0
                  /\ UNCHANGED readBlocks
    /\ reads' = reads - 1

WriteCompletes(ok) ==
    /\ Live /\ writes > 0
    /\ ok => ~doomed
    /\ ~ok => broken \/ finishes > 0
    /\ writes' = writes - 1 /\ doomed' = FALSE /\ UNCHANGED late

CancelNotified == Live /\ broken

\* Every reaction has returned and nothing is outstanding.
AllDone == Live /\ finishes > 0 /\ reads = 0 /\ writes = 0 /\ done' = TRUE

-----------------------------------------------------------------------------
(* What the client and the connection do.                                    *)

ClientSends ==
    /\ Live /\ ~halfClosed /\ ~broken
    /\ sentBlocks < MaxBlocks /\ sentBlocks' = sentBlocks + 1
    /\ UNCHANGED <<halfClosed, broken>>

ClientHalfCloses ==
    /\ Live /\ ~halfClosed /\ ~broken /\ halfClosed' = TRUE
    /\ UNCHANGED <<sentBlocks, broken>>

CallBreaks ==
    /\ Live /\ MayBreak /\ ~broken /\ broken' = TRUE
    /\ UNCHANGED <<sentBlocks, halfClosed>>

StreamEnvironment ==
    /\ ClientSends \/ ClientHalfCloses \/ CallBreaks
    /\ UNCHANGED <<reads, outVars, readBlocks, finishes, done>>
=============================================================================
