-------------------------- MODULE DataStreamReader --------------------------
(***************************************************************************)
(* The reactor of DataStreamUpload: it reads until a read fails, then puts   *)
(* the number of blocks into the result and finishes; OnCancel does the same *)
(* from its own thread.                                                      *)
(***************************************************************************)
EXTENDS ServerStream

VARIABLES
    received,    \* m_numberOfDataBlocksReceived
    readStatus,  \* m_readStatus's code
    result,      \* *m_result
    readPc,      \* where the reaction to a read is
    cancelPc     \* where OnCancel is

vars == <<streamVars, received, readStatus, result, readPc, cancelPc>>

Codes == {"unknown", "succeeded", "canceled"}

TypeOK ==
    /\ StreamTypeOK
    /\ received \in 0 .. MaxBlocks /\ readStatus \in Codes
    /\ result \in [blocks : 0 .. MaxBlocks, status : Codes]
    /\ readPc \in {"idle", "read", "ended", "finish"}
    /\ cancelPc \in {"none", "canceled", "finish", "returned"}

\* The constructor starts the first read.
Init ==
    /\ StreamInit(1, 0)
    /\ received = 0 /\ readStatus = "unknown"
    /\ result = [blocks |-> 0, status |-> "unknown"]
    /\ readPc = "idle" /\ cancelPc = "none"

-----------------------------------------------------------------------------
(* OnReadDone.                                                               *)

OnReadDone(ok) ==
    /\ readPc = "idle" /\ ReadCompletes(ok)
    /\ readPc' = IF ok THEN "read" ELSE "ended"
    /\ UNCHANGED <<outVars, clientVars, finishes, done, received,
                   readStatus, result, cancelPc>>

CountAndReadOn ==
    /\ Live /\ readPc = "read" /\ readPc' = "idle"
    /\ received' = received + 1
    /\ readStatus' = "succeeded"
    /\ StartRead
    /\ UNCHANGED <<outVars, readBlocks, clientVars, finishes, done,
                   result, cancelPc>>

\* (mutant) the status is left out of the result
SetBlocksOnly(code) ==
    /\ result' = [result EXCEPT !.blocks = received]
    /\ readStatus' = "unknown"

\* The status is moved into the result, which leaves m_readStatus empty.
SetResult(code) ==
    /\ result' = [blocks |-> received, status |-> code]
    /\ readStatus' = "unknown"

\* (mutant) an upload without blocks is not finished
ReadsEndedWithBlocks ==
    /\ Live /\ readPc = "ended"
    /\ readPc' = IF received > 0 THEN "finish" ELSE "idle"
    /\ SetResult(readStatus)
    /\ UNCHANGED <<streamVars, received, cancelPc>>

\* (mutant) the failed read is counted
ReadsEndedCounting ==
    /\ Live /\ readPc = "ended" /\ readPc' = "finish"
    /\ received' = received + 1
    /\ SetResult(readStatus)
    /\ UNCHANGED <<streamVars, cancelPc>>

ReadsEnded ==
    /\ Live /\ readPc = "ended" /\ readPc' = "finish"
    /\ SetResult(readStatus)
    /\ UNCHANGED <<streamVars, received, cancelPc>>

\* (mutant) the next read is started whether or not the last one succeeded
FinishAndReadOn ==
    /\ Live /\ readPc = "finish" /\ readPc' = "idle"
    /\ Finish /\ StartRead
    /\ UNCHANGED <<outVars, readBlocks, clientVars, done,
                   received, readStatus, result, cancelPc>>

FinishRead ==
    /\ Live /\ readPc = "finish" /\ readPc' = "idle"
    /\ Finish
    /\ UNCHANGED <<reads, outVars, readBlocks, clientVars, done,
                   received, readStatus, result, cancelPc>>

-----------------------------------------------------------------------------
(* OnCancel and OnDone.                                                      *)

OnCancel ==
    /\ CancelNotified /\ cancelPc = "none" /\ cancelPc' = "finish"
    /\ SetResult("canceled")
    /\ UNCHANGED <<streamVars, received, readPc>>

FinishCanceled ==
    /\ Live /\ cancelPc = "finish" /\ cancelPc' = "returned"
    /\ Finish
    /\ UNCHANGED <<reads, outVars, readBlocks, clientVars, done,
                   received, readStatus, result, readPc>>

OnDone ==
    /\ AllDone /\ readPc = "idle" /\ cancelPc \in {"none", "returned"}
    /\ UNCHANGED <<reads, outVars, readBlocks, clientVars, finishes,
                   received, readStatus, result, readPc, cancelPc>>

Client == StreamEnvironment /\ UNCHANGED <<received, readStatus, result, readPc, cancelPc>>

ReadReaction ==
    (\E ok \in BOOLEAN : OnReadDone(ok)) \/ CountAndReadOn \/ ReadsEnded \/ FinishRead

CancelReaction == OnCancel \/ FinishCanceled

Next == ReadReaction \/ CancelReaction \/ OnDone \/ Client
=============================================================================
