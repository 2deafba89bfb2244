-------------------------- MODULE DataStreamWriter --------------------------
(***************************************************************************)
(* The reactor of DataStreamDownload: it writes blocks one at a time until a *)
(* fixed number is written or the call dies.  A failure is reported in one   *)
(* final write, after which the RPC is finished.  OnCancel runs on another   *)
(* thread; the two share m_isCanceled and m_isCompleted.                     *)
(***************************************************************************)
EXTENDS ServerStream

CONSTANTS
    Requested      \* numbers of blocks a fixed stream may ask for

VARIABLES
    type,          \* the request's type; "invalid" if its properties do not fit
    pattern,       \* whether the request's pattern is one the writer knows
    blocks,        \* the number of blocks a fixed stream asks for
    toStream,      \* m_numberOfDataBlocksToStream
    written,       \* m_numberOfDataBlocksWritten, and m_data's sequence number
    status,        \* m_writeStatus's code
    isCanceled,    \* m_isCanceled
    isCompleted,   \* m_isCompleted
    writePc,       \* where the constructor, or the reaction to a write, is
    writeOk,       \* that reaction's isOk
    cancelPc,      \* where OnCancel is
    delivered,     \* history: sequence numbers of the blocks sent
    outcome        \* history: the status the RPC was first finished with

request == <<type, pattern, blocks>>
writerVars == <<toStream, written, status>>
flags == <<isCanceled, isCompleted>>
vars == <<streamVars, request, writerVars, flags, writePc, writeOk, cancelPc,
          delivered, outcome>>

TypeOK ==
    /\ StreamTypeOK
    /\ type \in {"fixed", "continuous", "invalid"} /\ pattern \in BOOLEAN
    /\ blocks \in Requested
    /\ toStream \in Nat /\ written \in Nat
    /\ status \in {"unknown", "succeeded", "failed"}
    /\ isCanceled \in BOOLEAN /\ isCompleted \in BOOLEAN
    /\ writePc \in {"construct", "idle", "written", "status", "next", "emit", "finish"}
    /\ writeOk \in BOOLEAN
    /\ cancelPc \in {"none", "canceled", "finish", "returned"}
    /\ delivered \in Seq(Nat)
    /\ outcome \in {"none", "OK", "CANCELLED"}

Init ==
    /\ StreamInit(0, 0)
    /\ type \in {"fixed", "continuous", "invalid"} /\ pattern \in BOOLEAN
    /\ blocks \in Requested
    /\ toStream = 0 /\ written = 0 /\ status = "unknown"
    /\ isCanceled = FALSE /\ isCompleted = FALSE
    /\ writePc = "construct" /\ writeOk = FALSE /\ cancelPc = "none"
    /\ delivered = <<>> /\ outcome = "none"

WriteAt(p) == Live /\ writePc = p

FinishWith(code) ==
    /\ Finish
    /\ outcome' = IF finishes = 0 THEN code ELSE outcome

-----------------------------------------------------------------------------
(* NextWrite and HandleFailure, on whichever thread runs the reaction.       *)

\* (mutant) one block too many
OneBlockMore(left) == type = "continuous" \/ (type = "fixed" /\ left >= 0)

MoreToWrite(left) == type = "continuous" \/ (type = "fixed" /\ left > 0)

\* (mutant) the status that tells OnWriteDone to finish is not set
HandleFailureQuietly ==
    /\ StartWrite
    /\ UNCHANGED <<status, finishes, outcome>>

\* One last write, that carries the failure.
HandleFailure ==
    /\ status' = "failed"
    /\ StartWrite
    /\ UNCHANGED <<finishes, outcome>>

\* (mutant) a block is numbered before it is counted
WriteNextUncounted(left) ==
    IF MoreToWrite(left) /\ pattern
      THEN StartWrite /\ UNCHANGED <<written, status, finishes, outcome>>
      ELSE FinishWith("OK") /\ UNCHANGED <<written, status, outVars>>

\* NextWrite past its look at m_isCanceled, with left blocks to stream.
WriteNextBlock(left) ==
    \/ /\ MoreToWrite(left) /\ pattern
       /\ written' = written + 1
       /\ StartWrite
       /\ UNCHANGED <<status, finishes, outcome>>
    \/ /\ MoreToWrite(left) /\ ~pattern
       /\ HandleFailure /\ UNCHANGED written
    \/ /\ ~MoreToWrite(left)
       /\ FinishWith("OK")
       /\ UNCHANGED <<written, status, outVars>>

-----------------------------------------------------------------------------
(* The constructor.  Nothing else runs before the reactor is returned.       *)

ConstructValid ==
    /\ WriteAt("construct") /\ type # "invalid"
    /\ toStream' = IF type = "fixed" THEN blocks ELSE 0
    /\ WriteNextBlock(toStream')
    /\ writePc' = "idle"
    /\ UNCHANGED <<reads, readBlocks, clientVars, done, request, flags, writeOk,
                   cancelPc, delivered>>

\* (mutant) the constructor goes on to NextWrite after a failure
ConstructInvalidGoesOn ==
    /\ WriteAt("construct") /\ type = "invalid"
    /\ status' = "failed"
    /\ writes' = writes + 2 /\ UNCHANGED <<doomed, late>>
    /\ writePc' = "idle"
    /\ UNCHANGED <<reads, readBlocks, clientVars, finishes, done, request, toStream,
                   written, flags, writeOk, cancelPc, delivered, outcome>>

ConstructInvalid ==
    /\ WriteAt("construct") /\ type = "invalid"
    /\ HandleFailure
    /\ writePc' = "idle"
    /\ UNCHANGED <<reads, readBlocks, clientVars, done, request, toStream,
                   written, flags, writeOk, cancelPc, delivered>>

-----------------------------------------------------------------------------
(* OnWriteDone.                                                              *)

\* The client takes at most MaxBlocks blocks of a continuous stream.
OnWriteDone(ok) ==
    /\ WriteAt("idle") /\ WriteCompletes(ok)
    /\ ok => Len(delivered) < MaxBlocks \/ status = "failed"
    /\ delivered' = IF ok /\ status # "failed" THEN Append(delivered, written) ELSE delivered
    /\ writeOk' = ok /\ writePc' = "written"
    /\ UNCHANGED <<reads, readBlocks, clientVars, finishes, done, request,
                   writerVars, flags, cancelPc, outcome>>

WriteSeesCancel ==
    /\ WriteAt("written")
    /\ writePc' = IF isCanceled THEN "idle" ELSE "status"
    /\ UNCHANGED <<streamVars, request, writerVars, flags, writeOk, cancelPc,
                   delivered, outcome>>

CompleteFailure ==
    /\ WriteAt("status") /\ status = "failed"
    /\ isCompleted' = TRUE
    /\ writePc' = IF isCompleted THEN "idle" ELSE "finish"
    /\ UNCHANGED <<streamVars, request, writerVars, isCanceled, writeOk,
                   cancelPc, delivered, outcome>>

FinishFailure ==
    /\ WriteAt("finish") /\ writePc' = "idle"
    /\ FinishWith("OK")
    /\ UNCHANGED <<reads, outVars, readBlocks, clientVars, done, request,
                   writerVars, flags, writeOk, cancelPc, delivered>>

CountWritten ==
    /\ WriteAt("status") /\ status # "failed" /\ writeOk
    /\ toStream' = IF type = "fixed" THEN toStream - 1 ELSE toStream
    /\ status' = "succeeded"
    /\ writePc' = "next"
    /\ UNCHANGED <<streamVars, request, written, flags, writeOk, cancelPc,
                   delivered, outcome>>

WriteFailed ==
    /\ WriteAt("status") /\ status # "failed" /\ ~writeOk
    /\ HandleFailure
    /\ writePc' = "idle"
    /\ UNCHANGED <<reads, readBlocks, clientVars, done, request, toStream,
                   written, flags, writeOk, cancelPc, delivered>>

NextSeesCancel ==
    /\ WriteAt("next")
    /\ writePc' = IF isCanceled THEN "idle" ELSE "emit"
    /\ UNCHANGED <<streamVars, request, writerVars, flags, writeOk, cancelPc,
                   delivered, outcome>>

Emit ==
    /\ WriteAt("emit") /\ writePc' = "idle"
    /\ WriteNextBlock(toStream)
    /\ UNCHANGED <<reads, readBlocks, clientVars, done, request, toStream,
                   flags, writeOk, cancelPc, delivered>>

-----------------------------------------------------------------------------
(* OnCancel, called once the server has the reactor; OnDone.                 *)

OnCancel ==
    /\ CancelNotified /\ writePc # "construct" /\ cancelPc = "none"
    /\ isCanceled' = TRUE
    /\ cancelPc' = "canceled"
    /\ UNCHANGED <<streamVars, request, writerVars, isCompleted, writePc,
                   writeOk, delivered, outcome>>

CancelSeesCompleted ==
    /\ Live /\ cancelPc = "canceled"
    /\ cancelPc' = IF isCompleted THEN "returned" ELSE "finish"
    /\ UNCHANGED <<streamVars, request, writerVars, flags, writePc, writeOk,
                   delivered, outcome>>

FinishCanceled ==
    /\ Live /\ cancelPc = "finish" /\ cancelPc' = "returned"
    /\ FinishWith("CANCELLED")
    /\ UNCHANGED <<reads, outVars, readBlocks, clientVars, done, request,
                   writerVars, flags, writePc, writeOk, delivered>>

OnDone ==
    /\ AllDone /\ writePc = "idle" /\ cancelPc \in {"none", "returned"}
    /\ UNCHANGED <<reads, outVars, readBlocks, clientVars, finishes,
                   request, writerVars, flags, writePc, writeOk, cancelPc,
                   delivered, outcome>>

Connection ==
    /\ CallBreaks
    /\ UNCHANGED <<reads, outVars, readBlocks, finishes, done, request,
                   writerVars, flags, writePc, writeOk, cancelPc, delivered,
                   outcome>>

WriteReaction ==
    \/ ConstructValid \/ ConstructInvalid
    \/ \E ok \in BOOLEAN : OnWriteDone(ok)
    \/ WriteSeesCancel \/ CompleteFailure \/ FinishFailure
    \/ CountWritten \/ WriteFailed \/ NextSeesCancel \/ Emit

CancelReaction == OnCancel \/ CancelSeesCompleted \/ FinishCanceled

Next == WriteReaction \/ CancelReaction \/ OnDone \/ Connection
=============================================================================
