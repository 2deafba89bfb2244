----------------------- MODULE DataStreamReaderWriter -----------------------
(***************************************************************************)
(* The reactor of DataStreamBidirectional: it reads and writes at the same   *)
(* time.  The reactions to a read and to a write run on two threads and      *)
(* share m_status, m_readsDone and m_isCanceled; OnCancel, on a third, only  *)
(* leaves a note that the failing read will finish the RPC.                  *)
(***************************************************************************)
EXTENDS ServerStream

VARIABLES
    status,        \* m_status's code
    isCanceled,    \* m_isCanceled
    readsDone,     \* m_readsDone
    cancelPc,      \* where OnCancel is
    readPc,        \* where the reaction to a read is
    writePc,       \* where the reaction to a write is
    writeOk,       \* that reaction's isOk
    written,       \* m_numberOfDataBlocksWritten, and m_writeData's number
    delivered,     \* history: sequence numbers of the blocks sent
    failing        \* history: HandleFailure's write is the outstanding one

readVars == <<readPc, readsDone>>
writeVars == <<writePc, writeOk, written, delivered, failing>>
cancelVars == <<isCanceled, cancelPc>>
vars == <<streamVars, status, readVars, writeVars, cancelVars>>

TypeOK ==
    /\ StreamTypeOK
    /\ status \in {"unknown", "succeeded", "failed"}
    /\ isCanceled \in BOOLEAN /\ readsDone \in BOOLEAN
    /\ cancelPc \in {"none", "returned"}
    /\ readPc \in {"idle", "read", "ended", "finish"}
    /\ writePc \in {"idle", "written", "status", "next", "emit", "failed", "fail", "finish"}
    /\ writeOk \in BOOLEAN /\ failing \in BOOLEAN
    /\ written \in Nat /\ delivered \in Seq(Nat)

\* The constructor starts the first read and, through NextWrite, the first
\* write.
Init ==
    /\ StreamInit(1, 1)
    /\ status = "unknown" /\ isCanceled = FALSE /\ readsDone = FALSE
    /\ cancelPc = "none" /\ readPc = "idle" /\ writePc = "idle" /\ writeOk = FALSE
    /\ written = 1 /\ delivered = <<>> /\ failing = FALSE

ReadAt(p) == Live /\ readPc = p
WriteAt(p) == Live /\ writePc = p

-----------------------------------------------------------------------------
(* OnReadDone.                                                               *)

OnReadDone(ok) ==
    /\ ReadAt("idle") /\ ReadCompletes(ok)
    /\ readPc' = IF ok THEN "read" ELSE "ended"
    /\ UNCHANGED <<outVars, clientVars, finishes, done, status,
                   readsDone, writeVars, cancelVars>>

CountAndReadOn ==
    /\ ReadAt("read") /\ readPc' = "idle"
    /\ status' = "succeeded"
    /\ StartRead
    /\ UNCHANGED <<outVars, readBlocks, clientVars, finishes, done,
                   readsDone, writeVars, cancelVars>>

ReadsEnded ==
    /\ ReadAt("ended")
    /\ readsDone' = TRUE
    /\ readPc' = IF readsDone THEN "idle" ELSE "finish"
    /\ UNCHANGED <<streamVars, status, writeVars, cancelVars>>

\* (mutant) a half-closed stream is left open for the writes
LeaveUnfinished ==
    /\ ReadAt("finish") /\ readPc' = "idle"
    /\ UNCHANGED <<streamVars, status, readsDone, writeVars, cancelVars>>

\* (mutant) a failed read is reported by a last write, as a failed write is
FinishReadReporting ==
    /\ ReadAt("finish") /\ readPc' = "idle"
    /\ Finish /\ StartWrite
    /\ UNCHANGED <<reads, readBlocks, clientVars, done, status, readsDone,
                   writeVars, cancelVars>>

FinishRead ==
    /\ ReadAt("finish") /\ readPc' = "idle"
    /\ Finish
    /\ UNCHANGED <<reads, outVars, readBlocks, clientVars, done, status,
                   readsDone, writeVars, cancelVars>>

-----------------------------------------------------------------------------
(* OnWriteDone, NextWrite and HandleFailure.                                 *)

\* The client takes at most MaxBlocks blocks.
OnWriteDone(ok) ==
    /\ WriteAt("idle") /\ WriteCompletes(ok)
    /\ ok => Len(delivered) < MaxBlocks
    /\ delivered' = IF ok /\ ~failing THEN Append(delivered, written) ELSE delivered
    /\ writeOk' = ok /\ writePc' = "written"
    /\ UNCHANGED <<reads, readBlocks, clientVars, finishes, done, status,
                   readVars, written, failing, cancelVars>>

WriteSeesCancel ==
    /\ WriteAt("written")
    /\ writePc' = IF isCanceled THEN "idle" ELSE "status"
    /\ UNCHANGED <<streamVars, status, readVars, writeOk, written, delivered,
                   failing, cancelVars>>

\* The code of m_status is read once; the other reaction may set it next.
WriteSeesStatus ==
    /\ WriteAt("status")
    /\ writePc' = CASE status = "failed" -> "finish"
                    [] status # "failed" /\ writeOk -> "next"
                    [] status # "failed" /\ ~writeOk -> "failed"
    /\ UNCHANGED <<streamVars, status, readVars, writeOk, written, delivered,
                   failing, cancelVars>>

FinishFailure ==
    /\ WriteAt("finish") /\ writePc' = "idle"
    /\ Finish
    /\ UNCHANGED <<reads, outVars, readBlocks, clientVars, done, status,
                   readVars, writeOk, written, delivered, failing, cancelVars>>

\* m_status is set before NextWrite looks at m_isCanceled.
NextSeesCancel ==
    /\ WriteAt("next")
    /\ status' = "succeeded"
    /\ writePc' = IF isCanceled THEN "idle" ELSE "emit"
    /\ UNCHANGED <<streamVars, readVars, writeOk, written, delivered, failing,
                   cancelVars>>

\* (mutant) blocks received are numbered along with those written
EmitSkipping ==
    /\ WriteAt("emit") /\ writePc' = "idle"
    /\ written' = written + 1 + readBlocks
    /\ StartWrite /\ failing' = FALSE
    /\ UNCHANGED <<reads, readBlocks, clientVars, finishes, done, status,
                   readVars, writeOk, delivered, cancelVars>>

Emit ==
    /\ WriteAt("emit") /\ writePc' = "idle"
    /\ written' = written + 1
    /\ StartWrite /\ failing' = FALSE
    /\ UNCHANGED <<reads, readBlocks, clientVars, finishes, done, status,
                   readVars, writeOk, delivered, cancelVars>>

\* (mutant) a failed write is retried although the stream was finished
FailAlways ==
    /\ WriteAt("failed")
    /\ writePc' = "fail"
    /\ UNCHANGED <<streamVars, status, readVars, writeOk, written, delivered,
                   failing, cancelVars>>

\* A write that failed because the stream was finished is left at that.
FailUnlessReadsDone ==
    /\ WriteAt("failed")
    /\ writePc' = IF readsDone THEN "idle" ELSE "fail"
    /\ UNCHANGED <<streamVars, status, readVars, writeOk, written, delivered,
                   failing, cancelVars>>

HandleFailure ==
    /\ WriteAt("fail") /\ writePc' = "idle"
    /\ status' = "failed"
    /\ StartWrite /\ failing' = TRUE
    /\ UNCHANGED <<reads, readBlocks, clientVars, finishes, done, readVars,
                   writeOk, written, delivered, cancelVars>>

-----------------------------------------------------------------------------
(* OnCancel and OnDone.                                                      *)

\* (mutant) OnCancel sets a status of its own, as the reader's does
OnCancelSetsStatus ==
    /\ CancelNotified /\ cancelPc = "none"
    /\ cancelPc' = "returned" /\ isCanceled' = TRUE /\ status' = "canceled"
    /\ UNCHANGED <<streamVars, readVars, writeVars>>

OnCancel ==
    /\ CancelNotified /\ cancelPc = "none"
    /\ cancelPc' = "returned" /\ isCanceled' = TRUE
    /\ UNCHANGED <<streamVars, status, readVars, writeVars>>

OnDone ==
    /\ AllDone /\ readPc = "idle" /\ writePc = "idle"
    /\ UNCHANGED <<reads, outVars, readBlocks, clientVars, finishes,
                   status, readVars, writeVars, cancelVars>>

Client == StreamEnvironment /\ UNCHANGED <<status, readVars, writeVars, cancelVars>>

ReadReaction ==
    (\E ok \in BOOLEAN : OnReadDone(ok)) \/ CountAndReadOn \/ ReadsEnded \/ FinishRead

WriteReaction ==
    \/ \E ok \in BOOLEAN : OnWriteDone(ok)
    \/ WriteSeesCancel \/ WriteSeesStatus \/ FinishFailure
    \/ NextSeesCancel \/ Emit \/ FailUnlessReadsDone \/ HandleFailure

Next == ReadReaction \/ WriteReaction \/ OnCancel \/ OnDone \/ Client
=============================================================================
