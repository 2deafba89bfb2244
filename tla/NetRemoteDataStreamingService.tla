------------------- MODULE NetRemoteDataStreamingService -------------------
(***************************************************************************)
(* One streaming RPC of the data streaming service.  The handler of each API *)
(* creates a reactor for the call and returns it to gRPC, which deletes it   *)
(* in OnDone; reactors share nothing, so one RPC is the whole system.        *)
(***************************************************************************)
EXTENDS ServerStream

CONSTANTS
    Apis,          \* the APIs called, of "upload", "download", "bidirectional"
    Requested      \* numbers of blocks a fixed download may ask for

ASSUME ServiceAssumption ==
    /\ Apis \subseteq {"upload", "download", "bidirectional"}
    /\ Requested \subseteq 0 .. MaxBlocks

VARIABLES
    api,                              \* the API of the RPC
    received, readStatus, result,     \* the upload's
    readPc, cancelPc, status, isCanceled, writePc, writeOk, written, delivered,
    type, pattern, blocks, toStream, isCompleted, outcome,  \* the download's
    readsDone, failing                \* the bidirectional stream's

uploadVars == <<received, readStatus, result>>
downloadVars == <<type, pattern, blocks, toStream, isCompleted, outcome>>
bidirectionalVars == <<readsDone, failing>>
writeVars == <<status, isCanceled, writePc, writeOk, written, delivered>>
vars == <<api, streamVars, uploadVars, downloadVars, bidirectionalVars,
          writeVars, readPc, cancelPc>>

Reader == INSTANCE DataStreamReader
Writer == INSTANCE DataStreamWriter
ReaderWriter == INSTANCE DataStreamReaderWriter

\* The members of reactors the call does not have.
NoReader ==
    /\ received = 0 /\ readStatus = "unknown"
    /\ result = [blocks |-> 0, status |-> "unknown"]
NoWriter ==
    /\ type = "continuous" /\ pattern = TRUE /\ blocks = 0
    /\ toStream = 0 /\ isCompleted = FALSE /\ outcome = "none"
NoReaderWriter == readsDone = FALSE /\ failing = FALSE
NoReads == readPc = "idle"
NoWrites ==
    /\ status = "unknown" /\ isCanceled = FALSE /\ writePc = "idle"
    /\ writeOk = FALSE /\ written = 0 /\ delivered = <<>>

DataStreamUpload ==
    api = "upload" /\ Reader!Init /\ NoWriter /\ NoReaderWriter /\ NoWrites
DataStreamDownload ==
    api = "download" /\ Writer!Init /\ NoReader /\ NoReaderWriter /\ NoReads
DataStreamBidirectional ==
    api = "bidirectional" /\ ReaderWriter!Init /\ NoReader /\ NoWriter

Init ==
    /\ api \in Apis
    /\ DataStreamUpload \/ DataStreamDownload \/ DataStreamBidirectional

-----------------------------------------------------------------------------
(* The reactor of the call reacts, or its client moves.                      *)

Upload == api = "upload" /\ UNCHANGED <<api, downloadVars, bidirectionalVars, writeVars>>
Download == api = "download" /\ UNCHANGED <<api, uploadVars, bidirectionalVars, readPc>>
Bidirectional == api = "bidirectional" /\ UNCHANGED <<api, uploadVars, downloadVars>>

Next ==
    \/ Reader!Next /\ Upload
    \/ Writer!Next /\ Download
    \/ ReaderWriter!Next /\ Bidirectional

Spec == Init /\ [][Next]_vars

\* Each reaction runs to its end, gRPC completes what can no longer succeed,
\* and calls OnCancel and OnDone when they are due.  Nothing is assumed of
\* the client or of the connection.
FairSpec ==
    /\ Spec
    /\ WF_vars(Reader!ReadReaction /\ Upload) /\ WF_vars(Reader!CancelReaction /\ Upload)
    /\ WF_vars(Reader!OnDone /\ Upload)
    /\ WF_vars(Writer!WriteReaction /\ Download)
    /\ WF_vars(Writer!CancelReaction /\ Download) /\ WF_vars(Writer!OnDone /\ Download)
    /\ WF_vars(ReaderWriter!ReadReaction /\ Bidirectional)
    /\ WF_vars(ReaderWriter!WriteReaction /\ Bidirectional)
    /\ WF_vars(ReaderWriter!OnCancel /\ Bidirectional)
    /\ WF_vars(ReaderWriter!OnDone /\ Bidirectional)

-----------------------------------------------------------------------------
(* Properties                                                                *)

\* The variables of the call's reactor are of their types (the counters of
\* the three classes: no block is counted that was not received or asked for).
TypeOK ==
    /\ api \in Apis
    /\ api = "upload" => Reader!TypeOK
    /\ api = "download" => Writer!TypeOK
    /\ api = "bidirectional" => ReaderWriter!TypeOK

\* OnReadDone, OnCancel: an upload that ends with its call alive reports every
\* block the client sent, none twice, and success only if there was a block.
ResultIsExact ==
    api = "upload" /\ finishes = 1 /\ ~broken =>
        result = [blocks |-> sentBlocks,
                  status |-> IF sentBlocks > 0 THEN "succeeded" ELSE "unknown"]

\* NextWrite: the blocks a client takes are numbered 1, 2, 3 ... without gap
\* or repetition, however reads, writes and OnCancel interleave.
BlocksInOrder == \A k \in 1 .. Len(delivered) : delivered[k] = k

\* OnWriteDone, NextWrite: a fixed download first finished with OK, and not
\* because of a failure it reported, has delivered exactly what was asked for.
OkMeansComplete ==
    api = "download" /\ type = "fixed" /\ outcome = "OK" /\ status # "failed" =>
        Len(delivered) = blocks

\* m_isCanceled, m_readsDone: they are tested before a write and not held, so
\* one write may be started on a finished RPC; its failure starts no other.
AtMostOneLateWrite == late <= 1

\* Each reactor keeps to gRPC's contract, with the weakening StreamContract
\* states for a call that has died.
Contract == INSTANCE StreamContract
KeepsContract == Contract!Spec

\* OnDone: an RPC that has to end, because the client has half-closed it, its
\* call has died or its download is finite, releases its reactor, or is
\* finished twice, which aborts the server.
RpcEnds ==
    halfClosed \/ broken \/ (api = "download" /\ type # "continuous") ~> done \/ finishes > 1

\* OnCancel: Finish is called once.  "Because the RPC is canceled by the
\* client, there will be no more data to read.  Thus, OnReadDone will fail and
\* will call Finish(), so don't call Finish() here."
FinishOnce == finishes <= 1
=============================================================================
