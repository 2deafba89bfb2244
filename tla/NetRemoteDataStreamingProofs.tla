-------------------- MODULE NetRemoteDataStreamingProofs --------------------
(***************************************************************************)
(* Proofs about the streaming RPCs, for any number of blocks, any requests   *)
(* and any interleaving of the reactions: what each RPC delivers, that its   *)
(* reactor keeps to gRPC's contract, and how late a write may come.          *)
(***************************************************************************)
EXTENDS NetRemoteDataStreamingService, TLAPS

\* What an upload has counted, and how its counting ends.
StatusOf(n) == IF n > 0 THEN "succeeded" ELSE "unknown"

UploadAlive ==
    /\ readPc = "ended" \/ (readPc \in {"idle", "read"} /\ finishes = 0) =>
           readStatus = StatusOf(received)
    /\ readPc \in {"ended", "finish"} \/ finishes > 0 =>
           halfClosed /\ readBlocks = sentBlocks
    /\ readPc # "idle" => finishes = 0
    /\ finishes > 0 => reads = 0
    /\ readPc = "finish" \/ finishes > 0 =>
           result = [blocks |-> sentBlocks, status |-> StatusOf(sentBlocks)]

UploadInv ==
    /\ Reader!TypeOK
    /\ writes = 0 /\ late = 0
    /\ received = IF readPc = "read" THEN readBlocks - 1 ELSE readBlocks
    /\ reads \in {0, 1} /\ (readPc # "idle" => reads = 0)
    /\ cancelPc # "none" => broken
    /\ ~broken => UploadAlive

\* The blocks of a download: which one the outstanding write carries, and how
\* many there are to come.
Reacting == writePc \notin {"construct", "idle"}
Counted == ~(writePc \in {"written", "status"} /\ writeOk)

DownloadBlocks ==
    /\ writePc = "construct" =>
           /\ writes = 0 /\ written = 0 /\ delivered = <<>> /\ toStream = 0
           /\ status = "unknown" /\ finishes = 0 /\ late = 0 /\ cancelPc = "none"
    /\ writes = 1 /\ status # "failed" => written = Len(delivered) + 1
    /\ Reacting /\ writeOk /\ status # "failed" => written = Len(delivered)
    /\ writePc \in {"next", "emit"} => writeOk /\ status = "succeeded"
    /\ writePc = "finish" => status = "failed"
    /\ writePc # "construct" => type # "invalid" \/ status = "failed"
    /\ type = "fixed" /\ status # "failed" /\ (writes = 1 \/ Reacting) =>
           /\ Len(delivered) + toStream = IF Counted THEN blocks ELSE blocks + 1
           /\ writes = 1 \/ writePc \in {"written", "status"} => toStream > 0

DownloadEnd ==
    /\ finishes > 0 => isCanceled \/ (writes = 0 /\ writePc = "idle")
    /\ late > 0 => late = 1 /\ finishes > 0 /\ writePc \in {"idle", "written"}
    /\ isCanceled <=> cancelPc # "none"
    /\ isCanceled => broken
    /\ (finishes = 0) <=> (outcome = "none")
    /\ outcome = "OK" /\ status # "failed" =>
           /\ writes = 0 /\ writePc = "idle"
           /\ type = "fixed" => Len(delivered) = blocks

DownloadInv ==
    /\ Writer!TypeOK
    /\ reads = 0 /\ writes \in {0, 1} /\ (writePc # "idle" => writes = 0)
    /\ BlocksInOrder
    /\ DownloadBlocks
    /\ DownloadEnd

\* The two sides of a bidirectional stream.
BidirectionalBlocks ==
    /\ writes = 1 /\ ~failing => written = Len(delivered) + 1
    /\ writes = 1 /\ failing => doomed
    /\ writePc # "idle" /\ writeOk => ~failing /\ written = Len(delivered)
    /\ writePc \in {"next", "emit"} => writeOk
    /\ writePc \in {"failed", "fail"} => ~writeOk
    /\ writePc # "idle" /\ ~writeOk => broken \/ finishes > 0

BidirectionalEnd ==
    /\ isCanceled => broken
    /\ readPc = "finish" => readsDone
    /\ finishes > 0 => readsDone \/ (writes = 0 /\ writePc = "idle")
    /\ finishes > 0 /\ ~broken => reads = 0 /\ readPc = "idle"
    /\ status = "failed" \/ writePc \in {"fail", "finish"} => broken
    /\ writes = 1 /\ late > 0 => doomed
    /\ late > 0 =>
           /\ late = 1 /\ finishes > 0
           /\ writePc # "idle" => ~writeOk /\ writePc # "fail"

BidirectionalInv ==
    /\ ReaderWriter!TypeOK
    /\ reads \in {0, 1} /\ (readPc # "idle" => reads = 0)
    /\ writes \in {0, 1} /\ (writePc # "idle" => writes = 0)
    /\ BlocksInOrder
    /\ BidirectionalBlocks
    /\ BidirectionalEnd

IInv ==
    /\ api \in {"upload", "download", "bidirectional"}
    /\ api = "upload" => UploadInv /\ BlocksInOrder
    /\ api = "download" => DownloadInv
    /\ api = "bidirectional" => BidirectionalInv
-----------------------------------------------------------------------------
(* The upload.                                                               *)

KeptContract == [Contract!Next]_(Contract!vars)

\* The constructor's read is outstanding and nothing is counted.
LEMMA UploadInit ==
    ASSUME Reader!Init, NoWrites
    PROVE  UploadInv /\ Contract!Init
<1> USE StreamAssumption DEF Reader!Init, Reader!StreamInit
<1>1. Reader!StreamTypeOK
  <2>1. /\ reads = 1 /\ writes = 0 /\ finishes = 0 /\ late = 0
        /\ sentBlocks = 0 /\ readBlocks = 0
    OBVIOUS
  <2>2. doomed \in BOOLEAN /\ halfClosed \in BOOLEAN /\ broken \in BOOLEAN /\ done \in BOOLEAN
    OBVIOUS
  <2>3. QED
    BY <2>1, <2>2 DEF Reader!StreamTypeOK
<1>2. result \in [blocks : 0 .. MaxBlocks, status : Reader!Codes]
  BY DEF Reader!Codes
<1>3. Reader!TypeOK
  BY <1>1, <1>2 DEF Reader!TypeOK, Reader!Codes
<1>4. Contract!Init
  BY DEF Contract!Init
<1>5. QED
  BY <1>3, <1>4 DEF UploadInv, UploadAlive, StatusOf

\* DataStreamReader: every step of its reactions and of its client.
LEMMA UploadStep ==
    ASSUME UploadInv, Reader!Next, UNCHANGED writeVars
    PROVE  UploadInv' /\ KeptContract
<1>0. /\ MaxBlocks \in Nat
      /\ sentBlocks \in 0 .. MaxBlocks /\ readBlocks \in 0 .. sentBlocks
      /\ received \in 0 .. MaxBlocks /\ finishes \in Nat
  BY StreamAssumption DEF UploadInv, Reader!TypeOK, Reader!StreamTypeOK
<1> USE <1>0 DEF UploadInv, UploadAlive, StatusOf, Reader!TypeOK, Reader!StreamTypeOK,
        Reader!Codes, KeptContract, Contract!Next, Contract!vars, Reader!Live,
        Reader!streamVars, Reader!outVars, Reader!clientVars
<1>1. CASE \E ok \in BOOLEAN : Reader!OnReadDone(ok)
  <2>1. PICK ok \in BOOLEAN : Reader!OnReadDone(ok)
    BY <1>1
  <2>2. QED
    BY <2>1 DEF Reader!OnReadDone, Reader!ReadCompletes, Contract!ReadDone
<1>2. CASE Reader!CountAndReadOn
  BY <1>2 DEF Reader!CountAndReadOn, Reader!StartRead, Contract!StartRead
<1>3. CASE Reader!ReadsEnded
  BY <1>3 DEF Reader!ReadsEnded, Reader!SetResult
<1>4. CASE Reader!FinishRead
  BY <1>4 DEF Reader!FinishRead, Reader!Finish, Contract!Finish
<1>5. CASE Reader!OnCancel
  <2>1. /\ broken /\ cancelPc' = "finish" /\ readStatus' = "unknown"
        /\ result' = [blocks |-> received, status |-> "canceled"]
        /\ UNCHANGED <<reads, writes, doomed, late, readBlocks, sentBlocks, halfClosed,
                       broken, finishes, done, received, readPc>>
    BY <1>5 DEF Reader!OnCancel, Reader!CancelNotified, Reader!SetResult
  <2>2. result' \in [blocks : 0 .. MaxBlocks, status : Reader!Codes]
    BY <2>1
  <2>3. QED
    BY <2>1, <2>2
<1>6. CASE Reader!FinishCanceled
  BY <1>6 DEF Reader!FinishCanceled, Reader!Finish, Contract!Finish
<1>7. CASE Reader!OnDone
  <2>1. /\ ~done /\ done' = TRUE /\ finishes = 1 /\ reads = 0
        /\ UNCHANGED <<reads, writes, doomed, late, readBlocks, sentBlocks, halfClosed,
                       broken, finishes, received, readStatus, result, readPc, cancelPc>>
    BY <1>7 DEF Reader!OnDone, Reader!AllDone
  <2>2. UploadInv'
    BY <2>1
  <2>3. Contract!Done
    BY <2>1 DEF Contract!Done
  <2>4. QED
    BY <2>2, <2>3
<1>8. CASE Reader!Client
  <2>1. /\ UNCHANGED <<received, readStatus, result, readPc, cancelPc, reads, writes,
                       doomed, late, readBlocks, finishes, done>>
        /\ \/ /\ ~halfClosed /\ ~broken /\ sentBlocks < MaxBlocks
              /\ sentBlocks' = sentBlocks + 1 /\ UNCHANGED <<halfClosed, broken>>
           \/ /\ ~halfClosed /\ ~broken /\ halfClosed' = TRUE
              /\ UNCHANGED <<sentBlocks, broken>>
           \/ /\ ~done /\ ~broken /\ broken' = TRUE
              /\ UNCHANGED <<sentBlocks, halfClosed>>
    BY <1>8 DEF Reader!Client, Reader!StreamEnvironment, Reader!ClientSends,
       Reader!ClientHalfCloses, Reader!CallBreaks
  <2>2. CASE sentBlocks' = sentBlocks + 1 /\ UNCHANGED <<halfClosed, broken>>
    BY <2>1, <2>2
  <2>3. CASE UNCHANGED <<sentBlocks, broken>> /\ halfClosed' = TRUE
    BY <2>1, <2>3
  <2>4. CASE UNCHANGED <<sentBlocks, halfClosed>> /\ broken' = TRUE
    BY <2>1, <2>4 DEF Contract!CallBreaks
  <2>5. QED
    BY <2>1, <2>2, <2>3, <2>4
<1>9. QED
  BY <1>1, <1>2, <1>3, <1>4, <1>5, <1>6, <1>7, <1>8
  DEF Reader!Next, Reader!ReadReaction, Reader!CancelReaction
-----------------------------------------------------------------------------
(* The download.                                                             *)

\* A block more at the end of those delivered keeps them in order.
LEMMA BlockAppended ==
    ASSUME delivered \in Seq(Nat), BlocksInOrder, written = Len(delivered) + 1,
           delivered' = Append(delivered, written)
    PROVE  /\ delivered' \in Seq(Nat) /\ BlocksInOrder'
           /\ Len(delivered') = Len(delivered) + 1
<1>1. Len(delivered) \in Nat
  OBVIOUS
<1>2. /\ delivered' \in Seq(Nat) /\ Len(delivered') = Len(delivered) + 1
      /\ \A k \in 1 .. Len(delivered) : delivered'[k] = delivered[k]
      /\ delivered'[Len(delivered) + 1] = written
  BY <1>1
<1>3. ASSUME NEW k \in 1 .. Len(delivered') PROVE delivered'[k] = k
  <2>1. CASE k = Len(delivered) + 1
    BY <1>2, <2>1
  <2>2. CASE k # Len(delivered) + 1
    <3>1. k \in 1 .. Len(delivered)
      BY <1>1, <1>2, <2>2
    <3>2. QED
      BY <1>2, <3>1 DEF BlocksInOrder
  <2>3. QED
    BY <2>1, <2>2
<1>4. QED
  BY <1>2, <1>3 DEF BlocksInOrder

\* Nothing is written and nothing has been said before the constructor runs.
LEMMA DownloadInit ==
    ASSUME Writer!Init, NoReads
    PROVE  DownloadInv /\ Contract!Init
<1> USE StreamAssumption, ServiceAssumption DEF Writer!Init, Writer!StreamInit
<1>1. /\ reads = 0 /\ writes = 0 /\ finishes = 0 /\ late = 0
      /\ sentBlocks = 0 /\ readBlocks = 0 /\ toStream = 0 /\ written = 0
      /\ delivered = <<>> /\ delivered \in Seq(Nat) /\ Len(delivered) = 0
      /\ blocks \in Requested /\ type \in {"fixed", "continuous", "invalid"}
      /\ status = "unknown" /\ writePc = "construct" /\ cancelPc = "none" /\ outcome = "none"
  OBVIOUS
<1>2. /\ doomed \in BOOLEAN /\ halfClosed \in BOOLEAN /\ broken \in BOOLEAN /\ done \in BOOLEAN
      /\ isCanceled \in BOOLEAN /\ isCompleted \in BOOLEAN /\ pattern \in BOOLEAN
      /\ writeOk \in BOOLEAN
      /\ ~broken /\ ~done /\ ~isCanceled
  OBVIOUS
<1> HIDE DEF Writer!Init
<1>3. Writer!TypeOK
  BY <1>1, <1>2 DEF Writer!TypeOK, Writer!StreamTypeOK
<1>4. Contract!Init
  BY <1>1, <1>2 DEF Contract!Init
<1>5. QED
  BY <1>1, <1>2, <1>3, <1>4 DEF DownloadInv, BlocksInOrder, DownloadBlocks, DownloadEnd,
     Reacting, Counted

\* DataStreamWriter: every step of its constructor, of its reactions and of
\* the connection.
LEMMA DownloadStep ==
    ASSUME DownloadInv, Writer!Next
    PROVE  DownloadInv' /\ KeptContract
<1>0. /\ blocks \in Nat /\ Requested \subseteq Nat
      /\ toStream \in Nat /\ written \in Nat /\ finishes \in Nat /\ late \in Nat
      /\ delivered \in Seq(Nat) /\ Len(delivered) \in Nat
  <2>1. Requested \subseteq Nat
    BY ServiceAssumption, StreamAssumption
  <2>2. QED
    BY <2>1 DEF DownloadInv, Writer!TypeOK, Writer!StreamTypeOK
<1> USE <1>0 DEF DownloadInv, DownloadBlocks, DownloadEnd, Reacting, Counted,
        Writer!TypeOK, Writer!StreamTypeOK, KeptContract, Contract!Next, Contract!vars,
        Writer!Live, Writer!WriteAt, Writer!streamVars, Writer!outVars, Writer!clientVars,
        Writer!request, Writer!writerVars, Writer!flags
<1>1. CASE Writer!ConstructValid
  BY <1>1 DEF Writer!ConstructValid, Writer!WriteNextBlock, Writer!MoreToWrite,
     Writer!StartWrite, Writer!FinishWith, Writer!Finish, Writer!HandleFailure,
     Contract!StartWrite, Contract!Finish, BlocksInOrder
<1>2. CASE Writer!ConstructInvalid
  BY <1>2 DEF Writer!ConstructInvalid, Writer!StartWrite, Writer!HandleFailure,
     Contract!StartWrite, BlocksInOrder
<1>3. CASE \E ok \in BOOLEAN : Writer!OnWriteDone(ok)
  <2>1. PICK ok \in BOOLEAN : Writer!OnWriteDone(ok)
    BY <1>3
  <2>2. /\ writePc = "idle" /\ writes = 1 /\ writes' = 0
        /\ writePc' = "written" /\ writeOk' = ok
        /\ doomed' = FALSE
        /\ UNCHANGED <<reads, late, readBlocks, sentBlocks, halfClosed, broken, finishes, done,
                       type, pattern, blocks, toStream, written, status, isCanceled,
                       isCompleted, cancelPc, outcome>>
    BY <2>1 DEF Writer!OnWriteDone, Writer!WriteCompletes
  <2>3. Contract!WriteDone
    BY <2>2 DEF Contract!WriteDone
  <2>4. CASE ok /\ status # "failed"
    <3>1. writes = 1 /\ written = Len(delivered) + 1 /\ delivered' = Append(delivered, written)
      BY <2>1, <2>4 DEF Writer!OnWriteDone, Writer!WriteCompletes
    <3>2. /\ delivered' \in Seq(Nat) /\ BlocksInOrder'
          /\ Len(delivered') = Len(delivered) + 1
      BY <3>1, BlockAppended
    <3>3. DownloadBlocks'
      BY <2>2, <2>4, <3>1, <3>2, SMTT(60)
    <3>4. Writer!TypeOK'
      BY <2>2, <3>2, ZenonT(90)
    <3>5. DownloadEnd'
      BY <2>2, <2>4, <3>1, <3>2
    <3>6. QED
      BY <2>2, <2>3, <3>2, <3>3, <3>4, <3>5
  <2>5. CASE ~(ok /\ status # "failed")
    <3>1. delivered' = delivered
      BY <2>1, <2>5 DEF Writer!OnWriteDone
    <3>2. DownloadBlocks'
      BY <2>2, <2>5, <3>1
    <3>3. Writer!TypeOK'
      BY <2>2, <3>1, ZenonT(90)
    <3>4. DownloadEnd' /\ BlocksInOrder'
      BY <2>2, <2>5, <3>1 DEF BlocksInOrder
    <3>5. QED
      BY <2>2, <2>3, <3>2, <3>3, <3>4
  <2>6. QED
    BY <2>4, <2>5
<1>4. CASE Writer!WriteSeesCancel
  BY <1>4 DEF Writer!WriteSeesCancel, BlocksInOrder
<1>5. CASE Writer!CompleteFailure
  BY <1>5 DEF Writer!CompleteFailure, BlocksInOrder
<1>6. CASE Writer!FinishFailure
  BY <1>6 DEF Writer!FinishFailure, Writer!FinishWith, Writer!Finish, Contract!Finish, BlocksInOrder
<1>7. CASE Writer!CountWritten
  BY <1>7 DEF Writer!CountWritten, BlocksInOrder
<1>8. CASE Writer!WriteFailed
  BY <1>8 DEF Writer!WriteFailed, Writer!HandleFailure, Writer!StartWrite,
              Contract!StartWrite, BlocksInOrder
<1>9. CASE Writer!NextSeesCancel
  BY <1>9 DEF Writer!NextSeesCancel, BlocksInOrder
<1>10. CASE Writer!Emit
  BY <1>10 DEF Writer!Emit, Writer!WriteNextBlock, Writer!MoreToWrite,
     Writer!StartWrite, Writer!FinishWith, Writer!Finish, Writer!HandleFailure,
     Contract!StartWrite, Contract!Finish, BlocksInOrder
<1>11. CASE Writer!OnCancel
  BY <1>11 DEF Writer!OnCancel, Writer!CancelNotified, BlocksInOrder
<1>12. CASE Writer!CancelSeesCompleted
  BY <1>12 DEF Writer!CancelSeesCompleted, BlocksInOrder
<1>13. CASE Writer!FinishCanceled
  <2>1. /\ ~done /\ cancelPc = "finish" /\ cancelPc' = "returned"
        /\ finishes \in {0, 1} /\ finishes' = finishes + 1
        /\ outcome' = IF finishes = 0 THEN "CANCELLED" ELSE outcome
        /\ UNCHANGED <<reads, writes, doomed, late, readBlocks, sentBlocks, halfClosed, broken,
                       done, type, pattern, blocks, toStream, written, status, isCanceled,
                       isCompleted, writePc, writeOk, delivered>>
    BY <1>13 DEF Writer!FinishCanceled, Writer!FinishWith, Writer!Finish
  <2>2. isCanceled /\ broken
    BY <2>1
  <2>3. Writer!TypeOK'
    BY <2>1
  <2>4. DownloadBlocks' /\ BlocksInOrder'
    BY <2>1, <2>2 DEF BlocksInOrder
  <2>5. DownloadEnd'
    BY <2>1, <2>2
  <2>6. Contract!Finish
    BY <2>1, <2>2 DEF Contract!Finish
  <2>7. QED
    BY <2>1, <2>3, <2>4, <2>5, <2>6
<1>14. CASE Writer!OnDone
  <2>1. /\ ~done /\ done' = TRUE /\ finishes = 1 /\ writes = 0 /\ UNCHANGED broken
        /\ UNCHANGED <<reads, writes, doomed, late, readBlocks, sentBlocks, halfClosed, finishes,
                       type, pattern, blocks, toStream, written, status, isCanceled,
                       isCompleted, writePc, writeOk, cancelPc, delivered, outcome>>
    BY <1>14 DEF Writer!OnDone, Writer!AllDone
  <2>2. DownloadInv'
    BY <2>1 DEF BlocksInOrder
  <2>3. Contract!Done
    BY <2>1 DEF Contract!Done
  <2>4. QED
    BY <2>2, <2>3
<1>15. CASE Writer!Connection
  <2>1. /\ ~done /\ ~broken /\ broken' = TRUE /\ UNCHANGED done
        /\ UNCHANGED <<reads, writes, doomed, late, readBlocks, sentBlocks, halfClosed, finishes,
                       type, pattern, blocks, toStream, written, status, isCanceled,
                       isCompleted, writePc, writeOk, cancelPc, delivered, outcome>>
    BY <1>15 DEF Writer!Connection, Writer!CallBreaks
  <2>2. DownloadInv'
    BY <2>1 DEF BlocksInOrder
  <2>3. Contract!CallBreaks
    BY <2>1 DEF Contract!CallBreaks
  <2>4. QED
    BY <2>2, <2>3
<1>16. QED
  BY <1>1, <1>2, <1>3, <1>4, <1>5, <1>6, <1>7, <1>8, <1>9, <1>10, <1>11, <1>12,
     <1>13, <1>14, <1>15
  DEF Writer!Next, Writer!WriteReaction, Writer!CancelReaction
-----------------------------------------------------------------------------
(* The bidirectional stream.                                                 *)

\* The constructor's read and its first block are outstanding.
LEMMA BidirectionalInit ==
    ASSUME ReaderWriter!Init
    PROVE  BidirectionalInv /\ Contract!Init
<1> USE StreamAssumption DEF ReaderWriter!Init, ReaderWriter!StreamInit
<1>1. /\ reads = 1 /\ writes = 1 /\ finishes = 0 /\ late = 0
      /\ sentBlocks = 0 /\ readBlocks = 0 /\ written = 1
      /\ delivered = <<>> /\ delivered \in Seq(Nat) /\ Len(delivered) = 0
      /\ status = "unknown" /\ writePc = "idle" /\ readPc = "idle" /\ cancelPc = "none"
  OBVIOUS
<1>2. /\ doomed \in BOOLEAN /\ halfClosed \in BOOLEAN /\ broken \in BOOLEAN /\ done \in BOOLEAN
      /\ isCanceled \in BOOLEAN /\ readsDone \in BOOLEAN /\ writeOk \in BOOLEAN
      /\ failing \in BOOLEAN
      /\ ~broken /\ ~done /\ ~isCanceled /\ ~failing
  OBVIOUS
<1> HIDE DEF ReaderWriter!Init
<1>3. ReaderWriter!TypeOK
  BY <1>1, <1>2 DEF ReaderWriter!TypeOK, ReaderWriter!StreamTypeOK
<1>4. Contract!Init
  BY <1>1, <1>2 DEF Contract!Init
<1>5. QED
  BY <1>1, <1>2, <1>3, <1>4
  DEF BidirectionalInv, BlocksInOrder, BidirectionalBlocks, BidirectionalEnd

\* DataStreamReaderWriter: every step of its reactions and of its client.
LEMMA BidirectionalStep ==
    ASSUME BidirectionalInv, ReaderWriter!Next
    PROVE  BidirectionalInv' /\ KeptContract
<1>0. /\ MaxBlocks \in Nat
      /\ sentBlocks \in 0 .. MaxBlocks /\ readBlocks \in 0 .. sentBlocks
      /\ written \in Nat /\ finishes \in Nat /\ late \in Nat
      /\ delivered \in Seq(Nat) /\ Len(delivered) \in Nat
  BY StreamAssumption DEF BidirectionalInv, ReaderWriter!TypeOK, ReaderWriter!StreamTypeOK
<1> USE <1>0 DEF BidirectionalInv, BidirectionalBlocks, BidirectionalEnd,
        ReaderWriter!TypeOK, ReaderWriter!StreamTypeOK, KeptContract, Contract!Next,
        Contract!vars, ReaderWriter!Live, ReaderWriter!WriteAt, ReaderWriter!ReadAt,
        ReaderWriter!streamVars, ReaderWriter!outVars, ReaderWriter!clientVars,
        ReaderWriter!writeVars, ReaderWriter!cancelVars, ReaderWriter!readVars
<1>1. CASE \E ok \in BOOLEAN : ReaderWriter!OnReadDone(ok)
  <2>1. PICK ok \in BOOLEAN : ReaderWriter!OnReadDone(ok)
    BY <1>1
  <2>2. QED
    BY <2>1 DEF ReaderWriter!OnReadDone, ReaderWriter!ReadCompletes, Contract!ReadDone,
       BlocksInOrder
<1>2. CASE ReaderWriter!CountAndReadOn
  BY <1>2 DEF ReaderWriter!CountAndReadOn, ReaderWriter!StartRead, Contract!StartRead,
     BlocksInOrder
<1>3. CASE ReaderWriter!ReadsEnded
  BY <1>3 DEF ReaderWriter!ReadsEnded, BlocksInOrder
<1>4. CASE ReaderWriter!FinishRead
  BY <1>4 DEF ReaderWriter!FinishRead, ReaderWriter!Finish, Contract!Finish, BlocksInOrder
<1>5. CASE \E ok \in BOOLEAN : ReaderWriter!OnWriteDone(ok)
  <2>1. PICK ok \in BOOLEAN : ReaderWriter!OnWriteDone(ok)
    BY <1>5
  <2>2. /\ writePc = "idle" /\ writes = 1 /\ writes' = 0
        /\ writePc' = "written" /\ writeOk' = ok
        /\ ok => ~doomed
        /\ ~ok => broken \/ finishes > 0
        /\ doomed' = FALSE
        /\ delivered' = IF ok /\ ~failing THEN Append(delivered, written) ELSE delivered
        /\ UNCHANGED <<reads, late, readBlocks, sentBlocks, halfClosed, broken, finishes, done,
                       status, readPc, readsDone, written, failing, isCanceled, cancelPc>>
    BY <2>1 DEF ReaderWriter!OnWriteDone, ReaderWriter!WriteCompletes
  <2>3. ok => ~failing /\ written = Len(delivered) + 1
    BY <2>2
  <2>4. /\ delivered' \in Seq(Nat) /\ BlocksInOrder'
        /\ ok => Len(delivered') = Len(delivered) + 1
    <3>1. CASE ok
      BY <2>2, <2>3, <3>1, BlockAppended
    <3>2. CASE ~ok
      BY <2>2, <3>2 DEF BlocksInOrder
    <3>3. QED
      BY <3>1, <3>2
  <2>5. ReaderWriter!TypeOK'
    BY <2>2, <2>4
  <2>6. BidirectionalBlocks'
    BY <2>2, <2>3, <2>4
  <2>7. BidirectionalEnd'
    BY <2>2
  <2>8. Contract!WriteDone
    BY <2>2 DEF Contract!WriteDone
  <2>9. QED
    BY <2>2, <2>4, <2>5, <2>6, <2>7, <2>8
<1>6. CASE ReaderWriter!WriteSeesCancel
  BY <1>6 DEF ReaderWriter!WriteSeesCancel, BlocksInOrder
<1>7. CASE ReaderWriter!WriteSeesStatus
  BY <1>7 DEF ReaderWriter!WriteSeesStatus, BlocksInOrder
<1>8. CASE ReaderWriter!FinishFailure
  BY <1>8 DEF ReaderWriter!FinishFailure, ReaderWriter!Finish, Contract!Finish, BlocksInOrder
<1>9. CASE ReaderWriter!NextSeesCancel
  BY <1>9 DEF ReaderWriter!NextSeesCancel, BlocksInOrder
<1>10. CASE ReaderWriter!Emit
  <2>1. /\ ~done /\ finishes < 2 /\ writePc = "emit" /\ writePc' = "idle"
        /\ writes = 0 /\ writes' = 1 /\ failing' = FALSE /\ written' = written + 1
        /\ doomed' = (broken \/ finishes > 0)
        /\ late' = IF finishes > 0 THEN late + 1 ELSE late
        /\ UNCHANGED <<reads, readBlocks, sentBlocks, halfClosed, broken, finishes, done,
                       status, readPc, readsDone, writeOk, delivered, isCanceled, cancelPc>>
    BY <1>10 DEF ReaderWriter!Emit, ReaderWriter!StartWrite
  <2>2. late = 0 /\ written = Len(delivered)
    BY <2>1
  <2>3. doomed' \in BOOLEAN /\ failing' \in BOOLEAN
    BY <2>1
  <2>4. late' \in Nat /\ written' \in Nat /\ writes' \in Nat
    BY <2>1
  <2>5. ReaderWriter!TypeOK'
    BY <2>1, <2>3, <2>4
  <2>6. BidirectionalBlocks' /\ BlocksInOrder'
    BY <2>1, <2>2 DEF BlocksInOrder
  <2>7. BidirectionalEnd'
    BY <2>1, <2>2
  <2>8. Contract!StartWrite
    BY <2>1 DEF Contract!StartWrite
  <2>9. QED
    BY <2>1, <2>5, <2>6, <2>7, <2>8
<1>11. CASE ReaderWriter!FailUnlessReadsDone
  BY <1>11 DEF ReaderWriter!FailUnlessReadsDone, BlocksInOrder
<1>12. CASE ReaderWriter!HandleFailure
  <2>1. /\ ~done /\ finishes < 2 /\ writePc = "fail" /\ writePc' = "idle" /\ status' = "failed"
        /\ writes = 0 /\ writes' = 1 /\ failing' = TRUE
        /\ doomed' = (broken \/ finishes > 0)
        /\ late' = IF finishes > 0 THEN late + 1 ELSE late
        /\ UNCHANGED <<reads, readBlocks, sentBlocks, halfClosed, broken, finishes, done,
                       readPc, readsDone, writeOk, written, delivered, isCanceled, cancelPc>>
    BY <1>12 DEF ReaderWriter!HandleFailure, ReaderWriter!StartWrite
  <2>2. broken /\ late = 0
    BY <2>1
  <2>3. doomed' \in BOOLEAN /\ failing' \in BOOLEAN
    BY <2>1
  <2>4. late' \in Nat /\ written' \in Nat /\ writes' \in Nat
    BY <2>1
  <2>5. ReaderWriter!TypeOK'
    BY <2>1, <2>3, <2>4
  <2>6. BidirectionalBlocks' /\ BlocksInOrder'
    BY <2>1, <2>2 DEF BlocksInOrder
  <2>7. BidirectionalEnd'
    BY <2>1, <2>2
  <2>8. Contract!StartWrite
    BY <2>1 DEF Contract!StartWrite
  <2>9. QED
    BY <2>1, <2>5, <2>6, <2>7, <2>8
<1>13. CASE ReaderWriter!OnCancel
  BY <1>13 DEF ReaderWriter!OnCancel, ReaderWriter!CancelNotified, BlocksInOrder
<1>14. CASE ReaderWriter!OnDone
  <2>1. /\ ~done /\ done' = TRUE /\ finishes = 1 /\ reads = 0 /\ writes = 0
        /\ UNCHANGED <<reads, writes, doomed, late, readBlocks, sentBlocks, halfClosed, broken,
                       finishes, status, readPc, readsDone, writePc, writeOk, written,
                       delivered, failing, isCanceled, cancelPc>>
    BY <1>14 DEF ReaderWriter!OnDone, ReaderWriter!AllDone
  <2>2. BidirectionalInv'
    BY <2>1 DEF BlocksInOrder
  <2>3. Contract!Done
    BY <2>1 DEF Contract!Done
  <2>4. QED
    BY <2>2, <2>3
<1>15. CASE ReaderWriter!Client
  <2>1. /\ UNCHANGED <<reads, writes, doomed, late, readBlocks, finishes, done, status, readPc,
                       readsDone, writePc, writeOk, written, delivered, failing,
                       isCanceled, cancelPc>>
        /\ \/ /\ sentBlocks < MaxBlocks
              /\ sentBlocks' = sentBlocks + 1 /\ UNCHANGED <<halfClosed, broken>>
           \/ /\ halfClosed' = TRUE
              /\ UNCHANGED <<sentBlocks, broken>>
           \/ /\ ~done /\ ~broken /\ broken' = TRUE
              /\ UNCHANGED <<sentBlocks, halfClosed>>
    BY <1>15 DEF ReaderWriter!Client, ReaderWriter!StreamEnvironment, ReaderWriter!ClientSends,
       ReaderWriter!ClientHalfCloses, ReaderWriter!CallBreaks
  <2>2. halfClosed' \in BOOLEAN /\ broken' \in BOOLEAN
    BY <2>1
  <2>3. sentBlocks' \in 0 .. MaxBlocks /\ readBlocks' \in 0 .. sentBlocks'
    BY <2>1
  <2>4. ReaderWriter!TypeOK'
    BY <2>1, <2>2, <2>3
  <2>5. BidirectionalBlocks' /\ BidirectionalEnd' /\ BlocksInOrder'
    BY <2>1 DEF BlocksInOrder
  <2>6. BidirectionalInv'
    BY <2>1, <2>4, <2>5
  <2>7. Contract!CallBreaks \/ UNCHANGED Contract!vars
    BY <2>1 DEF Contract!CallBreaks
  <2>8. QED
    BY <2>6, <2>7
<1>16. QED
  BY <1>1, <1>2, <1>3, <1>4, <1>5, <1>6, <1>7, <1>8, <1>9, <1>10, <1>11, <1>12,
     <1>13, <1>14, <1>15
  DEF ReaderWriter!Next, ReaderWriter!ReadReaction, ReaderWriter!WriteReaction

-----------------------------------------------------------------------------
(* The RPC: whichever reactor it has.                                        *)

\* A step that changes nothing keeps each reactor's invariant.
LEMMA Stutter ==
    ASSUME IInv, UNCHANGED vars
    PROVE  IInv' /\ KeptContract
<1> USE DEF vars, streamVars, outVars, clientVars, uploadVars, downloadVars,
        bidirectionalVars, writeVars
<1>1. /\ Reader!TypeOK => Reader!TypeOK'
      /\ Writer!TypeOK => Writer!TypeOK'
      /\ ReaderWriter!TypeOK => ReaderWriter!TypeOK'
  BY DEF Reader!TypeOK, Reader!StreamTypeOK, Reader!Codes, Writer!TypeOK,
     Writer!StreamTypeOK, ReaderWriter!TypeOK, ReaderWriter!StreamTypeOK
<1>2. UploadInv => UploadInv'
  BY <1>1 DEF UploadInv, UploadAlive
<1>3. BlocksInOrder => BlocksInOrder'
  BY DEF BlocksInOrder
<1>4. DownloadInv => DownloadInv'
  BY <1>1, <1>3 DEF DownloadInv, DownloadBlocks, DownloadEnd, Reacting, Counted
<1>5. BidirectionalInv => BidirectionalInv'
  BY <1>1, <1>3 DEF BidirectionalInv, BidirectionalBlocks, BidirectionalEnd
<1>6. QED
  BY <1>2, <1>3, <1>4, <1>5 DEF IInv, KeptContract, Contract!vars

\* Every step of an RPC is one of its reactor's, which keeps what it owes.
LEMMA RpcStep ==
    ASSUME IInv, [Next]_vars
    PROVE  IInv' /\ KeptContract
<1>1. CASE Reader!Next /\ Upload
  <2>1. api = "upload" /\ api' = "upload" /\ UNCHANGED writeVars
    BY <1>1 DEF Upload
  <2>2. BlocksInOrder'
    BY <2>1 DEF IInv, BlocksInOrder, writeVars
  <2>3. QED
    BY <1>1, <2>1, <2>2, UploadStep DEF IInv
<1>2. CASE Writer!Next /\ Download
  BY <1>2, DownloadStep DEF IInv, Download
<1>3. CASE ReaderWriter!Next /\ Bidirectional
  BY <1>3, BidirectionalStep DEF IInv, Bidirectional
<1>4. QED
  BY <1>1, <1>2, <1>3, Stutter DEF Next

\* Whatever its reactor, an RPC begins as the contract does.
LEMMA RpcInit == Init => IInv /\ Contract!Init
<1>1. NoWrites => BlocksInOrder
  BY DEF NoWrites, BlocksInOrder
<1>2. DataStreamUpload => NoWrites
  BY DEF DataStreamUpload
<1>3. QED
  BY <1>1, <1>2, ServiceAssumption, UploadInit, DownloadInit, BidirectionalInit
  DEF Init, DataStreamUpload, DataStreamDownload, DataStreamBidirectional, IInv

\* The invariant of every RPC.
LEMMA InvHolds == Spec => []IInv
  BY RpcInit, RpcStep, PTL DEF Spec

(* Every reachable state of an RPC has the declared types: no block is       *)
(* counted that was not received, and none is left to stream below zero.     *)
THEOREM TypeCorrect == Spec => []TypeOK
<1>1. api \in Apis /\ [Next]_vars => (api \in Apis)'
  BY DEF Next, Upload, Download, Bidirectional, vars
<1>2. Init => api \in Apis
  BY DEF Init
<1>3. Spec => [](api \in Apis)
  BY <1>1, <1>2, PTL DEF Spec
<1>4. IInv /\ api \in Apis => TypeOK
  BY DEF IInv, UploadInv, DownloadInv, BidirectionalInv, TypeOK
<1>5. QED
  BY <1>3, <1>4, InvHolds, PTL

(* An upload that ends with its call alive reports what the client sent.     *)
THEOREM UploadIsExact == Spec => []ResultIsExact
<1>1. IInv => ResultIsExact
  BY DEF IInv, UploadInv, UploadAlive, StatusOf, ResultIsExact
<1>2. QED
  BY <1>1, InvHolds, PTL

(* The blocks a client takes are numbered in order, without gap or           *)
(* repetition (NextWrite).                                                   *)
THEOREM Ordered == Spec => []BlocksInOrder
<1>1. IInv => BlocksInOrder
  BY DEF IInv, DownloadInv, BidirectionalInv, BlocksInOrder
<1>2. QED
  BY <1>1, InvHolds, PTL

(* A fixed download finished with OK delivered all that was asked for.       *)
THEOREM DownloadComplete == Spec => []OkMeansComplete
<1>1. IInv => OkMeansComplete
  BY DEF IInv, DownloadInv, DownloadEnd, OkMeansComplete
<1>2. QED
  BY <1>1, InvHolds, PTL

(* At most one write is started on a finished RPC.                           *)
THEOREM OneLateWrite == Spec => []AtMostOneLateWrite
<1>1. IInv => AtMostOneLateWrite
  BY DEF IInv, UploadInv, DownloadInv, DownloadEnd, BidirectionalInv, BidirectionalEnd,
     AtMostOneLateWrite, Writer!TypeOK, Writer!StreamTypeOK, ReaderWriter!TypeOK,
     ReaderWriter!StreamTypeOK
<1>2. QED
  BY <1>1, InvHolds, PTL

(* Each of the three reactors implements the contract: one read and one      *)
(* write at a time, one Finish while the call lives, and nothing outstanding *)
(* when the reactor is deleted.                                              *)
THEOREM Implementation == Spec => KeepsContract
<1>1. Init => Contract!Init
  BY RpcInit
<1>2. IInv /\ [Next]_vars => [Contract!Next]_(Contract!vars)
  BY RpcStep DEF KeptContract
<1>3. QED
  BY <1>1, <1>2, InvHolds, PTL DEF Spec, KeepsContract, Contract!Spec
=============================================================================
