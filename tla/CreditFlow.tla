----------------------------- MODULE CreditFlow ------------------------------
(***************************************************************************)
(* The credit protocol between a connected Send session and the Receive    *)
(* session it is connected to (src/core/common/RdmaConnectedSessionBase.cpp*)
(* with the Linux provider, src/core/linux/RdmaConnectedSession.cpp).      *)
(*                                                                         *)
(* Each side has a transfer queue (transferBuffers) and, flowing the other *)
(* way, an auxiliary queue (creditBuffers) of AuxDepth credit messages.    *)
(* The receiver posts its receive buffers and announces each one in a      *)
(* credit message; the sender's AckHandlerThread turns every announced     *)
(* buffer into an availableCredits entry, which a send consumes.           *)
(*                                                                         *)
(* All buffers of a Multiple-buffer queue are alike, so every queue is     *)
(* reduced to the number of its buffers in each state (BufferQueue models  *)
(* one queue buffer by buffer, with its locking), and a credit message to  *)
(* the number of credits it carries.  A completion handler thread's step   *)
(* is merged with the transfer that causes it.                             *)
(*                                                                         *)
(* The sessions start unconnected: the sender is an RdmaConnector whose    *)
(* application calls Connect (src/core/linux/RdmaConnector.cpp), the       *)
(* receiver the session an RdmaListener's Accept creates                   *)
(* (src/core/linux/RdmaListener.cpp and the accepting constructor of       *)
(* RdmaConnectedSession).  The CM handshake between them is reduced to the *)
(* events it queues on each side's ConnectionQueue                         *)
(* (src/core/linux/EventManager.h).                                        *)
(***************************************************************************)
EXTENDS Naturals, Sequences, SequencesExt, ConnectionData

CONSTANTS
  NumSend,              \* sender's transfer buffers (maxConcurrentTransactions)
  NumRecv,              \* receiver's transfer buffers
  AuxDepth,             \* credit messages per creditBuffers queue (100)
  MaxCreditsPerBuffer,  \* kMaxCreditsPerBuffer (100)
  AcceptDirections,     \* directions the listening application accepts with
  ConnectorData         \* ConnectionData a connector may send

ASSUME /\ NumSend \in Nat \ {0} /\ NumRecv \in Nat \ {0}
       /\ AuxDepth \in Nat \ {0} /\ MaxCreditsPerBuffer \in Nat \ {0}
       /\ AcceptDirections \subseteq {Send, Receive}
       /\ ConnectorData \subseteq Seq(0..255)

VARIABLES
  wireUp,      \* both queue pairs exist and are connected
  \* connection establishment
  cPc,         \* the connector's Connect: "Idle" (not called), "Wait" (for
               \* ESTABLISHED), "Cancel" (its catch joining the
               \* AckHandlerThread), "Done" or "Failed"
  cAbortWaits, \* the connector's ConnectionQueue.waitAborted (sticky)
  cData,       \* the connector's connectionData, sent with its REQ
  lDir,        \* the direction the listening application accepts with
  lPc,         \* Accept: "Accept" (for CONNECT_REQUEST), "Est" (the
               \* accepting constructor waiting for ESTABLISHED), "Done",
               \* "Rejected" (the connector's data failed the check) or
               \* "Failed"
  cm,          \* the handshake: "Idle", "Req" (CONNECT_REQUEST queued at the
               \* listener), "Rep" (accepted, REP on its way), "Rtu" (the
               \* connector's ESTABLISHED queued), "Up" (the listener's too)
               \* or "Rej" (REJECTED queued for the side still waiting)
  cmDisc,      \* DISCONNECTED has been queued on both connections
  \* Send session
  sConn,       \* connected
  sCfg,        \* transferBuffers exists (ConfigureBuffers has run)
  sPre,        \* preConfigureCredits: credits staged before configure
  sCredits,    \* availableCredits
  sIdle, sUser, sWait, sQueued,
               \* idle, user, waiting-for-credit and queued (posted) sends
  sAborted,    \* transferBuffers aborted
  sAuxPosted,  \* creditBuffers: receives posted
  sAuxDone,    \* creditBuffers: completed credit messages (their counts)
  sAuxAborted, \* creditBuffers aborted
  ack,         \* AckHandlerThread: "Wait", "Add" or "Exited"
  ackLeft,     \* credits of the current message still to add
  \* the wire, receiver to sender
  auxWire,     \* credit messages posted by the receiver, in order
  \* Receive session
  rConn,       \* connected
  rCfg,        \* "No", "Credit" (PostConfigure sending credits), "Done"
  rLeft,       \* PostConfigure's creditsLeft
  rIdle, rPosted, rDone, rUser,
               \* idle, posted, completed and user receive buffers
  rAborted,    \* transferBuffers aborted
  rAuxIdle,    \* creditBuffers: idle credit messages
  rAuxAborted, \* creditBuffers aborted
  rAuxErr,     \* creditBuffers' queueStatus holds a completion error
  rPc,         \* application thread: "Idle", or "Credit" inside
               \* QueueRecvBuffer between the post and SendCreditUpdate
  \* the applications' teardown calls
  sApp,        \* sender: "Run", "Abort" (in AbortSession), "Aborted",
               \* "Close" (in CloseSession) or "Closed"
  rClose       \* receiver: "No", "Wait" (CloseSession waiting for the
               \* session's exclusive access) or "Done"

vars == <<wireUp, cPc, cAbortWaits, cData, lDir, lPc, cm, cmDisc, rAuxErr, sConn, sCfg, sPre, sCredits, sIdle, sUser, sWait, sQueued,
          sAborted, sAuxPosted, sAuxDone, sAuxAborted, ack, ackLeft, auxWire,
          rConn, rCfg, rLeft, rIdle, rPosted, rDone, rUser, rAborted,
          rAuxIdle, rAuxAborted, rPc, sApp, rClose>>

sendVars == <<sCfg, sPre, sCredits, sIdle, sUser, sWait, sQueued, sAborted>>
ackVars == <<sAuxPosted, sAuxDone, sAuxAborted, ack, ackLeft>>
recvVars == <<rCfg, rLeft, rIdle, rPosted, rDone, rUser, rAborted, rPc>>
appVars == <<sApp, rClose>>
hsVars == <<cPc, cAbortWaits, cData, lDir, lPc, cm, cmDisc>>

\* An RdmaConnector just created (its connection queue made, no queue pair
\* yet), its ConnectionData property left empty or set to one of
\* ConnectorData, and a listener about to Accept with one of
\* AcceptDirections.
Init ==
  /\ wireUp = FALSE
  /\ cPc = "Idle" /\ cAbortWaits = FALSE /\ cData \in ConnectorData
  /\ lDir \in AcceptDirections
  /\ lPc = "Accept" /\ cm = "Idle" /\ cmDisc = FALSE
  /\ sConn = FALSE /\ sCfg = FALSE /\ sPre = 0 /\ sCredits = 0
  /\ sIdle = 0 /\ sUser = 0 /\ sWait = 0 /\ sQueued = 0 /\ sAborted = FALSE
  /\ sAuxPosted = 0 /\ sAuxDone = <<>> /\ sAuxAborted = FALSE
  /\ ack = "None" /\ ackLeft = 0
  /\ auxWire = <<>>
  /\ rConn = FALSE /\ rCfg = "No" /\ rLeft = 0
  /\ rIdle = 0 /\ rPosted = 0 /\ rDone = 0 /\ rUser = 0 /\ rAborted = FALSE
  /\ rAuxIdle = 0 /\ rAuxAborted = FALSE /\ rAuxErr = FALSE
  /\ rPc = "Idle"
  /\ sApp = "Run" /\ rClose = "No"

-----------------------------------------------------------------------------
(* Send session *)

\* The sending application can call into its session: it is not inside
\* AbortSession (which holds the session's exclusive access) and has not
\* closed the session.
SenderCalls == sApp \in {"Run", "Aborted"}

\* Mutant of SConfigureBuffers: ProcessPreConfigureCredits is not called.
SConfigureBuffersDropsStaged ==
  /\ SenderCalls /\ sConn /\ ~sCfg
  /\ sCfg' = TRUE /\ sIdle' = NumSend
  /\ sCredits' = 0 /\ sPre' = 0
  /\ UNCHANGED <<wireUp, sConn, sUser, sWait, sQueued, sAborted>>
  /\ UNCHANGED <<ackVars, auxWire, rConn, recvVars, rAuxIdle, rAuxAborted,
                 appVars>>
  /\ UNCHANGED <<hsVars, rAuxErr>>

\* ConfigureBuffers under configureLock: create the queue, then
\* ProcessPreConfigureCredits moves the staged credits into it, in order.
SConfigureBuffers ==
  /\ SenderCalls /\ sConn /\ ~sCfg
  /\ sCfg' = TRUE /\ sIdle' = NumSend
  /\ sCredits' = sPre /\ sPre' = 0
  /\ UNCHANGED <<wireUp, sConn, sUser, sWait, sQueued, sAborted>>
  /\ UNCHANGED <<ackVars, auxWire, rConn, recvVars, rAuxIdle, rAuxAborted,
                 appVars>>
  /\ UNCHANGED <<hsVars, rAuxErr>>

\* AcquireSendRegion: WaitForIdleBuffer fails once the queue has an error.
SAcquireSendRegion ==
  /\ SenderCalls /\ sCfg /\ ~sAborted /\ sIdle > 0
  /\ sIdle' = sIdle - 1 /\ sUser' = sUser + 1
  /\ UNCHANGED <<wireUp, sConn, sCfg, sPre, sCredits, sWait, sQueued, sAborted>>
  /\ UNCHANGED <<ackVars, auxWire, rConn, recvVars, rAuxIdle, rAuxAborted,
                 appVars>>
  /\ UNCHANGED <<hsVars, rAuxErr>>

\* QueueBufferRegion -> Requeue -> QueueBuffer: Disconnected unless
\* connected; then QueueSendBuffer: the sticky error, or a credit is popped
\* and the buffer posted, or it is parked waiting for one.
SQueueBufferRegion ==
  /\ SenderCalls /\ sUser > 0 /\ sConn /\ ~sAborted
  /\ sUser' = sUser - 1
  /\ \/ /\ sCredits > 0
        /\ sCredits' = sCredits - 1 /\ sQueued' = sQueued + 1
        /\ UNCHANGED sWait
     \/ /\ sCredits = 0
        /\ sWait' = sWait + 1
        /\ UNCHANGED <<sCredits, sQueued>>
  /\ UNCHANGED <<wireUp, sConn, sCfg, sPre, sIdle, sAborted>>
  /\ UNCHANGED <<ackVars, auxWire, rConn, recvVars, rAuxIdle, rAuxAborted,
                 appVars>>
  /\ UNCHANGED <<hsVars, rAuxErr>>

\* Mutant of DeliverData: the send completion leaves its buffer queued.
DeliverDataNoPutBack ==
  /\ wireUp /\ sQueued > 0 /\ rPosted > 0
  /\ sQueued' = sQueued - 1
  /\ rPosted' = rPosted - 1 /\ rDone' = rDone + 1
  /\ UNCHANGED <<wireUp, sConn, sCfg, sPre, sCredits, sIdle, sUser, sWait,
                 sAborted>>
  /\ UNCHANGED <<ackVars, auxWire, rConn, rCfg, rLeft, rIdle, rUser, rAborted,
                 rAuxIdle, rAuxAborted, rPc, appVars>>
  /\ UNCHANGED <<hsVars, rAuxErr>>

\* A send lands in the oldest posted receive.  The receiver's completion
\* moves that buffer to completedBuffers; the sender's send completion puts
\* its buffer back to idle.  With no receive posted the NIC retries (RNR).
DeliverData ==
  /\ wireUp /\ sQueued > 0 /\ rPosted > 0
  /\ sQueued' = sQueued - 1 /\ sIdle' = sIdle + 1
  /\ rPosted' = rPosted - 1 /\ rDone' = rDone + 1
  /\ UNCHANGED <<wireUp, sConn, sCfg, sPre, sCredits, sUser, sWait, sAborted>>
  /\ UNCHANGED <<ackVars, auxWire, rConn, rCfg, rLeft, rIdle, rUser, rAborted,
                 rAuxIdle, rAuxAborted, rPc, appVars>>
  /\ UNCHANGED <<hsVars, rAuxErr>>

-----------------------------------------------------------------------------
(* The sender's AckHandlerThread *)

\* Mutant of AckWait: the decode loop stops one credit short.
AckWaitShort ==
  /\ ack = "Wait"
  /\ \/ /\ sAuxDone # <<>>
        /\ ackLeft' = Head(sAuxDone) - 1 /\ sAuxDone' = Tail(sAuxDone)
        /\ ack' = "Add"
        /\ UNCHANGED <<sAuxPosted, sAuxAborted>>
     \/ /\ sAuxDone = <<>> /\ sAuxAborted
        /\ ack' = "Exited"
        /\ UNCHANGED <<sAuxPosted, sAuxDone, sAuxAborted, ackLeft>>
  /\ UNCHANGED <<wireUp, sendVars, sConn, auxWire, rConn, recvVars, rAuxIdle,
                 rAuxAborted, appVars>>
  /\ UNCHANGED <<hsVars, rAuxErr>>

\* WaitForCompletedBuffer(-1) on creditBuffers: a completed message is
\* returned even after an abort; with none, the abort's error ends the
\* thread (its catch-all exits silently).
AckWait ==
  /\ ack = "Wait"
  /\ \/ /\ sAuxDone # <<>>
        /\ ackLeft' = Head(sAuxDone) /\ sAuxDone' = Tail(sAuxDone)
        /\ ack' = "Add"
        /\ UNCHANGED <<sAuxPosted, sAuxAborted>>
     \/ /\ sAuxDone = <<>> /\ sAuxAborted
        /\ ack' = "Exited"
        /\ UNCHANGED <<sAuxPosted, sAuxDone, sAuxAborted, ackLeft>>
  /\ UNCHANGED <<wireUp, sendVars, sConn, auxWire, rConn, recvVars, rAuxIdle,
                 rAuxAborted, appVars>>
  /\ UNCHANGED <<hsVars, rAuxErr>>

\* AddCredit for one decoded credit, under configureLock: staged in
\* preConfigureCredits before configure, else RdmaBufferQueue::AddCredit,
\* which posts the oldest parked send with it.
AckAddCredit ==
  /\ ack = "Add" /\ ackLeft > 0
  /\ ackLeft' = ackLeft - 1
  /\ \/ /\ ~sCfg
        /\ sPre' = sPre + 1
        /\ UNCHANGED <<sCredits, sWait, sQueued>>
     \/ /\ sCfg /\ sWait = 0
        /\ sCredits' = sCredits + 1
        /\ UNCHANGED <<sPre, sWait, sQueued>>
     \/ /\ sCfg /\ sWait > 0
        /\ sWait' = sWait - 1 /\ sQueued' = sQueued + 1
        /\ UNCHANGED <<sPre, sCredits>>
  /\ UNCHANGED <<wireUp, sConn, sCfg, sIdle, sUser, sAborted, sAuxPosted,
                 sAuxDone, sAuxAborted, ack>>
  /\ UNCHANGED <<auxWire, rConn, recvVars, rAuxIdle, rAuxAborted, appVars>>
  /\ UNCHANGED <<hsVars, rAuxErr>>

\* Mutant of AckRequeue: the credit message is not re-posted.
AckRequeueDropped ==
  /\ ack = "Add" /\ ackLeft = 0
  /\ \/ /\ ~sAuxAborted
        /\ ack' = "Wait" /\ UNCHANGED sAuxPosted
     \/ /\ sAuxAborted
        /\ ack' = "Exited" /\ UNCHANGED sAuxPosted
  /\ UNCHANGED <<wireUp, sendVars, sConn, sAuxDone, sAuxAborted, ackLeft>>
  /\ UNCHANGED <<auxWire, rConn, recvVars, rAuxIdle, rAuxAborted, appVars>>
  /\ UNCHANGED <<hsVars, rAuxErr>>

\* Re-post the credit message: QueueBuffer(IgnoreCredits::Yes) throws once
\* creditBuffers is aborted, which ends the thread.
AckRequeue ==
  /\ ack = "Add" /\ ackLeft = 0
  /\ \/ /\ ~sAuxAborted
        /\ sAuxPosted' = sAuxPosted + 1 /\ ack' = "Wait"
     \/ /\ sAuxAborted
        /\ ack' = "Exited" /\ UNCHANGED sAuxPosted
  /\ UNCHANGED <<wireUp, sendVars, sConn, sAuxDone, sAuxAborted, ackLeft>>
  /\ UNCHANGED <<auxWire, rConn, recvVars, rAuxIdle, rAuxAborted, appVars>>
  /\ UNCHANGED <<hsVars, rAuxErr>>

\* A credit message lands in the sender's oldest posted credit receive;
\* the receiver's send completion puts its message back to idle.  After
\* an Abort the receive is still posted at the NIC, and HandleCompletion
\* swallows its completion.  The connector's completion thread runs from
\* its PostConnect on; until then the message stays on the wire.
DeliverAux ==
  /\ wireUp /\ cPc = "Done" /\ auxWire # <<>> /\ sAuxPosted > 0
  /\ sAuxPosted' = sAuxPosted - 1
  /\ \/ ~sAuxAborted /\ sAuxDone' = Append(sAuxDone, Head(auxWire))
     \/ sAuxAborted /\ UNCHANGED sAuxDone
  /\ auxWire' = Tail(auxWire)
  /\ rAuxIdle' = rAuxIdle + 1
  /\ UNCHANGED <<wireUp, sendVars, sConn, sAuxAborted, ack, ackLeft>>
  /\ UNCHANGED <<rConn, recvVars, rAuxAborted, appVars>>
  /\ UNCHANGED <<hsVars, rAuxErr>>

-----------------------------------------------------------------------------
(* Receive session *)

\* ConfigureBuffers (receiver, autoQueueRx) then PostConfigure's first loop:
\* every buffer is taken idle and posted by QueueRecvBuffer without a
\* credit update; the credits follow in chunks.
RConfigureBuffers ==
  /\ rClose = "No" /\ rConn /\ rCfg = "No"
  /\ rCfg' = "Credit" /\ rPosted' = NumRecv /\ rLeft' = NumRecv
  /\ UNCHANGED <<rIdle, rDone, rUser, rAborted, rPc>>
  /\ UNCHANGED <<wireUp, sConn, sendVars, ackVars, auxWire, rConn, rAuxIdle,
                 rAuxAborted, appVars>>
  /\ UNCHANGED <<hsVars, rAuxErr>>

\* PostConfigure's credit loop: SendCreditUpdate of min(creditsLeft,
\* kMaxCreditsPerBuffer) buffers, each waiting (-1) for an idle credit
\* message; the error of an aborted or failed creditBuffers throws out of
\* ConfigureBuffers.
RSendCreditChunk ==
  /\ rCfg = "Credit"
  /\ \/ /\ ~rAuxAborted /\ ~rAuxErr /\ rAuxIdle > 0
        /\ LET n == IF rLeft < MaxCreditsPerBuffer THEN rLeft
                                                 ELSE MaxCreditsPerBuffer
           IN /\ auxWire' = Append(auxWire, n)
              /\ rLeft' = rLeft - n
        /\ rAuxIdle' = rAuxIdle - 1
        /\ rCfg' = IF rLeft' = 0 THEN "Done" ELSE "Credit"
     \/ /\ rAuxAborted \/ rAuxErr
        /\ rCfg' = "Done" /\ rLeft' = 0
        /\ UNCHANGED <<auxWire, rAuxIdle>>
  /\ UNCHANGED <<rIdle, rPosted, rDone, rUser, rAborted, rPc>>
  /\ UNCHANGED <<wireUp, sConn, sendVars, ackVars, rConn, rAuxAborted, appVars>>
  /\ UNCHANGED <<hsVars, rAuxErr>>

\* AcquireReceivedRegion: a completed buffer is returned, even after an
\* error.
RAcquireReceivedRegion ==
  /\ rClose = "No" /\ rCfg = "Done" /\ rPc = "Idle" /\ rDone > 0
  /\ rDone' = rDone - 1 /\ rUser' = rUser + 1
  /\ UNCHANGED <<rCfg, rLeft, rIdle, rPosted, rAborted, rPc>>
  /\ UNCHANGED <<wireUp, sConn, sendVars, ackVars, auxWire, rConn, rAuxIdle,
                 rAuxAborted, appVars>>
  /\ UNCHANGED <<hsVars, rAuxErr>>

\* ReleaseReceivedBufferRegion -> Requeue -> QueueBuffer: Disconnected
\* unless connected, or the queue's sticky Disconnected; the caller catches
\* Disconnected and releases the region to idle instead.  Otherwise
\* QueueRecvBuffer posts it and goes on to its credit update.
RReleaseReceivedRegion ==
  /\ rClose = "No" /\ rCfg = "Done" /\ rPc = "Idle" /\ rUser > 0
  /\ rUser' = rUser - 1
  /\ \/ /\ rConn /\ ~rAborted
        /\ rPosted' = rPosted + 1 /\ rPc' = "Credit"
        /\ UNCHANGED rIdle
     \/ /\ ~rConn \/ rAborted
        /\ rIdle' = rIdle + 1
        /\ UNCHANGED <<rPosted, rPc>>
  /\ UNCHANGED <<rCfg, rLeft, rDone, rAborted>>
  /\ UNCHANGED <<wireUp, sConn, sendVars, ackVars, auxWire, rConn, rAuxIdle,
                 rAuxAborted, appVars>>
  /\ UNCHANGED <<hsVars, rAuxErr>>

\* Mutant: the credit wait is not woken by the abort of creditBuffers.
RReleaseCreditAbortIgnored ==
  /\ rPc = "Credit"
  /\ rPc' = "Idle"
  /\ ~rAuxAborted /\ rAuxIdle > 0
  /\ rAuxIdle' = rAuxIdle - 1 /\ auxWire' = Append(auxWire, 1)
  /\ UNCHANGED <<rCfg, rLeft, rIdle, rPosted, rDone, rUser, rAborted>>
  /\ UNCHANGED <<wireUp, sConn, sendVars, ackVars, rConn, rAuxAborted, appVars>>
  /\ UNCHANGED <<hsVars, rAuxErr>>

\* QueueRecvBuffer's SendCreditUpdate of one buffer.  If creditBuffers has
\* been aborted meanwhile, its Disconnected reaches the caller's catch,
\* whose Release() finds the region no longer on the user list; a
\* completion error (OperatingSystemError) is returned to the caller.
RReleaseCredit ==
  /\ rPc = "Credit"
  /\ rPc' = "Idle"
  /\ \/ /\ ~rAuxAborted /\ ~rAuxErr /\ rAuxIdle > 0
        /\ rAuxIdle' = rAuxIdle - 1 /\ auxWire' = Append(auxWire, 1)
     \/ /\ rAuxAborted \/ rAuxErr
        /\ UNCHANGED <<rAuxIdle, auxWire>>
  /\ UNCHANGED <<rCfg, rLeft, rIdle, rPosted, rDone, rUser, rAborted>>
  /\ UNCHANGED <<wireUp, sConn, sendVars, ackVars, rConn, rAuxAborted, appVars>>
  /\ UNCHANGED <<hsVars, rAuxErr>>

-----------------------------------------------------------------------------
(* Connection establishment *)

\* PreConnect of a Send session: SetupQueuePair, a fresh creditBuffers,
\* all its credit receives posted, the AckHandlerThread started.
PreConnectSend == sAuxPosted' = AuxDepth /\ ack' = "Wait"

\* RdmaConnector::Connect up to rdma_connect: PreConnect(Send) sets up the
\* queue pair, makes a fresh creditBuffers, posts all its credit receives
\* and starts the AckHandlerThread; with the session's access suspended,
\* the address and the route are resolved, each WaitForEvent(-1) throwing
\* OperationCancelled once waits are aborted; rdma_connect sends the REQ
\* with the session's connectionData, which the listener's queue
\* receives as CONNECT_REQUEST.  A failed resolution, or the abort, goes to
\* the catch, whose Cancel aborts the connection queue and creditBuffers.
SConnect ==
  /\ SenderCalls /\ cPc = "Idle"
  /\ PreConnectSend
  /\ \/ /\ ~cAbortWaits
        /\ cPc' = "Wait" /\ cm' = "Req" /\ sAuxAborted' = FALSE
        /\ UNCHANGED cAbortWaits
     \/ /\ cPc' = "Cancel" /\ cAbortWaits' = TRUE /\ sAuxAborted' = TRUE
        /\ UNCHANGED cm
  /\ UNCHANGED <<wireUp, sConn, sendVars, sAuxDone, ackLeft, auxWire, rConn,
                 recvVars, rAuxIdle, rAuxAborted, rAuxErr, appVars>>
  /\ UNCHANGED <<cData, lDir, lPc, cmDisc>>

\* What Connect's WaitForEvent(cm_id, timeoutMs) and the check of the
\* listener's data come to: the sticky waitAborted is tested first, then a
\* queued event is taken (REJECTED, or ESTABLISHED with the listener's
\* default ConnectionData), and with none queued the caller's timeout ends
\* the wait.
ConnectOutcome ==
  CASE cAbortWaits             -> "OperationCancelled"
    [] cm = "Rej"              -> "UnableToConnect"
    [] cm \in {"Req", "Rep"}   -> "Timeout"
    [] OTHER -> ValidateConnectionData(CreateDefaultConnectionData(lDir), Send)

\* ESTABLISHED and valid data: PostConnect sets connected and starts the
\* ConnectionHandlerThread and the completion thread; everConnected.
SEstablished ==
  /\ cPc = "Wait" /\ ConnectOutcome = "OK"
  /\ cPc' = "Done" /\ sConn' = TRUE
  /\ UNCHANGED <<wireUp, sendVars, ackVars, auxWire, rConn, recvVars, rAuxIdle,
                 rAuxAborted, rAuxErr, appVars>>
  /\ UNCHANGED <<cAbortWaits, cData, lDir, lPc, cm, cmDisc>>

\* Mutant of SConnectFails: the catch's Cancel leaves creditBuffers alone.
SConnectFailsNoAbort ==
  /\ cPc = "Wait" /\ ConnectOutcome # "OK"
  /\ cPc' = "Cancel" /\ cAbortWaits' = TRUE
  /\ UNCHANGED <<wireUp, sConn, sendVars, ackVars, auxWire, rConn, recvVars,
                 rAuxIdle, rAuxAborted, rAuxErr, appVars>>
  /\ UNCHANGED <<cData, lDir, lPc, cm, cmDisc>>

\* Anything else throws into Connect's catch: Cancel aborts the connection
\* queue and creditBuffers (no transferBuffers exists yet) and joins the
\* AckHandlerThread.
SConnectFails ==
  /\ cPc = "Wait" /\ ConnectOutcome # "OK"
  /\ cPc' = "Cancel" /\ cAbortWaits' = TRUE /\ sAuxAborted' = TRUE
  /\ UNCHANGED <<wireUp, sConn, sendVars, sAuxPosted, sAuxDone, ack, ackLeft,
                 auxWire, rConn, recvVars, rAuxIdle, rAuxAborted, rAuxErr,
                 appVars>>
  /\ UNCHANGED <<cData, lDir, lPc, cm, cmDisc>>

\* The join done, DestroyQP destroys the queue pair (its posted credit
\* receives with it) and Connect rethrows.  No rdma_disconnect: the CM
\* connection, if the REP came, stays up.
SConnectReturns ==
  /\ cPc = "Cancel" /\ ack = "Exited"
  /\ cPc' = "Failed" /\ wireUp' = FALSE /\ sAuxPosted' = 0
  /\ UNCHANGED <<sConn, sendVars, sAuxDone, sAuxAborted, ack, ackLeft, auxWire,
                 rConn, recvVars, rAuxIdle, rAuxAborted, rAuxErr, appVars>>
  /\ UNCHANGED <<cAbortWaits, cData, lDir, lPc, cm, cmDisc>>

\* RdmaListener::Accept's WaitForEvent(timeoutMs) returns the queued
\* CONNECT_REQUEST.
ConnectRequestTaken == lPc = "Accept" /\ cm = "Req"

\* RdmaListener::Accept takes CONNECT_REQUEST and constructs the session:
\* its connection queue, PreConnect(direction) (a creditBuffers of AuxDepth
\* idle messages), ValidateConnectionData of the connector's data.  Valid,
\* rdma_accept readies the queue pair and sends the REP; invalid,
\* rdma_reject, and the constructor's catch destroys the session
\* (HandleDisconnect aborts its queues) and Accept throws the check's
\* error.  (An Accept that times out before
\* the request comes changes nothing and is called again.)
LAccept ==
  /\ ConnectRequestTaken
  /\ LET verdict == ValidateConnectionData(cData, lDir)
     IN \/ /\ verdict = "OK"
           /\ lPc' = "Est" /\ cm' = "Rep" /\ rAuxIdle' = AuxDepth
           /\ UNCHANGED rAuxAborted
        \/ /\ verdict # "OK"
           /\ lPc' = "Rejected" /\ cm' = "Rej" /\ rAuxAborted' = TRUE
           /\ UNCHANGED rAuxIdle
  /\ UNCHANGED <<wireUp, sConn, sendVars, ackVars, auxWire, rConn, recvVars,
                 rAuxErr, appVars>>
  /\ UNCHANGED <<cPc, cAbortWaits, cData, lDir, cmDisc>>

\* The connector's CM takes the REP (the EventManager's thread reading the
\* event channel): its queue pair, if Connect's catch has not destroyed it,
\* goes to ready-to-send, the RTU goes out and ESTABLISHED is queued with
\* the listener's data.  A destroyed connector id answers with a reject.
CMReply ==
  /\ cm = "Rep"
  /\ \/ /\ sApp # "Closed"
        /\ cm' = "Rtu" /\ wireUp' = (cPc \in {"Wait", "Cancel"})
     \/ /\ sApp = "Closed"
        /\ cm' = "Rej" /\ UNCHANGED wireUp
  /\ UNCHANGED <<sConn, sendVars, ackVars, auxWire, rConn, recvVars, rAuxIdle,
                 rAuxAborted, rAuxErr, appVars>>
  /\ UNCHANGED <<cPc, cAbortWaits, cData, lDir, lPc, cmDisc>>

\* The RTU reaches the listener's CM: ESTABLISHED is queued for the
\* accepting constructor.
CMReadyToUse ==
  /\ cm = "Rtu"
  /\ cm' = "Up"
  /\ UNCHANGED <<wireUp, sConn, sendVars, ackVars, auxWire, rConn, recvVars,
                 rAuxIdle, rAuxAborted, rAuxErr, appVars>>
  /\ UNCHANGED <<cPc, cAbortWaits, cData, lDir, lPc, cmDisc>>

\* The constructor's WaitForEvent(acceptedId, 1000) returns ESTABLISHED:
\* PostConnect sets connected and starts the ConnectionHandlerThread and
\* the completion thread, and Accept returns the session.
LEstablished ==
  /\ lPc = "Est" /\ cm = "Up"
  /\ lPc' = "Done" /\ rConn' = TRUE
  /\ UNCHANGED <<wireUp, sConn, sendVars, ackVars, auxWire, recvVars, rAuxIdle,
                 rAuxAborted, rAuxErr, appVars>>
  /\ UNCHANGED <<cPc, cAbortWaits, cData, lDir, cm, cmDisc>>

\* After 1000 ms with nothing queued, or on REJECTED, the constructor's
\* catch calls Destroy: rdma_disconnect, HandleDisconnect aborting
\* creditBuffers, queue pair and id destroyed.  A connector that has not
\* taken the REP yet is rejected; one that has sent its RTU is
\* disconnected.
LEstFails ==
  /\ lPc = "Est" /\ cm \in {"Rep", "Rtu", "Rej"}
  /\ lPc' = "Failed" /\ wireUp' = FALSE /\ rAuxAborted' = TRUE
  /\ \/ cm = "Rep" /\ cm' = "Rej" /\ UNCHANGED cmDisc
     \/ cm = "Rtu" /\ cmDisc' = TRUE /\ UNCHANGED cm
     \/ cm = "Rej" /\ UNCHANGED <<cm, cmDisc>>
  /\ UNCHANGED <<sConn, sendVars, ackVars, auxWire, rConn, recvVars, rAuxIdle,
                 rAuxErr, appVars>>
  /\ UNCHANGED <<cPc, cAbortWaits, cData, lDir>>

\* A credit message sent to a peer whose queue pair is gone fails (retry
\* count exceeded): the completion thread's HandleCompletion puts it back
\* to idle and assigns the error to queueStatus, where it stays.  An
\* aborted queue swallows the completion.
RAuxSendFails ==
  /\ ~wireUp /\ lPc = "Done" /\ rClose # "Done"
  /\ auxWire # <<>> /\ ~rAuxAborted
  /\ auxWire' = Tail(auxWire) /\ rAuxIdle' = rAuxIdle + 1 /\ rAuxErr' = TRUE
  /\ UNCHANGED <<wireUp, sConn, sendVars, ackVars, rConn, recvVars,
                 rAuxAborted, appVars>>
  /\ UNCHANGED hsVars

-----------------------------------------------------------------------------
(* Disconnection *)

\* The established connection fails: nothing is transferred any more and
\* DISCONNECTED is queued on both sides' connection queues.
LinkDown ==
  /\ wireUp /\ cm = "Up"
  /\ wireUp' = FALSE /\ cmDisc' = TRUE
  /\ UNCHANGED <<sConn, sendVars, ackVars, auxWire, rConn, recvVars, rAuxIdle,
                 rAuxAborted, appVars>>
  /\ UNCHANGED <<cPc, cAbortWaits, cData, lDir, lPc, cm, rAuxErr>>

\* The ConnectionHandlerThread, started by PostConnect, takes DISCONNECTED
\* unless its waits were aborted, and calls HandleDisconnect:
\* connected = false, then under configureLock Abort of transferBuffers
\* (queued and parked buffers back to idle) and of creditBuffers (posted
\* credit receives back to idle).
SHandleDisconnect ==
  /\ cmDisc /\ sConn /\ ~cAbortWaits
  /\ sConn' = FALSE
  /\ sAborted' = sCfg
  /\ sIdle' = sIdle + sQueued + sWait /\ sQueued' = 0 /\ sWait' = 0
  /\ sAuxAborted' = TRUE /\ sAuxPosted' = 0
  /\ UNCHANGED <<wireUp, sCfg, sPre, sCredits, sUser, sAuxDone, ack, ackLeft,
                 auxWire, rConn, recvVars, rAuxIdle, rAuxAborted, appVars>>
  /\ UNCHANGED <<hsVars, rAuxErr>>

\* The receiver's HandleDisconnect: posted receives and posted credit
\* messages go back to idle.
RHandleDisconnect ==
  /\ cmDisc /\ rConn
  /\ rConn' = FALSE
  /\ rAborted' = (rCfg # "No")
  /\ rIdle' = rIdle + rPosted /\ rPosted' = 0
  /\ rAuxAborted' = TRUE
  /\ rAuxIdle' = rAuxIdle + Len(auxWire) /\ auxWire' = <<>>
  /\ UNCHANGED <<rCfg, rLeft, rDone, rUser, rPc>>
  /\ UNCHANGED <<wireUp, sConn, sendVars, ackVars, appVars>>
  /\ UNCHANGED <<hsVars, rAuxErr>>

-----------------------------------------------------------------------------
(* The applications' teardown calls.  The sender is the session that     *)
(* connected (an RdmaConnector), the receiver the one a listener accepted. *)

\* RdmaConnector::Cancel: AbortWaits ends the ConnectionHandlerThread for
\* good, then Abort(OperationCancelled) of creditBuffers and, once
\* configured, of transferBuffers (Abort returns at once on a queue already
\* aborted).  Parked sends go back to idle; posted sends and credit
\* receives stay posted at the NIC, their completions swallowed.
SCancel ==
  /\ cAbortWaits' = TRUE
  /\ sAuxAborted' = TRUE /\ sAborted' = sCfg
  /\ sIdle' = sIdle + sWait /\ sWait' = 0
  /\ UNCHANGED <<wireUp, sConn, sCfg, sPre, sCredits, sUser, sQueued,
                 sAuxPosted, sAuxDone, ack, ackLeft>>
  /\ UNCHANGED <<auxWire, rConn, recvVars, rAuxIdle, rAuxAborted, rAuxErr>>
  /\ UNCHANGED <<cData, lDir, lPc, cm, cmDisc>>

\* easyrdma_AbortSession: Cancel with the session's exclusive access,
\* which a Connect in progress has suspended.
SAbortSession ==
  /\ sApp = "Run"
  /\ sApp' = "Abort" /\ UNCHANGED <<cPc, rClose>> /\ SCancel

\* Cancel returns once it has joined the AckHandlerThread, if started.
SAbortReturns ==
  /\ sApp = "Abort" /\ ack \in {"Exited", "None"}
  /\ sApp' = "Aborted"
  /\ UNCHANGED <<wireUp, sConn, sendVars, ackVars, auxWire, rConn, recvVars,
                 rAuxIdle, rAuxAborted, rClose>>
  /\ UNCHANGED <<hsVars, rAuxErr>>

\* easyrdma_CloseSession -> DestroySession: the handle is erased and the
\* session cancelled.
SCloseSession ==
  /\ SenderCalls
  /\ sApp' = "Close" /\ UNCHANGED <<cPc, rClose>> /\ SCancel

\* An application that aborted its session later closes it.
SCloseAborted == sApp = "Aborted" /\ SCloseSession

\* An application whose Connect failed closes the session.
SCloseFailed == cPc = "Failed" /\ SCloseSession

\* Mutant of SDestroySession: Destroy does not call rdma_disconnect.
SDestroySessionNoDisconnect ==
  /\ sApp = "Close" /\ ack \in {"Exited", "None"}
  /\ cPc \notin {"Wait", "Cancel"}
  /\ sApp' = "Closed"
  /\ wireUp' = FALSE /\ sConn' = FALSE
  /\ sIdle' = sIdle + sQueued + sWait /\ sQueued' = 0 /\ sWait' = 0
  /\ sAuxPosted' = 0
  /\ UNCHANGED <<sCfg, sPre, sCredits, sUser, sAborted, sAuxDone, sAuxAborted,
                 ack, ackLeft, auxWire, rConn, recvVars, rAuxIdle, rAuxAborted,
                 rClose>>
  /\ UNCHANGED <<cPc, cAbortWaits, cData, lDir, lPc, cm, cmDisc, rAuxErr>>

\* Cancel has joined the AckHandlerThread, a Connect in progress has
\* dropped its reference, the last reference goes, and
\* ~RdmaConnectedSession's Destroy disconnects (rdma_disconnect: a DREQ if
\* the CM connection is established), joins the completion and connection
\* handler threads (the poller's pipe and AbortWaits end their waits for
\* good) and calls HandleDisconnect; ~RdmaConnectedSessionBase's Cancel
\* finds both queues aborted.  The id is destroyed: a REP still to come
\* is answered with a reject.
SDestroySession ==
  /\ sApp = "Close" /\ ack \in {"Exited", "None"}
  /\ cPc \notin {"Wait", "Cancel"}
  /\ sApp' = "Closed"
  /\ cmDisc' = (cmDisc \/ cm \in {"Rtu", "Up"})
  /\ wireUp' = FALSE /\ sConn' = FALSE
  /\ sIdle' = sIdle + sQueued + sWait /\ sQueued' = 0 /\ sWait' = 0
  /\ sAuxPosted' = 0
  /\ UNCHANGED <<sCfg, sPre, sCredits, sUser, sAborted, sAuxDone, sAuxAborted,
                 ack, ackLeft, auxWire, rConn, recvVars, rAuxIdle, rAuxAborted,
                 rClose>>
  /\ UNCHANGED <<cPc, cAbortWaits, cData, lDir, lPc, cm, rAuxErr>>

\* easyrdma_CloseSession on the receiver: DestroySession waits, holding
\* mapLock, for the session's exclusive access.  A release or configure
\* inside SendCreditUpdate holds that access; no new call gets it.
RCloseSession ==
  /\ lPc = "Done" /\ rClose = "No"
  /\ rClose' = "Wait"
  /\ UNCHANGED <<wireUp, sConn, sendVars, ackVars, auxWire, rConn, recvVars,
                 rAuxIdle, rAuxAborted, sApp>>
  /\ UNCHANGED <<hsVars, rAuxErr>>

\* The access granted, the handle is erased and Cancel aborts both queues
\* (OperationCancelled); no other reference is left, and the destructor's
\* Destroy disconnects, joins the handler threads and calls
\* HandleDisconnect: posted receives and credit messages go back to idle.
RDestroySession ==
  /\ rClose = "Wait" /\ rPc = "Idle" /\ rCfg # "Credit"
  /\ rClose' = "Done"
  /\ wireUp' = FALSE /\ rConn' = FALSE /\ cmDisc' = TRUE
  /\ rAborted' = (rCfg # "No")
  /\ rIdle' = rIdle + rPosted /\ rPosted' = 0
  /\ rAuxAborted' = TRUE
  /\ rAuxIdle' = rAuxIdle + Len(auxWire) /\ auxWire' = <<>>
  /\ UNCHANGED <<rCfg, rLeft, rDone, rUser, rPc, sConn, sendVars, ackVars,
                 sApp>>
  /\ UNCHANGED <<cPc, cAbortWaits, cData, lDir, lPc, cm, rAuxErr>>

\* Neither session is connected, or both have handled the disconnect:
\* only calls that fail at once, and the sessions' destruction, are left.
Disconnected == ~wireUp /\ ~sConn /\ ~rConn

Next ==
  \/ SConnect \/ SEstablished \/ SConnectFails \/ SConnectReturns
  \/ LAccept \/ CMReply \/ CMReadyToUse \/ LEstablished \/ LEstFails
  \/ RAuxSendFails
  \/ SConfigureBuffers \/ SAcquireSendRegion \/ SQueueBufferRegion
  \/ DeliverData \/ DeliverAux
  \/ AckWait \/ AckAddCredit \/ AckRequeue
  \/ RConfigureBuffers \/ RSendCreditChunk
  \/ RAcquireReceivedRegion \/ RReleaseReceivedRegion \/ RReleaseCredit
  \/ LinkDown \/ SHandleDisconnect \/ RHandleDisconnect
  \/ SAbortSession \/ SAbortReturns \/ SCloseSession \/ SDestroySession
  \/ RCloseSession \/ RDestroySession
  \/ Disconnected /\ UNCHANGED vars

\* The library's threads (the completion handlers, the AckHandlerThread,
\* the ConnectionHandlerThreads, the EventManager's), the CM, the NIC,
\* the clocks of finite timeouts, and a calling thread inside a call are
\* weakly fair.  The listening application calls Accept until a session
\* comes; the receiving application configures its session and keeps
\* reading: it takes every completed buffer and releases it, unless it
\* closes the session.  The sending application's calls (Connect among
\* them), the applications' decisions to abort or close, and the
\* connection failure are not fair.
Fairness ==
  /\ WF_vars(SEstablished) /\ WF_vars(SConnectFails) /\ WF_vars(SConnectReturns)
  /\ WF_vars(LAccept) /\ WF_vars(CMReply) /\ WF_vars(CMReadyToUse)
  /\ WF_vars(LEstablished) /\ WF_vars(LEstFails) /\ WF_vars(RAuxSendFails)
  /\ WF_vars(DeliverData) /\ WF_vars(DeliverAux)
  /\ WF_vars(AckWait) /\ WF_vars(AckAddCredit) /\ WF_vars(AckRequeue)
  /\ WF_vars(RConfigureBuffers) /\ WF_vars(RSendCreditChunk) /\ WF_vars(RReleaseCredit)
  /\ WF_vars(RAcquireReceivedRegion) /\ WF_vars(RReleaseReceivedRegion)
  /\ WF_vars(SHandleDisconnect) /\ WF_vars(RHandleDisconnect)
  /\ WF_vars(SAbortReturns) /\ WF_vars(SDestroySession)
  /\ WF_vars(RDestroySession)

\* The sending application, having aborted its session or failed to
\* connect it, closes it.
Spec == Init /\ [][Next]_vars /\ Fairness
        /\ WF_vars(SCloseAborted) /\ WF_vars(SCloseFailed)

\* The sending application may keep an aborted session open.
SpecAbortedStaysOpen == Init /\ [][Next]_vars /\ Fairness /\ WF_vars(SCloseFailed)

-----------------------------------------------------------------------------
(* Properties *)

Total(s) == FoldSeq(+, 0, s)

\* Credits announced by the receiver and not yet used by a send: in the
\* receiver's PostConfigure or release, on the wire, in the sender's
\* credit queue or its AckHandlerThread, staged, or available.
CreditsOutstanding ==
  rLeft + (IF rPc = "Credit" THEN 1 ELSE 0) + Total(auxWire) + Total(sAuxDone)
  + ackLeft + sPre + sCredits

\* Every buffer is in exactly one state of its queue, and no queue holds
\* more credit messages than it has.
TypeOK ==
  /\ {wireUp, cAbortWaits, cmDisc, sConn, sCfg, sAborted, sAuxAborted, rConn,
      rAborted, rAuxAborted, rAuxErr} \subseteq BOOLEAN
  /\ cPc \in {"Idle", "Wait", "Cancel", "Done", "Failed"}
  /\ lPc \in {"Accept", "Est", "Done", "Rejected", "Failed"}
  /\ lDir \in AcceptDirections /\ cData \in ConnectorData
  /\ cm \in {"Idle", "Req", "Rep", "Rtu", "Up", "Rej"}
  /\ sIdle + sUser + sWait + sQueued = IF sCfg THEN NumSend ELSE 0
  /\ rIdle + rPosted + rDone + rUser = IF rCfg = "No" THEN 0 ELSE NumRecv
  /\ sAuxPosted + Len(sAuxDone) + (IF ack = "Add" THEN 1 ELSE 0) <= AuxDepth
  /\ rAuxIdle + Len(auxWire) <= AuxDepth
  /\ sAuxDone \in Seq(1..MaxCreditsPerBuffer)
  /\ auxWire \in Seq(1..MaxCreditsPerBuffer)
  /\ ack \in {"None", "Wait", "Add", "Exited"}
  /\ rCfg \in {"No", "Credit", "Done"} /\ rPc \in {"Idle", "Credit"}
  /\ sApp \in {"Run", "Abort", "Aborted", "Close", "Closed"}
  /\ rClose \in {"No", "Wait", "Done"}
  /\ {sPre, sCredits, ackLeft, rLeft} \subseteq Nat

\* The credit protocol's accounting, which QueueRecvBuffer (post, then
\* announce), PostConfigure, the AckHandlerThread's decode loop and
\* ProcessPreConfigureCredits keep together: while the connection is up,
\* the receives the receiver has posted are exactly the sends in flight
\* plus the credits outstanding.  So no send ever finds no receive posted,
\* and no announced receive is forgotten.  (A sender that aborted its
\* credit queue drops the credits that still arrive.)
CreditsMatchPostedReceives ==
  wireUp /\ ~sAuxAborted => rPosted = sQueued + CreditsOutstanding

\* A credit update that a ReleaseReceivedBufferRegion has to send is
\* eventually sent (or fails with the connection): the receiver's credit
\* messages come back only when the sender's AckHandlerThread re-posts its
\* credit receives.
CreditUpdateCompletes ==
  rPc = "Credit" ~> rPc = "Idle"

\* While the receiving application keeps reading, a send parked for a credit
\* with nothing in flight is eventually posted (or the connection fails):
\* buffersQueuedWaitingForCredits is a FIFO that AddCredit drains from the
\* head, so each parked send goes in its turn.
ParkedSendsGo ==
  (sWait > 0 /\ sQueued = 0) ~> (sQueued > 0 \/ ~wireUp)

\* A CloseSession of the receiving session returns.  DestroySession needs
\* the session's exclusive access, which ReleaseReceivedBufferRegion keeps
\* through SendCreditUpdate's WaitForIdleBuffer(-1): the close completes
\* only if that wait ends, by the peer's AckHandlerThread re-posting its
\* credit receives or by a disconnect aborting creditBuffers.
CloseCompletes ==
  rClose = "Wait" ~> rClose = "Done"

\* A Connect that has sent its REQ returns: its wait ends by ESTABLISHED,
\* REJECTED, the timeout or the abort, and its catch's Cancel joins the
\* AckHandlerThread, which ends only because that Cancel aborts
\* creditBuffers.
ConnectReturns ==
  cPc = "Wait" ~> cPc \in {"Done", "Failed"}

\* A session the listener accepted, whose connector's Connect then failed
\* (the catch destroys the connector's queue pair but sends no DREQ), is
\* disconnected in the end: when the connecting application closes its
\* session, Destroy's rdma_disconnect queues DISCONNECTED at the listener.
HalfOpenEnds ==
  (rConn /\ cPc = "Failed") ~> ~rConn

\* The accepting constructor lets a connector in exactly when the rule of
\* spec.md accepts the ConnectionData it sent: ValidateConnectionData
\* reads the id big-endian, holds the peer's oldestCompatibleVersion
\* against its own oldestCompatibleVersion (where the spec names its
\* protocolVersion), and wants the opposite direction.
AcceptFollowsSpec ==
  lPc # "Accept" => (lPc # "Rejected" <=> SpecAccepts(cData, lDir))
=============================================================================
