-------------------------- MODULE OutgoingTransfer --------------------------
(***************************************************************************)
(* One OutgoingSession of FileTransferRuntime (app/FileTransferRuntime.cpp): *)
(* offer, manifest pages, the sender worker, pause/resume/cancel from both  *)
(* sides, the recovery record on disk and its asynchronous save and         *)
(* removal, loss of the connection, resume negotiation, and the death and   *)
(* restart of the process.                                                  *)
(*                                                                          *)
(* The runtime lives on one thread: an action is one event delivered to it  *)
(* (a user call, a frame, a timer, the end of a worker task), with every    *)
(* nested call.  The nested calls are operators from session to session,    *)
(* named after the methods.  The peer is arbitrary: it may send any frame   *)
(* of this transfer at any time.  A file is a number of chunks; directories *)
(* of the manifest carry no frames and are left out.                        *)
(***************************************************************************)
EXTENDS Integers, FiniteSetsExt

CONSTANTS
    N,          \* files of the manifest
    Size,       \* Size[f]: chunks of file f
    Pages,      \* manifest pages
    MaxLosses   \* bound: connection losses and crashes

ASSUME OutgoingAssumption ==
    /\ N \in Nat /\ Pages \in Nat /\ MaxLosses \in Nat
    /\ Size \in [1..N -> Nat]

Files == 1..N

\* Before[f]: chunks of the files before file f.
Before[f \in 1..N + 1] == IF f = 1 THEN 0 ELSE Before[f - 1] + Size[f - 1]
TotalBytes == Before[N + 1]

VARIABLES
    s,        \* the OutgoingSession
    conn,     \* isPeerReady: the file channel is authenticated, negotiated
    former,   \* the ready connection that a second one replaced, see below
    queued,   \* the TLS socket holds bytes it has not written yet
    trusted,  \* the peer is in the trusted device store and not revoked
    store,    \* the OutgoingRecoveryState exists on disk
    up,       \* the process runs and has the session
    acked,    \* history: files the peer reported as received
    losses    \* connection losses and crashes so far

vars == <<s, conn, former, queued, trusted, store, up, acked, losses>>

\* handleAuthenticated registers a second connection of the peer over the one
\* in use and closes that one, whose end then marks no session as interrupted.
\*   none     no connection was replaced
\*   closing  it was, and its frames and bytesWritten still arrive
\*   closed   it is gone, and the sessions were not told
\*   late     it is open, but its successor was lost, which the sessions know
Formers == {"none", "closing", "closed", "late"}

\* Some negotiated connection of the peer can deliver a frame.
Heard == conn \/ former \in {"closing", "late"}

Ctl == INSTANCE TransferControl WITH TotalFiles <- N, control <- s.control

NoControl == [state |-> "None", bytes |-> 0, files |-> 0]

FreshSession ==
    [control |-> NoControl,     \* the state machine, null until prepared
     snap |-> "Preparing",      \* snapshot.state, what the user sees
     offer |-> "none",          \* offerState
     manifest |-> FALSE,        \* manifest and pagePlan are there
     page |-> 0,                \* nextManifestPage
     timer |-> FALSE,           \* a sendNextManifestPage timer is pending
     poll |-> FALSE,            \* an offerPreparedTransfers timer is pending
     entry |-> 1,               \* currentEntry
     bytes |-> 0,               \* completedBytes
     files |-> 0,               \* completedFiles
     off |-> [f \in Files |-> 0],   \* resumeOffsets
     stage |-> "none",          \* the TransferSender of the current file
     pos |-> 0,                 \* its read position
     frame |-> "none",          \* the frame in its SenderFrameBridge
     task |-> "none",           \* the pump task, stale after a loss
     awaiting |-> FALSE,        \* awaitingFileResult
     paused |-> FALSE, interrupted |-> FALSE, cancelled |-> FALSE,
     query |-> FALSE,           \* resumeQueryPending
     ending |-> FALSE,          \* terminalPending
     saving |-> FALSE,          \* recoverySaveRunning
     again |-> FALSE,           \* recoverySavePending behind a running save
     firstSave |-> FALSE,       \* waitingForInitialRecovery
     wantRemove |-> FALSE,      \* recoveryRemovePending
     removing |-> FALSE,        \* recoveryRemoveRunning
     then |-> "none",           \* recoveryRemoveCompletion
     hydrated |-> FALSE]        \* hydratedFromRecovery

HasControl(x) == x.control # NoControl
Show(x) == [x EXCEPT !.snap = x.control.state]

Init ==
    /\ s = FreshSession
    /\ conn \in BOOLEAN
    /\ former = "none"
    /\ queued = FALSE
    /\ trusted = TRUE
    /\ store = FALSE
    /\ up = TRUE
    /\ acked = {}
    /\ losses = 0

-----------------------------------------------------------------------------
(* The recovery record.  One task at a time: a removal waits for a running  *)
(* save, a save is refused while a removal waits or runs.                   *)
StartRemoval(x) == [x EXCEPT !.wantRemove = FALSE, !.removing = TRUE]

RemoveOutgoingRecoveryNow(x, then) ==    \* mutant: a running save is ignored
    StartRemoval([x EXCEPT !.again = FALSE, !.then = then])

RemoveOutgoingRecovery(x, then) ==
    LET y == [x EXCEPT !.again = FALSE, !.then = then, !.wantRemove = TRUE]
    IN IF x.saving \/ x.removing THEN y ELSE StartRemoval(y)

FailOutgoing(x) ==
    IF x.ending THEN x
    ELSE RemoveOutgoingRecovery(
           [x EXCEPT !.cancelled = TRUE, !.ending = TRUE], "fail")

StartSave(x) ==
    IF trusted THEN [x EXCEPT !.again = FALSE, !.saving = TRUE]
    ELSE FailOutgoing([x EXCEPT !.again = FALSE])

PersistOutgoing(x) ==
    IF x.wantRemove \/ x.removing THEN x
    ELSE IF x.saving THEN [x EXCEPT !.again = TRUE]
    ELSE StartSave(x)

FinishOutgoingFailure(x) ==
    LET y == [x EXCEPT !.cancelled = TRUE] IN
    IF HasControl(x) /\ ~Ctl!IsTerminal(x.control.state)
    THEN Show([y EXCEPT !.control = Ctl!Fail(x.control)])
    ELSE IF Ctl!IsTerminal(x.snap) THEN y ELSE [y EXCEPT !.snap = "Failed"]

-----------------------------------------------------------------------------
(* The sender of the current file.  sink is what the TLS connection does    *)
(* with the frame, room whether the low-water mark allows another pull.     *)
UpdateOutgoingProgress(x) ==
    Show([x EXCEPT !.control = Ctl!UpdateProgress(x.control, x.bytes, x.files)])

Sinks == {"accept", "wait", "fail"}

\* A frame is refused for lack of room only if something is queued.
SinkPossible(sink, room, q) == q \/ (sink # "wait" /\ room)

MayPumpPaused(x) ==    \* mutant: a paused sender is pumped
    /\ ~x.cancelled /\ ~x.awaiting /\ ~x.interrupted
    /\ x.task = "none" /\ x.stage # "none"

MayPump(x) ==
    /\ ~x.cancelled /\ ~x.paused /\ ~x.awaiting /\ ~x.interrupted
    /\ x.task = "none" /\ x.stage # "none"

StartTask(x, room) == IF room THEN [x EXCEPT !.task = "current"] ELSE x

SubmitPendingCountsAll(x, sink, room) ==    \* mutant: any frame is progress
    LET y == [x EXCEPT !.frame = "none", !.bytes = @ + 1] IN
    IF sink = "wait" THEN x ELSE IF sink = "fail" THEN FailOutgoing(x) ELSE
    CASE x.frame \in {"begin", "chunk"} -> StartTask(UpdateOutgoingProgress(y), room)
      [] x.frame = "end" -> [y EXCEPT !.awaiting = TRUE]

SubmitPending(x, sink, room) ==
    LET y == [x EXCEPT !.frame = "none"] IN
    IF sink = "wait" THEN x ELSE IF sink = "fail" THEN FailOutgoing(x) ELSE
    CASE x.frame = "begin" -> StartTask(y, room)
      [] x.frame = "chunk" -> StartTask(
           UpdateOutgoingProgress([y EXCEPT !.bytes = @ + 1]), room)
      [] x.frame = "end" -> [y EXCEPT !.awaiting = TRUE]

ScheduleSenderPump(x, c, sink, room) ==
    IF ~MayPump(x) THEN x
    ELSE IF ~c THEN FailOutgoing(x)
    ELSE IF x.frame = "none" THEN StartTask(x, room)
    ELSE SubmitPending(x, sink, room)

\* TransferSender::nextFrame, one frame per pull.
NextFrame(x) ==
    LET last == Size[x.entry] IN
    CASE x.stage = "begin" ->
           [x EXCEPT !.frame = "begin",
                     !.stage = IF x.pos = last THEN "end" ELSE "chunks"]
      [] x.stage = "chunks" ->
           [x EXCEPT !.frame = "chunk", !.pos = @ + 1,
                     !.stage = IF x.pos + 1 = last THEN "end" ELSE "chunks"]
      [] x.stage = "end" -> [x EXCEPT !.frame = "end", !.stage = "finished"]
      [] OTHER -> x

CompleteOutgoing(x) ==
    LET y == UpdateOutgoingProgress(x)
        verifying == Ctl!Advance(y.control, "Verifying")
        committing == Ctl!Advance(verifying, "Committing")
    IN IF x.ending THEN x
       ELSE IF committing.state # "Committing" THEN FailOutgoing(y)
       ELSE RemoveOutgoingRecovery(
              Show([y EXCEPT !.control = committing, !.ending = TRUE]),
              "complete")

StartSender(x) ==
    [x EXCEPT !.stage = "begin", !.pos = x.off[x.entry], !.frame = "none",
              !.task = IF @ = "none" THEN @ ELSE "stale",
              !.awaiting = FALSE,
              !.control = IF @.state \in {"Queued", "Resuming"}
                          THEN Ctl!Advance(@, "Transferring") ELSE @]

\* A new sender has nothing pending and is not held back by the water marks.
StartNextOutgoingFile(x, c) ==
    IF x.cancelled THEN x
    ELSE IF x.entry > N
    THEN CompleteOutgoing(
           IF x.control.state = "Queued"
           THEN [x EXCEPT !.control = Ctl!Advance(@, "Transferring")] ELSE x)
    ELSE IF ~c THEN FailOutgoing(x)
    ELSE ScheduleSenderPump(UpdateOutgoingProgress(StartSender(x)), c, "accept",
                            TRUE)

-----------------------------------------------------------------------------
(* Offers and resume queries, sent when the peer becomes ready.             *)
SendOffer(x, sent) ==
    LET offered == Ctl!Advance(x.control, "Offered")
        waiting == Ctl!Advance(offered, "WaitingForAcceptance")
        y == [x EXCEPT !.offer = "awaiting", !.control = waiting]
    IN IF ~HasControl(x) THEN x
       ELSE IF ~sent THEN FailOutgoing(x)
       ELSE IF waiting.state # "WaitingForAcceptance" THEN FailOutgoing(y)
       ELSE Show(y)

\* supported: the peer negotiated resume.v1
SendResumeQuery(x, sent, supported) ==
    IF ~x.interrupted \/ x.query THEN x
    ELSE IF ~supported THEN FailOutgoing(x)
    ELSE IF ~sent THEN x
    ELSE IF ~Ctl!ResumeOk(x.control) THEN FailOutgoing(x)
    ELSE Show([x EXCEPT !.control = Ctl!Resume(@), !.query = TRUE])

OfferPreparedTransfers(x, sent, supported) ==
    IF x.interrupted /\ ~x.cancelled
    THEN IF x.task # "none" THEN [x EXCEPT !.poll = TRUE]
         ELSE SendResumeQuery(x, sent, supported)
    ELSE IF x.manifest /\ x.offer = "none" /\ ~x.cancelled
    THEN SendOffer(x, sent)
    ELSE x

-----------------------------------------------------------------------------
(* Events.                                                                  *)
Alive == up /\ UNCHANGED <<former, trusted, up, losses>>

\* finishManifestPreparation; the offer goes out if the peer is ready.
FinishManifestPreparation(built, reachable, sent) ==
    /\ Alive
    /\ ~s.manifest /\ ~s.cancelled
    /\ sent => conn
    /\ LET y == [s EXCEPT !.manifest = TRUE,
                          !.control = [state |-> "Preparing", bytes |-> 0,
                                       files |-> 0]]
       IN s' = IF ~built THEN FailOutgoing(s)
               ELSE IF conn THEN SendOffer(y, sent)
               ELSE IF reachable THEN y ELSE FailOutgoing(y)
    /\ UNCHANGED <<conn, queued, store, acked>>

\* handleFrame(Capabilities): the peer is ready.  The zero timers of the
\* event loop have fired long before a new TLS handshake is through, unless
\* the handshake was under way when it replaced the connection in use.
PeerReady(sent, supported) ==
    /\ Alive
    /\ ~conn
    /\ s.timer => former \in {"closing", "closed"} /\ ~s.interrupted
    /\ conn' = TRUE
    /\ s' = OfferPreparedTransfers(s, sent, supported)
    /\ UNCHANGED <<queued, store, acked>>

\* The poll timer, or offerPreparedTransfers on behalf of another session of
\* the same peer (a second send, a second hydrated transfer).
OfferAgain(sent, supported) ==
    /\ Alive
    /\ conn
    /\ s' = OfferPreparedTransfers([s EXCEPT !.poll = FALSE], sent, supported)
    /\ UNCHANGED <<conn, queued, store, acked>>

\* handleOfferResponse(TransferAccept): the record is saved before any data.
HandleAcceptStreamsAtOnce(good) ==    \* mutant: pages do not wait for it
    /\ Alive
    /\ Heard /\ s.offer # "none" /\ HasControl(s)
    /\ LET accepted == good /\ s.offer = "awaiting"
           y == IF accepted THEN [s EXCEPT !.offer = "accepted"] ELSE s
       IN s' = IF accepted /\ Ctl!AdvanceOk(s.control, "Queued")
               THEN PersistOutgoing(
                      Show([y EXCEPT !.control = Ctl!Advance(@, "Queued"),
                                     !.timer = TRUE]))
               ELSE FailOutgoing(y)
    /\ UNCHANGED <<conn, queued, store, acked>>

HandleAccept(good) ==
    /\ Alive
    /\ Heard /\ s.offer # "none" /\ HasControl(s)
    /\ LET accepted == good /\ s.offer = "awaiting"
           y == IF accepted THEN [s EXCEPT !.offer = "accepted"] ELSE s
       IN s' = IF accepted /\ Ctl!AdvanceOk(s.control, "Queued")
               THEN PersistOutgoing(
                      Show([y EXCEPT !.control = Ctl!Advance(@, "Queued"),
                                     !.firstSave = TRUE]))
               ELSE FailOutgoing(y)
    /\ UNCHANGED <<conn, queued, store, acked>>

HandleReject ==
    /\ Alive
    /\ Heard /\ s.offer # "none" /\ HasControl(s)
    /\ s' = Show([s EXCEPT !.offer = IF @ = "awaiting" THEN "rejected" ELSE @,
                           !.control = Ctl!Advance(@, "Rejected")])
    /\ UNCHANGED <<conn, queued, store, acked>>

\* The timer of sendNextManifestPage.
SendNextManifestPage(sent) ==
    /\ Alive
    /\ s.timer
    /\ sent => conn
    /\ LET y == [s EXCEPT !.timer = FALSE] IN
       s' = IF s.cancelled THEN y
            ELSE IF ~sent THEN FailOutgoing(y)
            ELSE IF s.page < Pages
            THEN [y EXCEPT !.page = @ + 1, !.timer = TRUE]
            ELSE StartNextOutgoingFile(y, conn)
    /\ queued' = (queued \/ (sent /\ ~s.cancelled))
    /\ UNCHANGED <<conn, store, acked>>

\* bytesWritten -> writeCapacityAvailable -> schedulePeerSenders, for every
\* authenticated connection of the peer; drained is of the one in use.
WriteCapacityAvailable(drained, sink, room) ==
    /\ Alive
    /\ queued \/ (drained /\ former \in {"closing", "late"})
    /\ SinkPossible(sink, room, ~drained)
    /\ s' = ScheduleSenderPump(s, conn, sink, room)
    /\ queued' = (~drained \/ s'.frame # s.frame)
    /\ UNCHANGED <<conn, store, acked>>

\* The pump task ends: dispatchSenderPumpResult.
DispatchStale(sent, supported) ==
    /\ Alive
    /\ s.task = "stale"
    /\ sent => conn
    /\ LET y == [s EXCEPT !.task = "none"] IN
       s' = IF s.interrupted /\ conn
            THEN OfferPreparedTransfers(y, sent, supported) ELSE y
    /\ UNCHANGED <<conn, queued, store, acked>>

\* A pull that produced nothing (no room in the bridge) leaves frame empty.
DispatchSenderPumpResult(pulled, sink, room) ==
    /\ Alive
    /\ s.task = "current"
    /\ SinkPossible(sink, room, queued)
    /\ pulled = "nothing" => queued
    /\ LET y == [s EXCEPT !.task = "none"]
           z == IF pulled = "frame" THEN NextFrame(y) ELSE y
       IN /\ s' = IF s.cancelled \/ s.interrupted THEN y
                  ELSE IF pulled = "failed" THEN FailOutgoing(y)
                  ELSE ScheduleSenderPump(z, conn, sink, room)
          /\ queued' = (queued \/ (MayPump(z) /\ s'.frame # z.frame))
    /\ UNCHANGED <<conn, store, acked>>

HandleFileResultUnasked(f, ok) ==    \* mutant
    /\ Alive
    /\ Heard /\ HasControl(s) /\ s.entry <= N
    /\ LET y == [s EXCEPT !.files = @ + 1, !.entry = @ + 1, !.stage = "none",
                          !.frame = "none", !.awaiting = FALSE]
       IN s' = IF ~ok THEN FailOutgoing(s)
               ELSE StartNextOutgoingFile(UpdateOutgoingProgress(y), conn)
    /\ acked' = IF ok THEN acked \cup {f} ELSE acked
    /\ UNCHANGED <<conn, queued, store>>

\* ok: the file was committed, or skipped by the receiver's conflict choice.
HandleFileResult(f, ok) ==
    /\ Alive
    /\ Heard /\ s.awaiting /\ s.entry = f
    /\ LET y == [s EXCEPT !.files = @ + 1, !.entry = @ + 1, !.stage = "none",
                          !.frame = "none", !.awaiting = FALSE]
       IN s' = IF ~ok THEN FailOutgoing(s)
               ELSE StartNextOutgoingFile(UpdateOutgoingProgress(y), conn)
    /\ acked' = IF ok THEN acked \cup {f} ELSE acked
    /\ UNCHANGED <<conn, queued, store>>

\* handleResumeResponse: reported[f] is the durable offset of f, NotReported
\* if the response does not name it.  currentEntry becomes the first file
\* that is not committed.  Whether the session was cancelled is not asked.
NotReported == -1

Committed(reported, f) ==
    IF Size[f] = 0 THEN reported[f] = NotReported
    ELSE reported[f] = Size[f]

FirstOpen(reported) ==
    Min({f \in Files : ~Committed(reported, f)} \cup {N + 1})

Reported(reported) ==
    [f \in Files |-> IF reported[f] = NotReported THEN 0 ELSE reported[f]]

RestartAt(x, reported) ==
    LET first == FirstOpen(reported)
        off == Reported(reported)
    IN [x EXCEPT !.off = off, !.entry = first, !.files = first - 1,
                 !.bytes = Before[first] + (IF first > N THEN 0 ELSE off[first]),
                 !.page = 0, !.stage = "none", !.frame = "none",
                 !.awaiting = FALSE, !.query = FALSE, !.interrupted = FALSE]

\* A hydrated session gets a new state machine with the receiver's progress.
Rehydrated(x) ==
    IF ~x.hydrated THEN x
    ELSE Show([x EXCEPT !.hydrated = FALSE,
                        !.control = [state |-> "Resuming", bytes |-> x.bytes,
                                     files |-> x.files]])

HandleResumeResponse(reported) ==
    /\ Alive
    /\ Heard /\ s.query
    /\ s' = [PersistOutgoing(UpdateOutgoingProgress(
               Rehydrated(RestartAt(s, reported)))) EXCEPT !.timer = TRUE]
    /\ acked' = acked \cup {f \in Files : f < FirstOpen(reported)}
    /\ UNCHANGED <<conn, queued, store>>

\* validateResponse refuses it.
HandleBadResumeResponse ==
    /\ Alive
    /\ Heard /\ s.query
    /\ s' = FailOutgoing(s)
    /\ UNCHANGED <<conn, queued, store, acked>>

-----------------------------------------------------------------------------
(* Commands of the local user.  Calls that are answered Idempotent or       *)
(* Rejected change nothing.                                                 *)
PauseOutgoing(sent) ==
    /\ Alive
    /\ sent => conn
    /\ ~s.paused /\ ~s.cancelled /\ HasControl(s) /\ Ctl!PauseOk(s.control)
    /\ LET y == Show([s EXCEPT !.control = Ctl!Pause(@), !.paused = TRUE])
       IN s' = IF sent THEN y ELSE FailOutgoing(y)
    /\ UNCHANGED <<conn, queued, store, acked>>

Unpause(x) ==
    Show([x EXCEPT !.control = Ctl!Advance(Ctl!Resume(@), "Transferring"),
                   !.paused = FALSE])

ResumeOutgoingUnscheduled(sent, sink, room) ==    \* mutant: no pump
    /\ Alive
    /\ sent => conn
    /\ s.paused /\ ~s.cancelled /\ HasControl(s) /\ Ctl!ResumeOk(s.control)
    /\ SinkPossible(sink, room, queued)
    /\ s' = IF sent THEN Unpause(s) ELSE FailOutgoing(Unpause(s))
    /\ UNCHANGED <<conn, queued, store, acked>>

ResumeOutgoing(sent, sink, room) ==
    /\ Alive
    /\ sent => conn
    /\ s.paused /\ ~s.cancelled /\ HasControl(s) /\ Ctl!ResumeOk(s.control)
    /\ SinkPossible(sink, room, queued)
    /\ s' = IF sent THEN ScheduleSenderPump(Unpause(s), conn, sink, room)
            ELSE FailOutgoing(Unpause(s))
    /\ queued' = (queued \/ s'.frame # s.frame)
    /\ UNCHANGED <<conn, store, acked>>

CancelOutgoing ==
    /\ Alive
    /\ ~s.cancelled /\ ~Ctl!IsTerminal(s.snap)
    /\ s' = RemoveOutgoingRecovery(
              [s EXCEPT !.cancelled = TRUE, !.ending = TRUE], "cancel")
    /\ UNCHANGED <<conn, queued, store, acked>>

-----------------------------------------------------------------------------
(* applyRemoteCommand                                                       *)
RemotePause ==
    /\ Alive
    /\ Heard /\ HasControl(s)
    /\ ~s.paused /\ Ctl!PauseOk(s.control)
    /\ s' = Show([s EXCEPT !.control = Ctl!Pause(@), !.paused = TRUE])
    /\ UNCHANGED <<conn, queued, store, acked>>

RemoteResume(sink, room) ==
    /\ Alive
    /\ Heard /\ HasControl(s)
    /\ s.paused /\ Ctl!ResumeOk(s.control)
    /\ SinkPossible(sink, room, queued)
    /\ s' = Show(ScheduleSenderPump(Unpause(s), conn, sink, room))
    /\ queued' = (queued \/ s'.frame # s.frame)
    /\ UNCHANGED <<conn, store, acked>>

RemoteCancel ==
    /\ Alive
    /\ Heard /\ HasControl(s)
    /\ ~s.cancelled /\ s.snap # "Cancelled" /\ Ctl!CancelOk(s.control)
    /\ s' = RemoveOutgoingRecovery(
              Show([s EXCEPT !.control = Ctl!Cancel(@), !.cancelled = TRUE,
                             !.ending = TRUE]), "remoteCancel")
    /\ UNCHANGED <<conn, queued, store, acked>>

-----------------------------------------------------------------------------
(* The disk tasks end.                                                      *)
SaveFinishedForgetsRemoval(ok) ==    \* mutant
    /\ Alive
    /\ s.saving
    /\ store' = (store \/ ok)
    /\ s' = [s EXCEPT !.saving = FALSE, !.firstSave = FALSE]
    /\ UNCHANGED <<conn, queued, acked>>

SaveFinished(ok) ==
    /\ Alive
    /\ s.saving
    /\ store' = (store \/ ok)
    /\ LET y == [s EXCEPT !.saving = FALSE] IN
       s' = IF s.wantRemove THEN StartRemoval(y)
            ELSE IF s.again THEN StartSave(y)
            ELSE IF ~ok THEN FailOutgoing([y EXCEPT !.firstSave = FALSE])
            ELSE [y EXCEPT !.firstSave = FALSE,
                           !.timer = @ \/ (s.firstSave /\ ~s.cancelled /\
                                           ~s.interrupted /\ ~s.ending)]
    /\ UNCHANGED <<conn, queued, acked>>

\* The completion handler handed to removeOutgoingRecovery last.
Completion(x, ok) ==
    CASE x.then = "complete" ->
           IF ok /\ Ctl!AdvanceOk(x.control, "Completed")
           THEN Show([x EXCEPT !.control = Ctl!Advance(@, "Completed")])
           ELSE FinishOutgoingFailure(x)
      [] x.then = "cancel" ->
           IF ~ok THEN FinishOutgoingFailure(x)
           ELSE IF HasControl(x) /\ ~Ctl!IsTerminal(x.control.state)
           THEN Show([x EXCEPT !.control =
                        Ctl!ConfirmCancelled(Ctl!Cancel(@))])
           ELSE [x EXCEPT !.snap = "Cancelled"]
      [] x.then = "remoteCancel" ->
           IF ok /\ Ctl!ConfirmCancelledOk(x.control)
           THEN Show([x EXCEPT !.control = Ctl!ConfirmCancelled(@)])
           ELSE FinishOutgoingFailure(x)
      [] x.then = "fail" -> FinishOutgoingFailure(x)

RemovalFinished(ok) ==
    /\ Alive
    /\ s.removing
    /\ store' = (store /\ ~ok)
    /\ LET y == [s EXCEPT !.removing = FALSE, !.ending = FALSE] IN
       s' = [Completion(y, ok) EXCEPT !.then = "none"]
    /\ UNCHANGED <<conn, queued, acked>>

-----------------------------------------------------------------------------
(* Losses.                                                                  *)
MarkOutgoingConnectionLost(x) ==
    LET y == [x EXCEPT !.paused = FALSE, !.query = FALSE, !.awaiting = FALSE,
                       !.task = IF @ = "none" THEN @ ELSE "stale",
                       !.stage = "none", !.frame = "none"]
    IN IF x.cancelled \/ x.ending \/ Ctl!IsTerminal(x.snap) THEN x
       ELSE IF HasControl(x) /\ Ctl!InterruptOk(x.control)
       THEN PersistOutgoing(Show([y EXCEPT !.control = Ctl!Interrupt(@),
                                           !.interrupted = TRUE]))
       ELSE FailOutgoing([y EXCEPT !.interrupted = FALSE])

\* removeConnection, and stop(), which reaches unconnected sessions too.
ConnectionLost ==
    /\ up
    /\ losses < MaxLosses
    /\ losses' = losses + 1
    /\ conn' = FALSE
    /\ queued' = FALSE
    /\ former' = IF former \in {"closing", "late"} THEN "late" ELSE "none"
    /\ s' = MarkOutgoingConnectionLost(s)
    /\ UNCHANGED <<trusted, store, up, acked>>

\* handleAuthenticated of a second connection while the first is ready: the
\* peer is not ready until the new one has negotiated, its own capabilities
\* are queued, and no session hears of it.
ReplaceConnection ==
    /\ up /\ conn
    /\ losses < MaxLosses
    /\ losses' = losses + 1
    /\ former \in {"none", "closed"}
    /\ former' = "closing"
    /\ conn' = FALSE
    /\ queued' = TRUE
    /\ UNCHANGED <<s, trusted, store, up, acked>>

\* removeConnection of a connection that is not the current one.
FormerClosed ==
    /\ up
    /\ former \in {"closing", "late"}
    /\ former' = IF former = "closing" THEN "closed" ELSE "none"
    /\ UNCHANGED <<s, conn, queued, trusted, store, up, acked, losses>>

\* The new connection ends before it has negotiated, which marks no session
\* either, or another one authenticates after that.
SuccessorChanges ==
    /\ Alive
    /\ ~conn /\ former \in {"closing", "closed"}
    /\ queued' = ~queued
    /\ UNCHANGED <<s, conn, store, acked>>

\* The process dies; a disk task may or may not have done its work.
Crash ==
    /\ up
    /\ losses < MaxLosses
    /\ losses' = losses + 1
    /\ up' = FALSE
    /\ conn' = FALSE
    /\ former' = "none"
    /\ queued' = FALSE
    /\ store' \in {store} \cup (IF s.saving THEN {TRUE} ELSE {})
                         \cup (IF s.removing THEN {FALSE} ELSE {})
    /\ s' = FreshSession
    /\ UNCHANGED <<trusted, acked>>

\* hydrateNextOutgoingRecovery, for a record whose sources did not change.
\* The progress in the record is replaced at the resume response.
Hydrate ==
    /\ ~up
    /\ store /\ trusted
    /\ up' = TRUE
    /\ s' = [FreshSession EXCEPT
               !.control = [state |-> "Interrupted", bytes |-> 0, files |-> 0],
               !.snap = "Interrupted", !.manifest = TRUE,
               !.interrupted = TRUE, !.hydrated = TRUE]
    /\ UNCHANGED <<conn, former, queued, trusted, store, acked, losses>>

Revoke ==
    /\ trusted
    /\ trusted' = FALSE
    /\ UNCHANGED <<s, conn, former, queued, store, up, acked, losses>>

-----------------------------------------------------------------------------
Next ==
    \/ \E sent \in BOOLEAN :
         \/ \E built, reachable \in BOOLEAN :
              FinishManifestPreparation(built, reachable, sent)
         \/ \E supported \in BOOLEAN :
              \/ PeerReady(sent, supported)
              \/ OfferAgain(sent, supported)
              \/ DispatchStale(sent, supported)
         \/ SendNextManifestPage(sent)
         \/ PauseOutgoing(sent)
    \/ \E good \in BOOLEAN : HandleAccept(good)
    \/ HandleReject
    \/ \E sink \in Sinks, room \in BOOLEAN :
         \/ \E drained \in BOOLEAN : WriteCapacityAvailable(drained, sink, room)
         \/ \E pulled \in {"frame", "nothing", "failed"} :
              DispatchSenderPumpResult(pulled, sink, room)
         \/ \E sent \in BOOLEAN : ResumeOutgoing(sent, sink, room)
         \/ RemoteResume(sink, room)
    \/ \E f \in Files, ok \in BOOLEAN : HandleFileResult(f, ok)
    \/ \E reported \in [Files -> NotReported..Max({Size[f] : f \in Files})] :
         /\ \A f \in Files : reported[f] <= Size[f]
         /\ HandleResumeResponse(reported)
    \/ HandleBadResumeResponse
    \/ CancelOutgoing \/ RemotePause \/ RemoteCancel
    \/ \E ok \in BOOLEAN : SaveFinished(ok) \/ RemovalFinished(ok)
    \/ ConnectionLost \/ ReplaceConnection \/ FormerClosed \/ SuccessorChanges
    \/ Crash \/ Hydrate \/ Revoke

Spec == Init /\ [][Next]_vars

-----------------------------------------------------------------------------
\* Every variable keeps its type.
TypeOK ==
    /\ s.control \in Ctl!Snapshot \cup {NoControl}
    /\ s.snap \in Ctl!TransferState
    /\ s.offer \in {"none", "awaiting", "accepted", "rejected"}
    /\ s.page \in 0..Pages
    /\ s.entry \in 1..N + 1
    /\ s.files \in 0..N
    /\ s.bytes \in 0..TotalBytes
    /\ s.off \in [Files -> Nat]
    /\ s.stage \in {"none", "begin", "chunks", "end", "finished"}
    /\ s.frame \in {"none", "begin", "chunk", "end"}
    /\ s.task \in {"none", "current", "stale"}
    /\ s.then \in {"none", "complete", "cancel", "remoteCancel", "fail"}
    /\ former \in Formers
    /\ acked \subseteq Files
    /\ losses \in 0..MaxLosses

\* The sender shows Completed only when the peer has reported every file as
\* received, on whatever connection, before or after restarts
\* (handleFileResult, handleResumeResponse, completeOutgoing).
CompletedMeansAcknowledged == s.snap = "Completed" => acked = Files

\* While data may flow or the transfer is interrupted, its recovery record is
\* on disk: a crash at any point leaves a transfer that can be resumed
\* (handleOfferResponse persists before the first manifest page).
RecoverableWhileRunning ==
    s.snap \in {"Transferring", "Paused", "Interrupted", "Resuming"}
      /\ ~s.cancelled
    => store

\* A completed transfer has left no record behind and none is being written:
\* a restart cannot bring it back (removeOutgoingRecovery waits for a
\* running save).
CompletedLeavesNoRecord ==
    s.snap = "Completed" => ~store /\ ~s.saving

\* While the transfer is paused no file frame is handed to the connection,
\* whatever tasks, results and capacity signals arrive (scheduleSenderPump).
PausedIsQuiet ==
    [][s.paused /\ s'.paused =>
         s'.bytes = s.bytes /\ (s'.awaiting => s.awaiting)]_vars

-----------------------------------------------------------------------------
(* Liveness: worker tasks end, timers fire, the socket drains, and the peer *)
(* answers a FILE_END with some FILE_RESULT while it is connected and every *)
(* frame went to the connection in use.                                     *)
TaskEnds ==
    \/ \E sent, supported \in BOOLEAN : DispatchStale(sent, supported)
    \/ \E pulled \in {"frame", "nothing", "failed"}, sink \in Sinks,
          room \in BOOLEAN : DispatchSenderPumpResult(pulled, sink, room)
SocketDrains ==
    \E sink \in Sinks, room \in BOOLEAN : WriteCapacityAvailable(TRUE, sink, room)
DiskTaskEnds == \E ok \in BOOLEAN : SaveFinished(ok) \/ RemovalFinished(ok)
PeerAnswers ==
    /\ conn /\ former \in {"none", "late"}
    /\ \E f \in Files, ok \in BOOLEAN : HandleFileResult(f, ok)

Fairness ==
    /\ WF_vars(TaskEnds) /\ WF_vars(SocketDrains) /\ WF_vars(DiskTaskEnds)
    /\ WF_vars(PeerAnswers)

LiveSpec == Spec /\ Fairness

\* A transfer does not sit in Transferring: whatever was paused, resumed,
\* backpressured or completed in whatever order, some event is still due that
\* pumps the sender (scheduleSenderPump loses no wake-up).  Unless a ready
\* connection was replaced by a second one and its end went unmarked: then
\* nothing need be due until that one is lost too (handleAuthenticated,
\* removeConnection).
SenderNeverStalls ==
    s.snap = "Transferring" ~>
      (s.snap # "Transferring" \/ ~up \/ former \in {"closing", "closed"})

\* A transfer that began to end reaches a terminal state, although the
\* handler of its end hangs on a removal that may be queued behind a save and
\* may be replaced by another one.
EndingEnds == s.ending ~> (Ctl!IsTerminal(s.snap) \/ ~up)

=============================================================================
