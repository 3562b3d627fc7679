-------------------------- MODULE IncomingTransfer --------------------------
(***************************************************************************)
(* One Session of IncomingTransferRuntime (app/IncomingTransferRuntime.cpp) *)
(* and the ReceivePipelines that work for it, one after the other.          *)
(*                                                                          *)
(* Two kinds of processes: the owner thread runs the offer, the commands,   *)
(* the resume queries and the loss of the peer; each pipeline has a worker  *)
(* thread that takes frames from its queue, writes to disk, and posts       *)
(* callbacks (kind, generation) back to the owner thread.  A pipeline is    *)
(* named by the generation it was built with.  What a frame does to the     *)
(* files is the subject of FileReceive; here a frame succeeds or fails and  *)
(* what matters is who may act on its outcome.                              *)
(***************************************************************************)
EXTENDS Integers, Sequences, FiniteSets

CONSTANTS
    N,           \* files of the offer (m_offer.fileCount)
    MaxGen,      \* bound: generations of one session
    QueueLimit,  \* bound: frames that fit kMaximumQueuedReceiveBytes
    MaxPosts     \* bound: callbacks waiting for the owner thread

ASSUME IncomingAssumption ==
    /\ N \in Nat \ {0} /\ MaxGen \in Nat /\ QueueLimit \in Nat \ {0}
    /\ MaxPosts \in Nat /\ MaxPosts >= 3

Generations == 0..MaxGen
None == -1
Terminal == {"Completed", "Failed", "Cancelled"}

VARIABLES
    ses,      \* the Session
    w,        \* w[g]: the worker of the pipeline of generation g
    posts,    \* callbacks posted to the owner thread, in order
    cleanup,  \* the task of a cancel
    join,     \* the pipeline whose destructor blocks the owner thread
    disk,     \* what the transfer has on disk
    conn,     \* the peer's channel is ready
    trusted,  \* the peer is trusted and not revoked
    up        \* the process runs and has the session

vars == <<ses, w, posts, cleanup, join, disk, conn, trusted, up>>

FreshSession ==
    [snap |-> "WaitingForAcceptance",  \* pipelineSnapshot.state
     offer |-> "awaiting",             \* the TransferOfferStateMachine
     preflight |-> FALSE,              \* acceptPreflightPending
     pipe |-> None,                    \* pipeline
     gen |-> 0,                        \* pipelineGeneration
     prompt |-> None,                  \* pendingConflict, by its pipeline
     replay |-> FALSE]                 \* lastResumeResponse

NoWorker ==
    [phase |-> "none",      \* none, idle, busy, asking, answered, ended
     at |-> "start",        \* start, manifest (no file open), file, broken
     queue |-> 0,           \* m_frames
     paused |-> FALSE,      \* m_paused
     stopping |-> FALSE,    \* m_stopping
     decision |-> "none",   \* m_conflictDecision
     out |-> "none"]        \* history: the end it reported

NewWorker == [NoWorker EXCEPT !.phase = "idle"]
NoCleanup == [phase |-> "none", of |-> None, gen |-> None, keep |-> FALSE]

Init ==
    /\ ses = FreshSession
    /\ w = [g \in Generations |-> NoWorker]
    /\ posts = <<>>
    /\ cleanup = NoCleanup
    /\ join = None
    /\ disk = [state |-> FALSE, staging |-> FALSE, done |-> 0]
    /\ conn = TRUE
    /\ trusted = TRUE
    /\ up = TRUE

\* isReceivePipelineActive
Active(x) == x.snap \in {"Queued", "Transferring", "Paused", "Resuming"}

-----------------------------------------------------------------------------
(* The worker thread: run, process.                                         *)
Running(g) == w[g].phase \notin {"none", "ended"}

Worker(g) == up /\ UNCHANGED <<ses, cleanup, join, conn, trusted, up>>

Post(g, kinds) ==
    posts' = posts \o [i \in 1..Len(kinds) |-> [kind |-> kinds[i], gen |-> g]]

\* The worker returns; nothing of it is used again but what it reported.
Ends(out) ==
    [NoWorker EXCEPT !.phase = "ended", !.stopping = TRUE, !.out = out]

\* The bound on posts leaves room for what one frame may post.
TakeFrame(g) ==
    /\ Worker(g)
    /\ w[g].phase = "idle" /\ w[g].queue > 0
    /\ ~w[g].paused /\ ~w[g].stopping
    /\ Len(posts) + 3 <= MaxPosts
    /\ w' = [w EXCEPT ![g].phase = "busy", ![g].queue = @ - 1]
    /\ UNCHANGED <<posts, disk>>

WorkerStops(g) ==
    /\ Worker(g)
    /\ w[g].phase = "idle" /\ w[g].stopping
    /\ w' = [w EXCEPT ![g] = Ends(@.out)]
    /\ UNCHANGED <<posts, disk>>

\* MANIFEST_COMPLETE: the resume state and the descriptor are written.
ManifestDone(g) ==
    /\ Worker(g)
    /\ w[g].phase = "busy" /\ w[g].at = "start"
    /\ w' = [w EXCEPT ![g].phase = "idle", ![g].at = "manifest"]
    /\ disk' = [disk EXCEPT !.state = TRUE]
    /\ UNCHANGED posts

\* A manifest that cannot be used is reported, but the worker goes on; it
\* refuses the next frame, another MANIFEST_COMPLETE too.
ManifestFails(g) ==
    /\ Worker(g)
    /\ w[g].phase = "busy" /\ w[g].at = "start"
    /\ w' = [w EXCEPT ![g].phase = "idle", ![g].at = "broken", ![g].out = "failed"]
    /\ Post(g, <<"failed">>)
    /\ UNCHANGED disk

\* waitForConflictDecision: the prompt is posted, the worker waits.
AskForDecision(g) ==
    /\ Worker(g)
    /\ w[g].phase = "busy" /\ w[g].at = "manifest"
    /\ w' = [w EXCEPT ![g].phase = "asking", ![g].decision = "none"]
    /\ Post(g, <<"prompt">>)
    /\ UNCHANGED disk

TakeDecision(g) ==
    /\ Worker(g)
    /\ w[g].phase = "asking" /\ w[g].decision # "none"
    /\ ~w[g].paused /\ ~w[g].stopping
    /\ IF w[g].decision = "cancel"
       THEN /\ w' = [w EXCEPT ![g] = Ends("cancel")]
            /\ Post(g, <<"cancel">>)
       ELSE /\ w' = [w EXCEPT ![g].phase = "answered"]
            /\ UNCHANGED posts
    /\ UNCHANGED disk

AskingStopsDeaf(g) ==    \* mutant: only a decision ends the wait
    /\ Worker(g)
    /\ w[g].phase = "asking" /\ w[g].stopping /\ w[g].decision # "none"
    /\ w' = [w EXCEPT ![g] = Ends(@.out)]
    /\ UNCHANGED <<posts, disk>>

AskingStops(g) ==
    /\ Worker(g)
    /\ w[g].phase = "asking" /\ w[g].stopping
    /\ w' = [w EXCEPT ![g] = Ends(@.out)]
    /\ UNCHANGED <<posts, disk>>

FileBegun(g) ==
    /\ Worker(g)
    /\ w[g].at = "manifest" /\ w[g].phase \in {"busy", "answered"}
    /\ w' = [w EXCEPT ![g].phase = "idle", ![g].at = "file"]
    /\ disk' = [disk EXCEPT !.staging = TRUE]
    /\ Post(g, <<"progress">>)

ChunkStored(g) ==
    /\ Worker(g)
    /\ w[g].phase = "busy" /\ w[g].at = "file"
    /\ w' = [w EXCEPT ![g].phase = "idle"]
    /\ Post(g, <<"progress">>)
    /\ UNCHANGED disk

\* FILE_END: the file is committed and recorded; after the last one the
\* resume state is removed before the end is announced.
FileEnded(g) ==
    /\ Worker(g)
    /\ w[g].phase = "busy" /\ w[g].at = "file"
    /\ disk.done < N
    /\ IF disk.done + 1 = N
       THEN /\ w' = [w EXCEPT ![g] = Ends("completed")]
            /\ Post(g, <<"progress", "completed">>)
            /\ disk' = [disk EXCEPT !.done = N, !.state = FALSE]
       ELSE /\ w' = [w EXCEPT ![g].phase = "idle", ![g].at = "manifest"]
            /\ Post(g, <<"progress">>)
            /\ disk' = [disk EXCEPT !.done = @ + 1]

\* publishCompleted cannot remove the resume state, or only the descriptor.
PurgeFails(g) ==
    /\ Worker(g)
    /\ w[g].phase = "busy" /\ w[g].at = "file"
    /\ disk.done + 1 = N
    /\ w' = [w EXCEPT ![g] = Ends("failed")]
    /\ Post(g, <<"progress", "failed">>)
    /\ disk' \in {[disk EXCEPT !.done = N], [disk EXCEPT !.done = N, !.state = FALSE]}

\* A frame that is refused, or a write that fails.
FrameFails(g) ==
    /\ Worker(g)
    /\ w[g].phase \in {"busy", "answered"}
    /\ w' = [w EXCEPT ![g] = Ends("failed")]
    /\ Post(g, <<"failed">>)
    /\ UNCHANGED disk

-----------------------------------------------------------------------------
(* The owner thread.  It does nothing else while it waits in the destructor *)
(* of a pipeline.                                                           *)
Owner == up /\ join = None

Quiet == UNCHANGED <<disk, trusted, up>>

\* receiveCommand with a cancel, once it is known to apply.
CancelUnstopped(keep) ==    \* mutant: the worker is not told to stop
    /\ ses.gen < MaxGen
    /\ ses' = [ses EXCEPT !.pipe = None, !.prompt = None, !.gen = @ + 1,
                          !.snap = "Cancelling"]
    /\ cleanup' = [phase |-> "waiting", of |-> ses.pipe, gen |-> ses.gen + 1,
                   keep |-> keep]
    /\ UNCHANGED w

CancelPipeline(keep) ==
    /\ ses.gen < MaxGen
    /\ ses' = [ses EXCEPT !.pipe = None, !.prompt = None, !.gen = @ + 1,
                          !.snap = "Cancelling"]
    /\ w' = [w EXCEPT ![ses.pipe].stopping = TRUE, ![ses.pipe].queue = 0]
    /\ cleanup' = [phase |-> "waiting", of |-> ses.pipe, gen |-> ses.gen + 1,
                   keep |-> keep]

\* validateLocalCommand for a cancel
MayCancelHere == ses.pipe # None /\ ses.snap \notin Terminal \cup {"Cancelling"}

Accept ==
    /\ Owner
    /\ ses.offer = "awaiting" /\ ~ses.preflight /\ trusted
    /\ ses' = [ses EXCEPT !.preflight = TRUE]
    /\ UNCHANGED <<w, posts, cleanup, join, conn>> /\ Quiet

\* finishAcceptPreflight; usable: the root is safe and has the space.
FinishAcceptPreflight(usable) ==
    /\ Owner
    /\ ses.preflight
    /\ IF trusted /\ usable
       THEN /\ ses' = [ses EXCEPT !.preflight = FALSE, !.offer = "accepted",
                                  !.snap = "Queued", !.pipe = ses.gen]
            /\ w' = [w EXCEPT ![ses.gen] = NewWorker]
       ELSE /\ ses' = [ses EXCEPT !.preflight = FALSE]
            /\ UNCHANGED w
    /\ UNCHANGED <<posts, cleanup, join, conn>> /\ Quiet

Reject ==
    /\ Owner
    /\ ses.offer = "awaiting" /\ ~ses.preflight
    /\ ses' = [ses EXCEPT !.offer = "rejected"]
    /\ UNCHANGED <<w, posts, cleanup, join, conn>> /\ Quiet

EnqueueFrameUnbounded ==    \* mutant: no limit
    /\ Owner
    /\ conn /\ ses.pipe # None /\ Active(ses)
    /\ ~w[ses.pipe].stopping
    /\ w' = [w EXCEPT ![ses.pipe].queue = @ + 1]
    /\ UNCHANGED <<ses, posts, cleanup, join, conn>> /\ Quiet

\* A frame that finds the queue full is dropped with an error.
EnqueueFrame ==
    /\ Owner
    /\ conn /\ ses.pipe # None /\ Active(ses)
    /\ ~w[ses.pipe].stopping /\ w[ses.pipe].queue < QueueLimit
    /\ w' = [w EXCEPT ![ses.pipe].queue = @ + 1]
    /\ UNCHANGED <<ses, posts, cleanup, join, conn>> /\ Quiet

\* Pause and resume, from the peer or from the user: both come with a frame
\* on the channel.
Pause ==
    /\ Owner
    /\ conn /\ ses.pipe # None /\ ses.snap \in {"Transferring", "Queued"}
    /\ ses' = [ses EXCEPT !.snap = "Paused"]
    /\ w' = [w EXCEPT ![ses.pipe].paused = TRUE]
    /\ UNCHANGED <<posts, cleanup, join, conn>> /\ Quiet

Resume ==
    /\ Owner
    /\ conn /\ ses.pipe # None /\ ses.snap = "Paused"
    /\ ses' = [ses EXCEPT !.snap = "Transferring"]
    /\ w' = [w EXCEPT ![ses.pipe].paused = FALSE]
    /\ UNCHANGED <<posts, cleanup, join, conn>> /\ Quiet

LocalCancel(keep) ==
    /\ Owner
    /\ conn /\ MayCancelHere
    /\ CancelPipeline(keep)
    /\ UNCHANGED <<posts, join, conn>> /\ Quiet

\* The peer's cancel asks only for a pipeline.
RemoteCancel(keep) ==
    /\ Owner
    /\ conn /\ ses.pipe # None /\ ses.snap \notin {"Cancelling", "Cancelled"}
    /\ CancelPipeline(keep)
    /\ UNCHANGED <<posts, join, conn>> /\ Quiet

\* resolveIncomingConflict
ResolveConflict(decision) ==
    /\ Owner
    /\ ses.pipe # None /\ ses.prompt = ses.pipe
    /\ ses' = [ses EXCEPT !.prompt = None]
    /\ w' = [w EXCEPT ![ses.pipe].decision =
               IF w[ses.pipe].phase = "asking" /\ ~w[ses.pipe].stopping
               THEN decision ELSE @]
    /\ UNCHANGED <<posts, cleanup, join, conn>> /\ Quiet

\* The first callback in the queue of the owner thread.  A callback of an
\* older generation, or for a session that is not active, does nothing.
AfterCallbackAnyGeneration(p) ==    \* mutant
    IF ~Active(ses) THEN ses ELSE
    CASE p.kind = "progress" ->
           IF ses.snap = "Paused" THEN ses
           ELSE [ses EXCEPT !.snap = "Transferring"]
      [] p.kind = "completed" -> [ses EXCEPT !.snap = "Completed"]
      [] p.kind = "failed" -> [ses EXCEPT !.snap = "Failed"]
      [] p.kind = "prompt" -> [ses EXCEPT !.prompt = p.gen]

AfterCallbackPausedMute(p) ==    \* mutant: a paused session hears nothing
    IF p.gen # ses.gen \/ ~Active(ses) \/ ses.snap = "Paused" THEN ses ELSE
    CASE p.kind = "progress" -> [ses EXCEPT !.snap = "Transferring"]
      [] p.kind = "completed" -> [ses EXCEPT !.snap = "Completed"]
      [] p.kind = "failed" -> [ses EXCEPT !.snap = "Failed"]
      [] p.kind = "prompt" -> [ses EXCEPT !.prompt = p.gen]

AfterCallback(p) ==
    IF p.gen # ses.gen \/ ~Active(ses) THEN ses ELSE
    CASE p.kind = "progress" ->
           IF ses.snap = "Paused" THEN ses
           ELSE [ses EXCEPT !.snap = "Transferring"]
      [] p.kind = "completed" -> [ses EXCEPT !.snap = "Completed"]
      [] p.kind = "failed" -> [ses EXCEPT !.snap = "Failed"]
      [] p.kind = "prompt" -> [ses EXCEPT !.prompt = p.gen]

Deliver ==
    /\ Owner
    /\ posts # <<>> /\ Head(posts).kind # "cancel"
    /\ posts' = Tail(posts)
    /\ ses' = AfterCallback(Head(posts))
    /\ UNCHANGED <<w, cleanup, join, conn>> /\ Quiet

\* incomingConflictCancelRequested: FileTransferRuntime::cancel, which first
\* sends the command to the peer and gives up if it cannot (sent).
DeliverCancelRequest(sent) ==
    /\ Owner
    /\ posts # <<>> /\ Head(posts).kind = "cancel"
    /\ sent => conn
    /\ posts' = Tail(posts)
    /\ IF sent /\ MayCancelHere
       THEN CancelPipeline(TRUE)
       ELSE UNCHANGED <<ses, w, cleanup>>
    /\ UNCHANGED <<join, conn>> /\ Quiet

-----------------------------------------------------------------------------
(* The task of a cancel: it waits for the worker, then removes the staging  *)
(* directory, the resume state and the descriptor, in this order.           *)
Removed(ok) ==
    LET unstaged == [disk EXCEPT !.staging = FALSE]
        gone == [unstaged EXCEPT !.state = FALSE]
    IN IF ok THEN {gone} ELSE {disk, unstaged, gone}

RunCleanupAtOnce(ok) ==    \* mutant: it does not wait for the worker
    /\ up /\ cleanup.phase = "waiting" /\ (cleanup.keep => ok)
    /\ cleanup' = [cleanup EXCEPT !.phase = IF ok THEN "ok" ELSE "failed"]
    /\ disk' \in IF cleanup.keep THEN {disk} ELSE Removed(ok)
    /\ UNCHANGED <<ses, w, posts, join, conn, trusted, up>>

RunCleanup(ok) ==
    /\ up /\ cleanup.phase = "waiting" /\ (cleanup.keep => ok)
    /\ w[cleanup.of].phase = "ended"
    /\ cleanup' = [cleanup EXCEPT !.phase = IF ok THEN "ok" ELSE "failed"]
    /\ disk' \in IF cleanup.keep THEN {disk} ELSE Removed(ok)
    /\ UNCHANGED <<ses, w, posts, join, conn, trusted, up>>

CleanupFinished ==
    /\ Owner
    /\ cleanup.phase \in {"ok", "failed"}
    /\ cleanup' = [cleanup EXCEPT !.phase = "none"]
    /\ ses' = IF cleanup.gen # ses.gen \/ ses.snap # "Cancelling" THEN ses
              ELSE [ses EXCEPT !.snap = IF cleanup.phase = "ok" THEN "Cancelled"
                                        ELSE "Failed"]
    /\ UNCHANGED <<w, posts, join, conn>> /\ Quiet

-----------------------------------------------------------------------------
(* Losses and what follows them.                                            *)
\* peerDisconnected: an active pipeline is stopped and destroyed; the owner
\* thread waits for its worker.
PeerDisconnectedUnjoined ==    \* mutant: it does not wait
    /\ Owner
    /\ conn
    /\ conn' = FALSE
    /\ IF ses.pipe # None /\ Active(ses)
       THEN /\ ses.gen < MaxGen
            /\ w' = [w EXCEPT ![ses.pipe].stopping = TRUE, ![ses.pipe].queue = 0]
            /\ ses' = [ses EXCEPT !.prompt = None, !.gen = @ + 1, !.pipe = None,
                                  !.replay = FALSE, !.snap = "Interrupted"]
       ELSE /\ ses' = [ses EXCEPT !.prompt = None]
            /\ UNCHANGED w
    /\ UNCHANGED <<posts, cleanup, join>> /\ Quiet

PeerDisconnected ==
    /\ Owner
    /\ conn
    /\ conn' = FALSE
    /\ IF ses.pipe # None /\ Active(ses)
       THEN /\ ses.gen < MaxGen
            /\ w' = [w EXCEPT ![ses.pipe].stopping = TRUE, ![ses.pipe].queue = 0]
            /\ join' = ses.pipe
            /\ ses' = [ses EXCEPT !.prompt = None, !.gen = @ + 1, !.pipe = None,
                                  !.replay = FALSE]
       ELSE /\ ses' = [ses EXCEPT !.prompt = None]
            /\ UNCHANGED <<w, join>>
    /\ UNCHANGED <<posts, cleanup>> /\ Quiet

PipelineDestroyed ==
    /\ up /\ join # None
    /\ w[join].phase = "ended"
    /\ join' = None
    /\ ses' = [ses EXCEPT !.snap = "Interrupted"]
    /\ UNCHANGED <<w, posts, cleanup, conn>> /\ Quiet

PeerReconnects ==
    /\ Owner
    /\ ~conn
    /\ conn' = TRUE
    /\ UNCHANGED <<ses, w, posts, cleanup, join>> /\ Quiet

\* receiveResumeQuery; a repeated query gets the same answer and changes
\* nothing.  readable: the stored state loads.
ReceiveResumeQuery(readable) ==
    /\ Owner
    /\ conn
    /\ ~(ses.snap = "Resuming" /\ ses.replay)
    /\ ses.snap = "Interrupted" /\ ses.pipe = None
    /\ readable /\ disk.state
    /\ ses' = [ses EXCEPT !.snap = "Resuming", !.pipe = ses.gen,
                          !.replay = TRUE]
    /\ w' = [w EXCEPT ![ses.gen] = NewWorker]
    /\ UNCHANGED <<posts, cleanup, join, conn>> /\ Quiet

\* The process dies: only the disk is left.
Crash ==
    /\ up
    /\ up' = FALSE
    /\ conn' = FALSE
    /\ join' = None
    /\ ses' = FreshSession
    /\ w' = [g \in Generations |-> NoWorker]
    /\ posts' = <<>>
    /\ cleanup' = NoCleanup
    /\ UNCHANGED <<disk, trusted>>

\* hydrateNextRecoveryState, for a record that passes its validation.
Hydrate ==
    /\ ~up
    /\ trusted /\ disk.state
    /\ up' = TRUE
    /\ ses' = [FreshSession EXCEPT !.offer = "accepted", !.snap = "Interrupted"]
    /\ UNCHANGED <<w, posts, cleanup, join, disk, conn, trusted>>

Revoke ==
    /\ trusted
    /\ trusted' = FALSE
    /\ UNCHANGED <<ses, w, posts, cleanup, join, disk, conn, up>>

-----------------------------------------------------------------------------
WorkerStep(g) ==
    \/ TakeFrame(g) \/ WorkerStops(g)
    \/ ManifestDone(g) \/ ManifestFails(g)
    \/ AskForDecision(g) \/ TakeDecision(g) \/ AskingStops(g)
    \/ FileBegun(g) \/ ChunkStored(g) \/ FileEnded(g) \/ PurgeFails(g)
    \/ FrameFails(g)

Next ==
    \/ \E g \in Generations : WorkerStep(g)
    \/ Accept \/ Reject
    \/ \E b \in BOOLEAN :
         \/ FinishAcceptPreflight(b)
         \/ LocalCancel(b)
         \/ RemoteCancel(b)
         \/ DeliverCancelRequest(b)
         \/ RunCleanup(b)
         \/ ReceiveResumeQuery(b)
    \/ EnqueueFrame \/ Pause \/ Resume
    \/ \E decision \in {"go", "cancel"} : ResolveConflict(decision)
    \/ Deliver \/ CleanupFinished
    \/ PeerDisconnected \/ PipelineDestroyed \/ PeerReconnects
    \/ Crash \/ Hydrate \/ Revoke

Spec == Init /\ [][Next]_vars

-----------------------------------------------------------------------------
\* Every variable keeps its type, within the bounds.
TypeOK ==
    /\ ses.snap \in Terminal \cup {"WaitingForAcceptance", "Queued", "Transferring",
                    "Paused", "Interrupted", "Resuming", "Cancelling"}
    /\ ses.pipe \in {None} \cup Generations /\ ses.gen \in Generations
    /\ ses.prompt \in {None} \cup Generations
    /\ \A g \in Generations :
         /\ w[g].phase \in {"none", "idle", "busy", "asking", "answered", "ended"}
         /\ w[g].queue \in 0..QueueLimit
    /\ Len(posts) <= MaxPosts
    /\ disk.done \in 0..N

\* Never do two workers write the files of one transfer: a pipeline starts
\* only after the one before it has ended (peerDisconnected waits in the
\* destructor, a cancelled session gets no new pipeline).
OneWriter ==
    \A g, h \in Generations : Running(g) /\ Running(h) => g = h

\* The end that a session shows is the end its own pipeline reported, not a
\* late report of a pipeline that was stopped before (pipelineGeneration).
EndedByItsOwnWorker ==
    ses.pipe # None =>
      /\ ses.snap = "Completed" => w[ses.pipe].out = "completed"
      /\ ses.snap = "Failed" => w[ses.pipe].out = "failed"

\* A cancel that does not keep the partial files leaves nothing: no staging
\* directory and no state that a restart would bring back, although the
\* worker was in the middle of a frame when it was told to stop.
CancelledLeavesNothing ==
    ses.snap = "Cancelled" /\ ~cleanup.keep => ~disk.staging /\ ~disk.state

\* A worker that waits for a decision can get one: its prompt is shown, or on
\* its way, or answered (waitForConflictDecision, resolveIncomingConflict).
AskedIsAnswerable ==
    \A g \in Generations :
      w[g].phase = "asking" /\ ~w[g].stopping =>
        \/ w[g].decision # "none"
        \/ ses.prompt = g /\ ses.pipe = g
        \/ \E i \in 1..Len(posts) : posts[i] = [kind |-> "prompt", gen |-> g]

-----------------------------------------------------------------------------
(* Liveness: threads are scheduled, posted callbacks and finished tasks are *)
(* delivered.  The user and the peer owe nothing.                           *)
Fairness ==
    /\ \A g \in Generations : WF_vars(WorkerStep(g))
    /\ WF_vars(Deliver \/ \E b \in BOOLEAN : DeliverCancelRequest(b))
    /\ WF_vars(\E ok \in BOOLEAN : RunCleanup(ok))
    /\ WF_vars(CleanupFinished)
    /\ WF_vars(PipelineDestroyed)

LiveSpec == Spec /\ Fairness

\* The owner thread, which waits for the worker of a lost connection while
\* that worker may be waiting for the user, is always released.
OwnerIsReleased == join # None ~> join = None

\* A cancel comes to its end, whatever the worker was doing, paused or
\* waiting for a decision.
CancelEnds ==
    ses.snap = "Cancelling" ~> ses.snap \in {"Cancelled", "Failed"} \/ ~up
=============================================================================
