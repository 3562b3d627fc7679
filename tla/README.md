# RelayDesk: TLA+ specifications

RelayDesk (DeskflowPlus) extends Deskflow, which shares one keyboard and mouse
between computers, with device discovery, pairing and file transfer. This
directory models the parts in which most can go wrong and least can be tested:
the file transfer between two paired devices, with its threads, its state on
disk, its pauses and cancels, lost connections and restarts; how two devices
come to trust each other and find each other again; and, of the Deskflow core,
which screen has the cursor and who has which clipboard.

Paths below are relative to `src/src/lib/relaydesk/` unless they begin with
`src/`.

## 1. The system

| Part | Code | State | Operations |
|---|---|---|---|
| Control state machine | `transfer/TransferControlStateMachine` | state, completed bytes and files | advance, pause, resume, interrupt, cancel, confirmCancelled, fail, updateProgress |
| Outgoing session | `app/FileTransferRuntime`, `transfer/TransferSender` | `OutgoingSession`: control, offer, manifest pages, current file, sender and its frame bridge, flags, tasks of the recovery record | send, pause, resume, cancel; frames of the peer; results of worker tasks; timers; write capacity; loss; hydration |
| Incoming session | `app/IncomingTransferRuntime` | `Session`: offer, snapshot, pipeline and its generation, prompt, last resume response | receiveOffer, accept, reject, enqueueFrame, commands of both sides, resume query, loss, hydration, callbacks |
| Receive pipeline | `ReceivePipeline` in the same file, `app/IncomingFileReceiverWorker`, `transfer/FileReceiver` | manifest, open receiver, `m_resumeState`; on disk: partial files, resume state, descriptor, committed files | MANIFEST_COMPLETE, FILE_BEGIN, FILE_CHUNK, FILE_END; checkpoint, commit, record, purge |
| Worker pool | `QThreadPool` of `FileTransferRuntime` | two threads and a queue | preflight, pipeline, save, pump, removal, cleanup |
| Offer state machine | `transfer/TransferOfferStateMachine` | state of one offer on each side | send/receive offer, accept, reject |
| File channel | `filetransport/`, connections in `FileTransferRuntime` | TLS sockets, negotiated capabilities, write queue | handshake, Hello, Capabilities, replacement, dispatch |
| Stores | `transfer/ResumeStore`, `transfer/TransferRecoveryStore` | files replaced atomically | save, load, remove, list |
| Codecs, manifest, path and conflict rules | `transfer/*Codec`, `ManifestBuilder`, `PathPolicy`, `ConflictResolver` | none | pure functions, walks of the file system |
| Automatic reconnection | `reconnect/`, `app/AutoReconnectRuntime` | per peer: request, generation, candidates, retry timer; `m_pending`; the connection tables of `FileTransferRuntime` | start, network available, resolved, connected, failed, retry, stop |
| Pairing | `pairing/`, `app/PairingTrustRuntime` | the active session with expiry and confirmations; the receiver's manual snapshot | start, request, submit, compare, confirm, result, cancel, expire, revoke |
| Discovery | `discovery/`, `app/DeviceDiscoveryRuntime` | registry of announcements | announce, receive, expire |
| Trust | `trust/` | trusted devices, pinned certificates | add, revoke, verify |
| History, view models, widgets | `transfer/TransferHistoryStore`, `model/`, `widgets/`, `i18n/` | presentation | |
| Screen switching | `src/src/lib/server/Server.cpp` | connected clients, active screen, wait or double tap at an edge, screen saver, lock, clients being closed | mouse at an edge, hotkeys, screen saver, connect, disconnect, configuration |
| Clipboards | `Server.cpp`, `ClientProxy1_0`/`1_6`, `PrimaryClient`, `src/src/lib/client`, `deskflow/ClipboardChunk`, `StreamChunker` | owner, sequence number and data of each clipboard, dirty flags, what is queued and on the wire | copy, grab, changed, switch, enter, leave, set, connect, lose |
| Rest of the Deskflow core | `src/src/lib/platform`, `net`, `arch`, ... | devices, sockets, threads | upstream code |

**How they interact.** `FileTransferRuntime` owns the connections, the outgoing
sessions, the pool and the `IncomingTransferRuntime`, all on one thread, the
*owner thread*. Frames of the peer are events on it. Slow work goes to the pool
and comes back as an event (a finished future, a queued call). A
`ReceivePipeline` is itself a pool task that lives as long as its transfer: it
takes frames from a bounded queue under a mutex, and posts progress, prompts and
its end back to the owner thread, tagged with the generation it was built with.
Both ends keep a record on disk from which a restarted process hydrates an
`Interrupted` session; the sender then asks the receiver for its durable
offsets.

The runtimes of reconnection and pairing sit on the same owner thread; late
timers, resolutions and connection results are told apart by generations. The
two pairing managers talk over UDP and share nothing. The Deskflow server runs
on one event queue: what a proxy receives becomes an event, clipboard data is
posted in chunks, and proxies are deleted by the handler of their disconnection
while pointers to them and events of them may still be about.

**What is hard.** Results of tasks that outlive what asked for them; commands of
two users crossing frames in flight; a save and a removal of the same record
competing; a worker in the middle of a frame when its session is cancelled or
its peer lost; the owner thread waiting for a worker that waits for the user;
crashes between two disk operations; tasks that need a thread of a pool in which
others sit and wait. `PROJECT.json` lists these hazards at their lines.

**What makes it correct.** Nothing corrupt is committed. Records and offsets
never promise more than the disk holds and are never taken back. Completed means
complete, on both sides. One worker at a time writes a transfer's files. A
cancelled or completed transfer leaves nothing behind that a restart would bring
back, and a running one can be brought back. Every end is reached, no wake-up is
lost, nobody waits for ever. A device is trusted only after both users have
acted, and files and memory say the same of it. A coordinator neither stalls nor
runs twice. The cursor is on exactly one connected screen. A screen that the
server takes for up to date shows what the server has.

## 2. The modules

### TransferControl: the control state machine

One record `control`, the snapshot. Every method `X` of the class is a pair of
operators, `XOk` (the call succeeds) and `X` (the snapshot after the call, which
a refused call leaves alone), and an action that makes the call with any
argument in any state. `Edges` is `canAdvance`. `OutgoingTransfer` instantiates
the module for its field `s.control` and drives the same operators, so the table
is written once. `canPause`, `canResume`, `canCancel` and the time stamps are
left out: they are computed from the state.

### FileReceive: the receive pipeline and the disk

Frames come from an *arbitrary peer*: any FILE_BEGIN, FILE_CHUNK or FILE_END, in
any order, with good or bad bytes. A file is a number of chunks. Bytes are
abstracted to the question whether they are those of the source, and equality of
SHA-256 to equality of contents; `bufOk` says it of the open file and `hashOk`
of the running digest, which a resumed receiver rebuilds from the partial file
(`HashOfPrefix`). `pc` is the place in `process()`: each disk operation is a step
of its own, may fail, and the process may die before it and after it. A crash
keeps any prefix of what `QFile` still buffered. `Hydrate` and `ResumePipeline`
are the two ways back.

Two details of the code that the model keeps: the last chunk of a file is not
checkpointed, and a manifest that is refused does not end the worker, which then
refuses the next frame (`refusing`).

`done` is `m_completedFiles`. A pipeline that adopts a stored state counts the
open files whose offset is their size, an empty file among them, as the code does.

The policy is the default one, AutoRename; Skip and Overwrite are not modelled.
A committed copy is never deleted by the model.

### IncomingTransfer: the incoming session and its pipelines

The two kinds of threads. The owner thread runs the actions that contain
`Owner`; while `join # None` it sits in the destructor of a pipeline and runs
nothing. `w[g]` is the worker of the pipeline of generation `g`: its phase, the
frames queued for it, `m_paused`, `m_stopping`, the decision it waits for. The
worker posts callbacks to `posts`, which the owner thread delivers in order.
What a frame does to the files is in FileReceive; here `disk` keeps only whether
there is a resume state and a staging directory and how many files are
committed, and a frame succeeds or fails. `cleanup` is the task of a cancel,
which waits for the worker and then removes. Sending a command to the peer may
fail. The peer may be lost and come back, the process may die and hydrate, trust
may be revoked, at any point.

### OutgoingTransfer: the outgoing session

An action is one event on the owner thread: a user call, a frame, a timer, the
end of a task. A method that other methods call is an operator from session to
session with the method's name (`FailOutgoing`, `PersistOutgoing`,
`ScheduleSenderPump`, `CompleteOutgoing`, ...), so an event with all its nested
calls is one step, as in the code. The socket is reduced to `queued` (it holds
bytes not yet written) and, for a frame handed to it, the outcome `sink` and the
permission to pull another one, `room`; both may be refused only while something
is queued. The peer may send any frame of this transfer at any time. `store` is
the recovery record; its save and its removal are tasks that end later, well or
not. `acked` is a history variable. `Before[f]` is what the loop over the
manifest in `handleResumeResponse` has summed up when it comes to file `f`.

`conn` is the connection registered for the peer, once it has negotiated. A second
connection that authenticates replaces it (`ReplaceConnection`), and no session is
told: `former` says what became of the old one. While it is closing its frames
still arrive (`Heard`) and the bytes it writes still report capacity; its end marks
nothing (`FormerClosed`). Only the loss of the current connection interrupts a
session (`ConnectionLost`).

Directories of the manifest carry no frames and are left out; so is the
throttling of progress signals.

### WorkerPool: who gets a thread

Whole transfers between hosts, reduced to the order in which their two ends ask
the pool for threads. A pipeline keeps its thread while it waits for frames.
Nothing else goes wrong in this module: no loss, no cancel. The reduction keeps
what the property is about, which task waits for which thread, and is enough to
show that transfers in both directions can take all of them.

### Reconnect: rounds, generations and the connection tables

One record per peer: the coordinator (`hasRequest`, `connected`, `waiting`,
candidates and index, retry timers), the provider's resolutions under way, the
entry of `m_pending`, and the entries of `m_clients`, `m_connections` and
`m_peerConnections` that the attempts are made in. Generations are only ever
compared with the current one, so a callback carries whether its generation is
still current; raising the generation makes all of them stale. Signals are
delivered synchronously, so an action is one slot with everything it emits,
including errors of one peer that the runtime reports to all (`OtherError`). An
empty `std::function` that is called ends the process (`aborted`). Delays and
the remembered addresses on disk are left out.

`disconnectPeer` takes the client out of `m_clients` only; the entry of its
connection in `m_connections` goes when the socket reports that it is closed, and a
socket that was not connected, or still has bytes to write, does not report it
before it is deleted. `orphan` says that such an entry is left: it points to a
deleted connection, and no peer's current connection is one.

### Pairing: two managers, datagrams, trust

`m[h]` is the manager of host `h` with its state machine and the manual
snapshot, which the code keeps beside the machine and which hides it. `net` is
the set of datagrams ever sent; receiving one does not remove it, which is loss,
repetition and reordering. A code is right or wrong; peer identity and endpoint
do not change. `memory` and `disk` are the peer's record in the trust store and
in its two files; `Commit` contains the save, the rollback of a commit that
failed or came too late, and every way the writes may fail. `Restart` loads what
is readable. Clocks differ by `skew`. `ghost` holds history for the properties.

### ScreenSwitch: which screen has the cursor

A connected client is a proxy object: `new`, `listed` in `m_clients`, `closing`
in `m_oldClients`, or `gone` (deleted). The pointers `m_active`, `m_activeSaver`
and `m_switchScreen` may outlive a proxy; a handler that then follows one ends
the run with `crashed`. `AtEdge`, `MoveWith` and `Inside` are `isSwitchOkay` and
the two mouse handlers with geometry abstracted: any connected screen may be the
neighbor, a tap may come fast or not, a corner may be locked. A hotkey ignores
the lock, as `jumpToScreen` does.

A connected client goes in two ways. A lost one is deleted by
`handleClientDisconnected` (`ClientDisconnected`), which gives up the wait only if
the lost screen is the one that counts (`WaitWithout`). A configuration may drop it
(`DropFromConfig`); `closeClient` then does the same to the wait, but `setConfig`
goes on to `processOptions`, which stops the timer and the double tap
(`ProcessOptions`).

### ClipboardShare: owners, sequence numbers, dirty flags

The server's side is one record (`m_clipboards`, the proxies' copies and dirty
flags, the event queue, what is written to each client), each client's side
another. A grab, an enter and a leave are written at once; data is posted to the
event queue first (`Post`), so a message written later may overtake it. A
clipboard travels as two messages, the start and the rest: one chunk and the
mark are not told apart, and all data are of one size, so that the size check
always passes unless uploads of two clients meet in the one static buffer
(`cached`, `filling`). `shown` is `m_clipboard`, `data` is `m_clipboardData`.
When the assertion of `onClipboardChanged` fails the run stops (`unexpected`).
The loops of the code over the clipboards are `AllIds`, for `kClipboardEnd` = 2.

`Unsent` is the condition of `Client::sendClipboard`: not sent since the user copied,
or sent, but different from what was sent (`m_dataClipboard`), as when the client is
left before its loop has come to the grab of a newer copy. `Connect` resets what
`Client::handleConnected` resets, which `m_active` is not: a client that was lost
while it was active takes itself for active when it is connected again.

`Drop` removes the handlers of grabs and updates with the proxy. The handler of posted
chunks is never removed: a chunk still queued runs on a deleted proxy. The server
writes it to no stream or ends, unless a new proxy has got the same address, which
then writes it to *its* client (`Orphan`, `Adopted`; `reused` in `Connect`). At the
client, whose proxy has no successor so early, the chunks come to nothing or end the
program, which starts again with `m_active` clear (`ended`).

### Model-checking modules and proofs

`MC<module>.tla` extends a specification and defines values for its constants;
the `.cfg` files assign them. `<module>_proofs.tla` holds theorems.

A definition marked `mutant` is the definition after it with one plausible
mistake; `PROJECT.json` pairs each property with one that violates it.

## 3. The runs

| Run | Instance | Shows |
|---|---|---|
| `receive` | files of 3, 1 and 0 chunks, up to 3 pipelines | `TypeOK`, `CommittedIntact`, `ResolvedCommitted`, `DurableOnDisk`, `CompletedMeansAllCommitted`, `DurableNeverRegresses` hold |
| `control` | 3 bytes, 2 files | `TypeOK`, `CompletedIsFull`, `TerminalIsFinal` hold |
| `outgoing` | 2 files of 1 chunk, 1 page, 2 losses, replaced connections or crashes | `TypeOK`, `CompletedMeansAcknowledged`, `RecoverableWhileRunning`, `CompletedLeavesNoRecord`, `PausedIsQuiet`, `SenderNeverStalls`, `EndingEnds` hold |
| `incoming` | 2 files, 3 generations, 2 queued frames, 4 callbacks | `TypeOK`, `OneWriter`, `EndedByItsOwnWorker`, `CancelledLeavesNothing`, `AskedIsAnswerable`, `OwnerIsReleased`, `CancelEnds` hold |
| `pool` | 2 hosts of 2 threads, 2 transfers each way | `AcceptedIsCompleted` **fails**: every thread of both hosts belongs to a pipeline |
| `reconnect` | 1 peer, 2 addresses, 2 candidates a round, 1 remembered | `ExactlyOneContinuation`, `AnswerOfThisRound`, `TablesAgree`, `ConnectedMeansReady` hold |
| `reconnect_fallback` | the same | `CandidateIsAttempted` **fails**: the second candidate is never connected to |
| `pairing` | 1 session, validity 1, 3 points of time, skew up to 1 | `TrustNeedsBothUsers`, `InitiatorCommitsFirst`, `PrimaryIsMemory`, `NoHiddenSession`, `RevocationHolds`, `SessionsEnd` hold |
| `screens` | 3 connections, 2 of one name, 2 directions, wait and double tap | `TypeOK`, `OneScreenEntered`, `SaverScreenConnected` hold |
| `screens_wait` | the same | `WaitedForNotDeleted` **fails**: the wait for a lost client goes on |
| `clipboard` | 2 clients, copies to 1 of the 2 clipboards, 3 data (1 over the limit), 2 copies, 2 switches or losses | `CleanIsCurrent`, `ActiveIsServed`, `OwnerIsHeard` hold |
| `clipboard_owner` | the same, copies to both clipboards | `OwnerIsExpected` **fails**: the update of a client that lost the clipboard is taken |

`CHECK_DEADLOCK FALSE` appears where a system may stop for good: a transfer that
has ended, a process that does not come back.

**Bounds and why they are enough.**
`Size = <<3, 1, 0>>` has a file with two checkpoints, so that offsets can grow and
regress, one without any, whose FILE_BEGIN can come while the first is open or
resolved, and an empty one, which a resumed pipeline may count twice.
`MaxStarts = 3` gives a resume of a resume.
In `outgoing`, two files make a file boundary (result, next file) and a last
file (completion); two losses allow a crash after a loss, a loss of the
connection on which a hydrated session resumes, and the loss, or another
replacement, of a connection that replaced one. In `incoming`, `MaxGen = 2`
allows two losses or a loss and a cancel, thus a callback that is two generations
old; the bound is in the guards of the actions that raise the generation.
`MaxPosts = 4` leaves room for the three callbacks a single step needs and one
left over from an older pipeline. In `pool`, two transfers each way are the
fewest that can take both threads of both hosts; with one of them less TLC finds
that every accepted transfer is completed. In `reconnect` the peers interact only
through `OtherError`, so one peer suffices; two addresses make a candidate after the
first, and generations need no bound. In `pairing` one session with repeated
datagrams already gives a request that comes again after its end (which is a
second session for the receiver); validity 1 and three points of time put every
action before, at and after the expiry of either clock. In `screens` two
connections of one name give the duplicate, and the third a screen that is
neither active nor waited for. In `clipboard` two copies and two moves are
what it takes to race a copy with a copy and a switch, to lose and connect a client
that is active and copies, to send on leave a copy whose grab is still queued behind
one that was sent, and to give a chunk of a lost proxy to its successor. Two
clipboards with copies to both are what `clipboard_owner` has; in the main run the
other clipboard is only resent (`AllIds`). The symmetries exchange clients, data,
directions and the two connections of one name; none is used with a liveness property.

**Fairness and what justifies it.**
`OutgoingTransfer`: weak fairness of the end of pump tasks and disk tasks (the
pool runs them; see below), of the drain of the socket (TCP progress while
connected) and of the peer's answer to a FILE_END, which the sender itself does
not guard with a timeout. The peer is taken to answer only while it is connected and
no connection was replaced since the last loss: an answer to a frame of the old
connection may have been lost with it. The manifest timer, the user and reconnection
get no fairness; the properties do not need it.
`IncomingTransfer`: weak fairness of each worker thread, of the delivery of
posted callbacks, of the task of a cancel and its end, and of the return of a
destructor whose worker has ended. Nothing is assumed of the user, who may leave
a prompt open, nor of the peer.
`WorkerPool`: weak fairness of all work, none of the users' accepts; its
counterexample is a state in which no work is possible. The other two modules assume
that a task gets a thread; point 6 of the next section says when this assumption is
wrong.
`Pairing`: time passes, and the expiry timer fires when it is due; nothing is
assumed of users or of the network.
`Reconnect`, `ScreenSwitch` and `ClipboardShare` are checked for safety only.
`ExactlyOneContinuation` says what keeps a coordinator alive without fairness.

**Exceptions.** Some properties hold only outside cases in which the code is
known to go wrong, and say so. `CompletedMeansAllCommitted` allows a resumed
transfer to miss as many files as the manifest has empty ones (point 1 below), and
none otherwise. `SenderNeverStalls` exempts a session whose ready connection was
replaced, until the loss of the new one (point 10); `TablesAgree` has no say on the
entry that `disconnectPeer` leaves behind (point 11); `ExactlyOneContinuation` takes
a coordinator at its word that it is connected, which after a loss it may wrongly
believe until the peer is observed again. `OneScreenEntered` and
`SaverScreenConnected` exempt a switch that happened while the screen saver ran, or
to a screen that was no longer connected (`strayed`): point 8, and a hotkey during
the screen saver, are not caught by these two. `OwnerIsHeard` exempts uploads that
met in the shared buffer (`mixed`), the update that the assertion excludes, and a
client which is active, or believes to be since it was lost (point 12), and has not
sent its copy, or has connected again and does not know the number of the clipboard
that it owned before. `ActiveIsServed` exempts the screen that became active because another was lost
(`forced`), to which `forceLeaveClient` sends no clipboards, a clipboard over the
size limit, and a copy on the server's own screen that the event loop has not
come to (`GrabQueued`). It and `CleanIsCurrent` end with the failed assertion.

## 4. Where the code and the documents disagree

Points 6 to 9 are runs that TLC answers with a counterexample. The others are
behaviours of the models too; they were found as counterexamples to properties
that the runs no longer state, or state with the exception that admits them.

1. **Empty file counted twice** (`app/IncomingTransferRuntime.cpp:774`).
   `prepareResumeState` counts an open file with offset = size as complete. For
   an empty file that is so from the start; it is sent, and counted again. The
   transfer is announced as Completed, and its resume state removed, with one
   file missing for every file counted twice. If the empty files are the only ones
   left, the count passes the number of files instead, and Completed is never
   announced.
2. **Last chunk not checkpointed** (`:541`). A connection lost between the last
   chunk and FILE_END leaves a partial file that no later FILE_BEGIN accepts
   (`StagingSizeMismatch`), although the interruption is called resumable.
3. **Pause crossing the last result** (`app/FileTransferRuntime.cpp:2508`).
   `completeOutgoing` asks a paused machine for Verifying, is refused, and fails
   a transfer that the receiver has completed.
4. **Second offer of a restored transfer** (`:1800`). `offerPreparedTransfers`
   takes a session without offer state for one that was never offered.
5. **Interrupted for ever** (`app/IncomingTransferRuntime.cpp:2003`). A session
   lost before its manifest was complete, or right after its completion, is
   Interrupted without a resume state; it can be neither resumed nor cancelled.
6. **Pool starvation** (`app/FileTransferRuntime.cpp:311`). With two transfers
   accepted in each direction every thread of both hosts may belong to a pipeline
   waiting for a sender without a thread. Nothing times out. The product
   requirements ask that a task "can be resumed or fails explicitly".
7. **Candidates after the first** (`app/FileTransferRuntime.cpp:674`). A client
   whose connection failed before it was connected stays in the tables, because
   its socket never emits `disconnected()`. The attempt at the next candidate
   finds it and waits for its result, which never comes.
8. **Wait for a lost client** (`src/src/lib/server/Server.cpp:2024`). The comment
   says "stop waiting to switch to this client"; the code does so only when that
   client is the active screen. The timer then switches to a deleted proxy.
9. **Update of a former owner** (`src/src/lib/server/Server.cpp:1438`). "should be
   the expected client" is asserted, but a client's update that carries the
   sequence number of a later grab by the primary screen is taken; and the resend
   after a grab by the primary screen calls the method for every clipboard
   (`:1199`), also for one that a client owns.
10. **A second connection replaces a ready one** (`app/FileTransferRuntime.cpp:1233`).
    The sessions of the first are not told. Until the new one has negotiated the
    peer is not ready, and what a session tries meanwhile fails it; afterwards a
    session goes on over the new connection, but one that waits for an answer which
    was lost with the old connection, or for capacity that only the old socket
    reported, waits until the new connection is lost too (`:2667`: the end of a
    connection that is not the current one marks nothing).
11. **`disconnectPeer` of a connection in progress** (`app/FileTransferRuntime.cpp:707`).
    The client is taken and deleted, the entry in `m_connections` stays when the
    socket does not report its end; `stop()` (`:570`) calls `close()` on every entry.
12. **A client lost while it is active** (`src/src/lib/client/Client.cpp:487`).
    `m_active` is not reset. Until it is entered and left again, such a client only
    announces its copies and does not send them (`:565`).
13. **Chunks of a deleted proxy** (`src/src/lib/server/ClientProxy1_6.cpp:24`,
    `src/src/lib/client/ServerProxy.cpp:45`). The handler of posted chunks outlives
    its proxy and uses the stream of a deleted object. A new proxy at the same
    address gets them instead and sends a clipboard of the lost client's queue.

## 5. The proofs

TLAPS proves the following for *every* value of the constants, subject to the
ASSUMEs of the modules (sizes and counts are natural numbers; `IncomingTransfer`
also assumes at least one file, one queued frame and three pending callbacks;
`Pairing` assumes two hosts and a request that is valid for some time;
`Reconnect` assumes that a round may try and a peer may remember an address).
Every invariant and every action property of the runs that pass is proved.

**TransferControl_proofs.** `ControlTyped`, `CompletionIsFull`,
`TerminalIsAbsorbing`, `ProgressIsMonotone`. All rest on one lemma about the
shape of a step (`StepShape`): a call changes nothing, or leaves a state that is
not terminal for another (for Completed only with full progress), or raises the
progress within the totals.

**FileReceive_proofs.** `Typed`, `OnlyIntactFilesCommitted`, `RecordsAreTrue`,
`OffsetsAreDurable`, `StoreIsMonotone`, `CompletionIsHonest`. None of the
properties is inductive. `IInv` adds that open and resolved files of a state are
disjoint, that the worker's state is the stored one while it works
(`MemIsStored`; otherwise a checkpoint could replace a newer state), that the
running digest and the buffered bytes agree (`bufOk = hashOk`, from which
`CommittedIntact` follows), and that the partial file of the open receiver is
never longer than what was received. `StoreIsMonotone` is an action property
proved from the same invariant. `CompletionIsHonest` needs a second invariant,
`CInv`: `m_completedFiles` is ahead of the number of resolved files by the empty
files at most, and by none in a pipeline that adopted no state; it is so because a
stored offset of an open file is short of the size unless the file is empty
(`Short`). Files that are not resolved may be committed, never the reverse, so the
count bounds the files that are missing. Nothing is assumed of the sizes.

**IncomingTransfer_proofs.** `IncomingTyped`, `WriterIsUnique`, `EndIsItsOwn`,
`CancelSweeps`, `PromptsReachTheUser`. The invariant `IInv` says who *owns* a
running worker: the session (`ses.pipe`), the destructor that waits for it
(`join`), or the task of a cancel (`cleanup.of`); in which states of the session
each owner can exist, so that there is never more than one (`Phases`); that what
is left of older pipelines is older (`Dated`); that a pending report of an end
is the end of its worker (`Truthful`); that a finished cleanup has removed what
it should (`Swept`); and, for the prompts, by which way the question travels
(`Asked`). The proof factors the twelve worker steps through one lemma about
their common effect and the owner's steps through lemmas about starting a worker,
letting go of one, and touching none.

**OutgoingTransfer_proofs.** `CompletionIsAcknowledged`, `RunningIsRecoverable`,
`CompletionLeavesNoRecord`, `PausedSendsNothing`, `SessionTyped`, and
`ProgressWithinTotals`, which no run states. An event runs a chain of nested calls, so the proof
follows the calls. `Good(s, conn, acked, store)` is a predicate on a session; each
operator from session to session has a lemma that says when it preserves `Good`,
each action is a composition of them. Its parts: every file before the current
one is acknowledged (`Counted`); a completed session has neither a record nor a
save nor a query (`Ended`); a removal knows how the session will end (`Removal`);
of page timer, sender, interruption and first save at most one is under way
(`Places`); nothing is under way without a record on disk (`Kept`). `Places` is
what makes the rest inductive: it is the reason why the answer to a resume query
never meets a sender, and a page timer never a session that has been resumed.

Two more invariants stand on this one. For `PausedSendsNothing`, an action
property: a paused sender is not pumped; what could still change its progress is
the answer to a resume query. `Hush` excludes that: a session that is interrupted
or has asked is not paused, and its state machine refuses a pause. For
`SessionTyped` the bound on the counted bytes is what takes work: a chunk is counted
when the connection takes it, long after it was read, and resumption sets the
counter to what the receiver reported. `Measured` bounds the counter by what the
current sender has read (`Paced`) and, whenever the next sender may start
(`Due`: page timer, first save, not yet accepted), by where that sender will begin
(`Base`). Most calls leave the progress alone; they are one relation, `Like`, that
preserves `Measured` (`LikeKeeps`) and composes. `Before` is a recursive function,
hence a choice in the logic; that a function with its equation exists is proved by
the least counterexample (`LeastOf`, `PrefixExists`), as are its bounds.

**ScreenSwitch_proofs.** `TypeCorrect`, `OneScreenHasTheCursor`,
`SaverScreenStaysConnected`, and `NamesStayUnique`, which no run states: the server
never has two connected clients of one name, however many connect. The invariant
`Placed` adds what a switch starts from: the active screen is connected, nobody
else was told enter, a proxy that is still being set up never was, and the screen
saver remembers a screen only while the primary screen is active.

**Pairing_proofs.** `TypeCorrect`, `TrustFollowsBothUsers`, `ReceiverTrustsLast`,
`FileFollowsMemory`, `SnapshotHidesNothing`, `RevocationIsFinal`. The network keeps
every datagram, so the invariant follows a *session* through both managers and
all its datagrams: which host plays which part (`Roles`), what a datagram proves
of its sender (`Mail`), what a commit has behind it (`Commits`), what trust does
(`Trusts`). These are facts about the past and only grow, hence a late or
repeated datagram cannot undo them. Memory and files, and the manual snapshot,
need one invariant each.

**Reconnect_proofs.** `OneContinuation`, `AnswersBelongToTheRound`,
`TablesStayTogether`, `NoFalseSuccess`, and `RevokedPeersAreSilent`, which no run
states. `Good(x)` is a predicate on the record of one peer, and each function of
the coordinator and of the tables says from which part of `Good` it restores the
whole. The strengthening that none of the properties shows is `Waited`: a peer
that is ready has no attempt under way, so the connection whose end starts a new
round is never the one that an attempt waits for. `TablesStayTogether` is about the
entries in use: what `disconnectPeer` leaves behind is `orphan`, which no other entry
depends on.

**ClipboardShare_proofs.** `ActiveScreenIsServed`, `CleanScreensAreCurrent`,
`OwnersAreHeard`. Two invariants, one for each direction. From the server: a
screen that the server takes for up to date (its dirty flag is clear) need not
have the clipboard yet. `There` says where it is for a client: the last chunk
for it in the server's queue, else the last message on its connection, else in
the client itself, unless its user has copied since and the grab is on its way
and will be accepted (`FreshGrab`). That it will be accepted needs the client to
know a sequence number at least that of the clipboard, or to learn it before the
clipboard reaches it (`Caught`), and this in turn that a client which is active was
told the current one (`Entered`) and that nothing carries a number not yet given
out (`Numbered`). `Here` is the same for the server's own screen; `Served` and
`Limited` relate the active screen's flag to what the server keeps and to the size
limit. Each operator from server to server and each queue operation has a lemma.

To the server (`UploadsAreFollowed`, from which `OwnersAreHeard` follows): the
upload of a clipboard passes three queues and a shared buffer, and grabs, enters
and other clipboards overtake it. `Heard` says that a client which has sent a
clipboard, and whose user has not copied since, has a number *u* such that the
last upload in its loop, else on its connection (`Sending`), else the last event
of its proxy in the server's queue, else the server's clipboard (`Arrived`)
carries what the client has with the number *u*, and that no grab of its own that
is under way has a later number, by which the server would take that upload for
stale. What makes it inductive: start and data alternate on every queue and the
buffer holds the start of one client at most (`OneAtATime`), so that data always
finds an empty buffer; a client sends no number it does not know (`Own`); and a
client that owns a clipboard knows its number, or will before another clipboard
reaches it, or has connected again and will be sent the clipboard when it is
entered (`Owner`, `Old`). Where another clipboard is on its way to the client, or
will be sent to one that has connected again (`Void`), the invariant says nothing
of the server's data: what the client sent will be replaced. An upload that a lost
client left to its deleted proxy is no longer followed: a client that has connected
again has sent nothing yet. It holds as long as no uploads were mixed and the
assertion has not failed, the exceptions that `OwnerIsHeard` names. What the server
does about other screens and clipboards is one relation, `Gentle`, which preserves
`Followed` (`GentleKeeps`) and composes; what a client does about another clipboard is `SaysSame`.

`Followed` says nothing of a client that has *not* sent its copy. `AllSentOn` does: a
client that owns a clipboard, is not active and has no copy of it in its loop has
sent it, unless it is over the limit (`NothingIsHeldBack`). With both, `OwnersAreHeard`
covers every client that is left, and an active one that has sent.

**Only model-checked.** Liveness (`SenderNeverStalls`, `EndingEnds`,
`OwnerIsReleased`, `CancelEnds`, `SessionsEnd`), which this prover does not do under
fairness. The violations of section 4 are counterexamples and need no proof;
`WorkerPool` has nothing else.

## 6. Not modelled

The parts marked `not_modelled` in `PROJECT.json`, with their reasons; in short:
codecs, path rules and manifest building are functions of strings and bytes; UI,
history and settings do not act on a running transfer; of the Deskflow core the
platform screens, key translation, geometry, sockets and the handshake of a
client are input and output or arithmetic on coordinates. Most of the repository
by lines is of these kinds: widgets, translations, platform screens, key tables,
the configuration parser, and tests.

Of the modelled parts, what is left out: the conflict policies other than
AutoRename in FileReceive, several sessions at once (except in WorkerPool;
`OfferAgain` stands for what another session of the same peer causes), speed and
time estimates, texts of errors; in Pairing the counter of attempts (the first
wrong code already ends the session) and a peer that changes its identity; in
ScreenSwitch relative motion, the keyboard, and the names of screens that are
aliases; in ClipboardShare the formats of the data, time stamps of the platform
clipboards, and clients older than protocol 1.6, which get no clipboards.

**Behaviours met while modelling for which no property is stated.** They are in
the models unless the line says otherwise.

- A REJECT that arrives while a local cancel waits for its removal makes a
  transfer Rejected first and Cancelled afterwards
  (`app/FileTransferRuntime.cpp:2047`).
- The timer of the next manifest page does not ask whether the session was
  interrupted meanwhile, and fails it (`:2053`); a pause command that does not
  fit into the write queue fails the transfer (`:1502`).
- A refused RESUME_QUERY is not answered and the sender waits in Resuming
  (`:1805`); a resolved empty file is reported with offset 0 and sent again
  (`transfer/ResumeMessageCodec.cpp:319`). Both need the two ends composed.
- A cancel of the peer turns a completed session that still has its pipeline to
  Cancelled (`app/IncomingTransferRuntime.cpp:1709`); the preflight of an accept
  may end after the peer was lost (`:2075`); a cancel that answers a prompt and
  cannot be sent leaves an active session without a running worker (`:485`); a
  frame that does not fit into the receive queue is dropped (`:317`).
- `connectPeerAt` reports a synchronous failure twice, the second time to an empty
  function (`app/AutoReconnectRuntime.cpp:112`); frames read from a connection
  between its `disconnectPeer` and its deletion, and `stop()`, are not modelled;
  `networkAvailable` does nothing while `m_connected` is still set
  after a loss (`reconnect/AutoReconnectCoordinator.cpp:62`).
- The expiry of a pairing request is an absolute time of the initiator's clock
  (`pairing/PairingManager.cpp:345`).
- A client adopted while the screen saver runs without a remembered screen is not
  told of it (`Server.cpp:254`, not modelled). Clipboard data that was sent before
  the user of a client copied clears `m_ownClipboard` there, and the copy is never
  sent (`client/Client.cpp:216`).

## 7. Plan

1. **Composition** of OutgoingTransfer and the receiving side over a channel that
   may be cut: both ends agree on the outcome; resume offsets as `buildResponse`
   and `validateResponse` make them; a refused resume query; a cancel crossing a
   completion; a dropped frame. An abstract specification of a transfer (a set of
   files delivered at most once each, one outcome per side) and a refinement by
   the composition.
2. **TransferOfferStateMachine**, two-sided, with duplicates; **discovery**: the
   registry with sequence numbers and expiry.
3. **Proofs** for the refinement of step 1.
4. **Skip and Overwrite** in FileReceive; the stores' validation; geometry of
   `mapToNeighbor` as functions on a grid.
