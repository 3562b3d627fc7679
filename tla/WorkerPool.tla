----------------------------- MODULE WorkerPool -----------------------------
(***************************************************************************)
(* The worker pool of FileTransferRuntime: QThreadPool with                 *)
(* setMaxThreadCount(2), shared by both directions.  Most tasks are short   *)
(* (the preflight of an accept, the save and the removal of a record, one   *)
(* pull of a sender), but a ReceivePipeline is a task, too: it keeps its    *)
(* thread from the first free moment after the accept until its transfer    *)
(* has ended, also while it only waits for frames.                          *)
(*                                                                          *)
(* Transfers between hosts, undisturbed: no pause, cancel or loss.          *)
(***************************************************************************)
EXTENDS Naturals, Sequences, FiniteSets

CONSTANTS
    Hosts,
    Transfers,
    From, To,    \* the sender and the receiver of a transfer
    Threads,     \* maxThreadCount
    Frames       \* pulls of the sender of one transfer

VARIABLES
    queue,     \* queue[h]: tasks that wait for a thread, first in first out
    running,   \* running[h]: tasks that have one
    x          \* x[t]: the two ends of transfer t

vars == <<queue, running, x>>

Init ==
    /\ queue = [h \in Hosts |-> <<>>]
    /\ running = [h \in Hosts |-> {}]
    /\ x = [t \in Transfers |->
              [src |-> "offered", dst |-> "offered", sent |-> 0, got |-> 0]]

\* Tasks: preflight, pipeline, save, pump and remove, of a transfer.
T(kind, t) == [kind |-> kind, of |-> t]

\* QtConcurrent::run on the pool
Submit(h, task) == queue' = [queue EXCEPT ![h] = Append(@, task)]
Leave(h, task) == running' = [running EXCEPT ![h] = @ \ {task}]

StartTask(h) ==
    /\ queue[h] # <<>>
    /\ Cardinality(running[h]) < Threads
    /\ running' = [running EXCEPT ![h] = @ \cup {Head(queue[h])}]
    /\ queue' = [queue EXCEPT ![h] = Tail(@)]
    /\ UNCHANGED x

-----------------------------------------------------------------------------
(* The receiver of t.                                                       *)
Accept(t) ==
    /\ x[t].dst = "offered"
    /\ x' = [x EXCEPT ![t].dst = "preflight"]
    /\ Submit(To[t], T("preflight", t))
    /\ UNCHANGED running

FinishAcceptPreflight(t) ==
    /\ T("preflight", t) \in running[To[t]]
    /\ Leave(To[t], T("preflight", t))
    /\ Submit(To[t], T("pipeline", t))
    /\ x' = [x EXCEPT ![t].dst = "receiving"]

\* run: a frame is processed; the last one ends the loop.
ReceiveFrame(t) ==
    /\ T("pipeline", t) \in running[To[t]]
    /\ x[t].got < x[t].sent
    /\ x' = [x EXCEPT ![t].got = @ + 1,
                      ![t].dst = IF x[t].got + 1 = Frames THEN "done" ELSE @]
    /\ IF x[t].got + 1 = Frames THEN Leave(To[t], T("pipeline", t))
       ELSE UNCHANGED running
    /\ UNCHANGED queue

-----------------------------------------------------------------------------
(* The sender of t.                                                         *)
HandleAccept(t) ==
    /\ x[t].dst # "offered" /\ x[t].dst # "preflight" /\ x[t].src = "offered"
    /\ x' = [x EXCEPT ![t].src = "saving"]
    /\ Submit(From[t], T("save", t))
    /\ UNCHANGED running

\* The record is saved; the manifest goes out, then the first pull.
SaveFinished(t) ==
    /\ T("save", t) \in running[From[t]]
    /\ Leave(From[t], T("save", t))
    /\ Submit(From[t], T("pump", t))
    /\ x' = [x EXCEPT ![t].src = "streaming"]

DispatchSenderPumpResult(t) ==
    /\ T("pump", t) \in running[From[t]]
    /\ Leave(From[t], T("pump", t))
    /\ x' = [x EXCEPT ![t].sent = @ + 1,
                      ![t].src = IF x[t].sent + 1 = Frames THEN "awaiting" ELSE @]
    /\ IF x[t].sent + 1 = Frames THEN UNCHANGED queue
       ELSE Submit(From[t], T("pump", t))

HandleFileResult(t) ==
    /\ x[t].dst = "done" /\ x[t].src = "awaiting"
    /\ x' = [x EXCEPT ![t].src = "removing"]
    /\ Submit(From[t], T("remove", t))
    /\ UNCHANGED running

RemovalFinished(t) ==
    /\ T("remove", t) \in running[From[t]]
    /\ Leave(From[t], T("remove", t))
    /\ x' = [x EXCEPT ![t].src = "Completed"]
    /\ UNCHANGED queue

-----------------------------------------------------------------------------
Work ==
    \/ \E h \in Hosts : StartTask(h)
    \/ \E t \in Transfers :
         \/ FinishAcceptPreflight(t) \/ ReceiveFrame(t)
         \/ HandleAccept(t) \/ SaveFinished(t) \/ DispatchSenderPumpResult(t)
         \/ HandleFileResult(t) \/ RemovalFinished(t)

Next == Work \/ \E t \in Transfers : Accept(t)

\* Threads run, frames arrive; the users need not accept anything.
Spec == Init /\ [][Next]_vars /\ WF_vars(Work)

\* A transfer that was accepted is completed, although the pool is shared
\* with the pipelines of the other transfers (01_PRD: a task can be resumed
\* or fails explicitly; 11_TEST_AND_ACCEPTANCE: transfers in both directions).
AcceptedIsCompleted ==
    \A t \in Transfers : x[t].dst = "preflight" ~> x[t].src = "Completed"
=============================================================================
