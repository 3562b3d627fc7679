--------------------------- MODULE TransferControl ---------------------------
(***************************************************************************)
(* TransferControlStateMachine (transfer/TransferControlStateMachine.cpp):  *)
(* the life cycle of one transfer and the progress it has published.  The   *)
(* machine is a passive object: each public method is an operator on the    *)
(* snapshot (XOk: the call succeeds; X: the snapshot after the call, which  *)
(* a refused call leaves alone) and an action that calls it with any        *)
(* argument at any time.  OutgoingTransfer drives the same operators.       *)
(***************************************************************************)
EXTENDS Naturals

CONSTANTS
    TotalBytes,   \* progress.totalBytes, fixed by the manifest
    TotalFiles    \* progress.totalFiles

ASSUME TotalsAssumption == TotalBytes \in Nat /\ TotalFiles \in Nat

VARIABLE control  \* m_snapshot: state, completedBytes, completedFiles

Terminal == {"Completed", "Rejected", "Cancelled", "Failed"}
TransferState ==
    {"Preparing", "Offered", "WaitingForAcceptance", "Queued", "Transferring",
     "Paused", "Interrupted", "Resuming", "Verifying", "Committing",
     "Cancelling"} \cup Terminal

Snapshot == [state : TransferState, bytes : Nat, files : Nat]

\* isTerminal
IsTerminal(state) == state \in Terminal

\* canAdvance: the forward edges of the life cycle
Edges ==
    {<<"Preparing", "Offered">>,
     <<"Offered", "WaitingForAcceptance">>, <<"Offered", "Rejected">>,
     <<"WaitingForAcceptance", "Queued">>,
     <<"WaitingForAcceptance", "Rejected">>,
     <<"Queued", "Transferring">>,
     <<"Transferring", "Paused">>, <<"Transferring", "Interrupted">>,
     <<"Transferring", "Verifying">>,
     <<"Paused", "Resuming">>, <<"Paused", "Interrupted">>,
     <<"Interrupted", "Resuming">>,
     <<"Resuming", "Transferring">>, <<"Resuming", "Interrupted">>,
     <<"Verifying", "Committing">>, <<"Committing", "Completed">>}

CanAdvance(state, next) == <<state, next>> \in Edges

SetState(c, next) == [c EXCEPT !.state = next]

FullProgress(c) == c.bytes = TotalBytes /\ c.files = TotalFiles

-----------------------------------------------------------------------------
AdvanceOkAnyProgress(c, next) ==    \* mutant: completion is not checked
    \/ next = c.state
    \/ ~IsTerminal(c.state) /\ CanAdvance(c.state, next)

AdvanceOk(c, next) ==
    \/ next = c.state
    \/ /\ ~IsTerminal(c.state)
       /\ CanAdvance(c.state, next)
       /\ next = "Completed" => FullProgress(c)

Advance(c, next) == IF AdvanceOk(c, next) THEN SetState(c, next) ELSE c

PauseOk(c) == c.state \in {"Transferring", "Paused"}
Pause(c) == IF PauseOk(c) THEN SetState(c, "Paused") ELSE c

ResumeOk(c) == c.state \in {"Paused", "Interrupted", "Resuming"}
Resume(c) == IF ResumeOk(c) THEN SetState(c, "Resuming") ELSE c

InterruptOk(c) ==
    c.state \in {"Transferring", "Paused", "Resuming", "Interrupted"}
Interrupt(c) == IF InterruptOk(c) THEN SetState(c, "Interrupted") ELSE c

\* mutant: only the cancelled state itself refuses a cancel
CancelTerminal(c) ==
    IF c.state # "Cancelled" THEN SetState(c, "Cancelling") ELSE c

CancelOk(c) == ~IsTerminal(c.state) \/ c.state = "Cancelled"
Cancel(c) ==
    IF ~IsTerminal(c.state) THEN SetState(c, "Cancelling") ELSE c

ConfirmCancelledOk(c) == c.state \in {"Cancelling", "Cancelled"}
ConfirmCancelled(c) ==
    IF ConfirmCancelledOk(c) THEN SetState(c, "Cancelled") ELSE c

\* The error code of a failed transfer is not modelled: failing again is
\* refused or changes nothing.
Fail(c) == IF IsTerminal(c.state) THEN c ELSE SetState(c, "Failed")

UpdateProgressOkUnbounded(c, bytes, files) ==    \* mutant
    /\ ~IsTerminal(c.state) /\ c.state # "Cancelling"
    /\ c.bytes <= bytes /\ c.files <= files

UpdateProgressOk(c, bytes, files) ==
    /\ ~IsTerminal(c.state) /\ c.state # "Cancelling"
    /\ bytes <= TotalBytes /\ files <= TotalFiles
    /\ c.bytes <= bytes /\ c.files <= files

UpdateProgress(c, bytes, files) ==
    IF UpdateProgressOk(c, bytes, files)
    THEN [c EXCEPT !.bytes = bytes, !.files = files] ELSE c

-----------------------------------------------------------------------------
\* initialize accepts only a snapshot in Preparing with sane progress.
Init ==
    /\ control \in [state : {"Preparing"}, bytes : 0..TotalBytes,
                    files : 0..TotalFiles]

AdvanceTo(next) == control' = Advance(control, next)
PauseIt == control' = Pause(control)
ResumeIt == control' = Resume(control)
InterruptIt == control' = Interrupt(control)
CancelIt == control' = Cancel(control)
ConfirmIt == control' = ConfirmCancelled(control)
FailIt == control' = Fail(control)

\* The arguments may exceed the totals; such a call is refused.
ProgressTo(bytes, files) == control' = UpdateProgress(control, bytes, files)

Next ==
    \/ \E next \in TransferState : AdvanceTo(next)
    \/ PauseIt \/ ResumeIt \/ InterruptIt \/ CancelIt \/ ConfirmIt \/ FailIt
    \/ \E bytes \in 0..TotalBytes + 1, files \in 0..TotalFiles + 1 :
         ProgressTo(bytes, files)

Spec == Init /\ [][Next]_control

-----------------------------------------------------------------------------
\* The snapshot keeps its type, and its progress stays within the totals.
TypeOK ==
    /\ control \in Snapshot
    /\ control.bytes <= TotalBytes
    /\ control.files <= TotalFiles

\* A transfer that is shown as Completed has moved every byte and every file
\* (advance refuses CompletionIncomplete, and nothing changes afterwards).
CompletedIsFull == control.state = "Completed" => FullProgress(control)

\* A terminal snapshot never changes again, whatever is called in whatever
\* order (18_SHARED_CONTRACTS: a terminal state does not go back).
TerminalIsFinal ==
    [][IsTerminal(control.state) => control' = control]_control

\* Published progress never moves backward, interruptions and resumptions
\* included (updateProgress refuses ProgressRegression).
ProgressNeverRegresses ==
    [][control.bytes <= control'.bytes /\ control.files <= control'.files]_control
=============================================================================
