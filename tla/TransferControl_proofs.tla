----------------------- MODULE TransferControl_proofs -----------------------
(***************************************************************************)
(* Proofs about TransferControl for all totals: every call keeps the        *)
(* snapshot well formed, Completed means full progress, terminal snapshots  *)
(* are frozen and progress is monotone.                                     *)
(***************************************************************************)
EXTENDS TransferControl, TLAPS

\* What one call can do to a snapshot: set a state from a set that depends on
\* the present state, or replace the progress by a larger one.
LEMMA StepShape ==
    ASSUME TypeOK, Next
    PROVE  \/ control' = control
           \/ /\ ~IsTerminal(control.state)
              /\ \E next \in TransferState :
                   /\ control' = SetState(control, next)
                   /\ next = "Completed" => FullProgress(control)
           \/ /\ ~IsTerminal(control.state)
              /\ \E bytes \in 0..TotalBytes, files \in 0..TotalFiles :
                   /\ control.bytes <= bytes /\ control.files <= files
                   /\ control' = [control EXCEPT !.bytes = bytes,
                                                 !.files = files]
<1> USE TotalsAssumption DEF TypeOK, Snapshot
<1>0. control = SetState(control, control.state)
  BY DEF SetState
<1>1. ASSUME NEW next \in TransferState, AdvanceTo(next)
      PROVE  \/ control' = control
             \/ /\ ~IsTerminal(control.state)
                /\ \E n \in TransferState :
                     /\ control' = SetState(control, n)
                     /\ n = "Completed" => FullProgress(control)
  BY <1>0, <1>1 DEF AdvanceTo, Advance, AdvanceOk
<1>2. ASSUME PauseIt \/ ResumeIt \/ InterruptIt \/ CancelIt \/ ConfirmIt
               \/ FailIt
      PROVE  \/ control' = control
             \/ /\ ~IsTerminal(control.state)
                /\ \E n \in TransferState :
                     /\ control' = SetState(control, n)
                     /\ n = "Completed" => FullProgress(control)
  <2>1. CASE PauseIt
    BY <2>1 DEF PauseIt, Pause, PauseOk, IsTerminal, Terminal, TransferState
  <2>2. CASE ResumeIt
    BY <2>2 DEF ResumeIt, Resume, ResumeOk, IsTerminal, Terminal, TransferState
  <2>3. CASE InterruptIt
    BY <2>3 DEF InterruptIt, Interrupt, InterruptOk, IsTerminal, Terminal,
                TransferState
  <2>4. CASE CancelIt
    BY <2>4 DEF CancelIt, Cancel, TransferState
  <2>5. CASE ConfirmIt
    <3>1. CASE control.state = "Cancelled"
      BY <1>0, <2>5, <3>1 DEF ConfirmIt, ConfirmCancelled
    <3>2. CASE control.state # "Cancelled"
      BY <2>5, <3>2 DEF ConfirmIt, ConfirmCancelled, ConfirmCancelledOk,
                        IsTerminal, Terminal, TransferState
    <3> QED BY <3>1, <3>2
  <2>6. CASE FailIt
    BY <2>6 DEF FailIt, Fail, TransferState, Terminal
  <2> QED BY <1>2, <2>1, <2>2, <2>3, <2>4, <2>5, <2>6
<1>3. ASSUME NEW b \in 0..TotalBytes + 1, NEW g \in 0..TotalFiles + 1,
             ProgressTo(b, g)
      PROVE  \/ control' = control
             \/ /\ ~IsTerminal(control.state)
                /\ \E bytes \in 0..TotalBytes, files \in 0..TotalFiles :
                     /\ control.bytes <= bytes /\ control.files <= files
                     /\ control' = [control EXCEPT !.bytes = bytes,
                                                   !.files = files]
  <2>1. CASE UpdateProgressOk(control, b, g)
    <3>1. b \in 0..TotalBytes /\ g \in 0..TotalFiles
      BY <2>1 DEF UpdateProgressOk
    <3>2. control' = [control EXCEPT !.bytes = b, !.files = g]
      BY <1>3, <2>1 DEF ProgressTo, UpdateProgress
    <3> QED BY <2>1, <3>1, <3>2 DEF UpdateProgressOk
  <2>2. CASE ~UpdateProgressOk(control, b, g)
    BY <1>3, <2>2 DEF ProgressTo, UpdateProgress
  <2> QED BY <2>1, <2>2
<1> QED BY <1>1, <1>2, <1>3 DEF Next

\* Types and bounds: no sequence of calls pushes progress beyond the totals.
THEOREM ControlTyped == Spec => []TypeOK
<1> USE TotalsAssumption
<1>1. Init => TypeOK
  BY DEF Init, TypeOK, Snapshot, TransferState
<1>2. TypeOK /\ [Next]_control => TypeOK'
  <2> SUFFICES ASSUME TypeOK, Next PROVE TypeOK'
    BY DEF TypeOK
  <2>1. CASE control' = control
    BY <2>1 DEF TypeOK
  <2>2. ASSUME NEW next \in TransferState, control' = SetState(control, next)
        PROVE  TypeOK'
    BY <2>2 DEF TypeOK, Snapshot, SetState
  <2>3. ASSUME NEW bytes \in 0..TotalBytes, NEW files \in 0..TotalFiles,
               control' = [control EXCEPT !.bytes = bytes, !.files = files]
        PROVE  TypeOK'
    <3>1. control' = [state |-> control.state, bytes |-> bytes,
                      files |-> files]
      BY <2>3 DEF TypeOK, Snapshot
    <3> QED BY <3>1 DEF TypeOK, Snapshot
  <2> QED BY StepShape, <2>1, <2>2, <2>3
<1> QED BY <1>1, <1>2, PTL DEF Spec

\* Completed implies that every byte and file was counted (advance,
\* updateProgress); the invariant is inductive because a terminal snapshot
\* is never written again.
THEOREM CompletionIsFull == Spec => []CompletedIsFull
<1> USE TotalsAssumption
<1>1. Init => CompletedIsFull
  BY DEF Init, CompletedIsFull
<1>2. TypeOK /\ CompletedIsFull /\ [Next]_control => CompletedIsFull'
  <2> SUFFICES ASSUME TypeOK, CompletedIsFull, Next PROVE CompletedIsFull'
    BY DEF CompletedIsFull, FullProgress
  <2> QED BY StepShape
          DEF TypeOK, Snapshot, CompletedIsFull, FullProgress, SetState,
              IsTerminal, Terminal
<1> QED BY <1>1, <1>2, ControlTyped, PTL DEF Spec

\* Terminal snapshots never change (isTerminal guards of every method).
THEOREM TerminalIsAbsorbing == Spec => TerminalIsFinal
<1>1. TypeOK /\ [Next]_control =>
        [IsTerminal(control.state) => control' = control]_control
  BY StepShape
<1> QED BY <1>1, ControlTyped, PTL DEF Spec, TerminalIsFinal

\* Progress is monotone through interruptions and resumptions.
THEOREM ProgressIsMonotone == Spec => ProgressNeverRegresses
<1>1. TypeOK /\ [Next]_control =>
        [/\ control.bytes <= control'.bytes
         /\ control.files <= control'.files]_control
  <2> SUFFICES ASSUME TypeOK, Next
               PROVE  control' = control \/ (/\ control.bytes <= control'.bytes
                                            /\ control.files <= control'.files)
    OBVIOUS
  <2>1. ASSUME NEW next \in TransferState, control' = SetState(control, next)
        PROVE  control.bytes <= control'.bytes /\ control.files <= control'.files
    <3>1. control' = [state |-> next, bytes |-> control.bytes,
                      files |-> control.files]
      BY <2>1 DEF TypeOK, Snapshot, SetState
    <3> QED BY <3>1 DEF TypeOK, Snapshot
  <2>2. ASSUME NEW bytes \in 0..TotalBytes, NEW files \in 0..TotalFiles,
               control.bytes <= bytes, control.files <= files,
               control' = [control EXCEPT !.bytes = bytes, !.files = files]
        PROVE  control.bytes <= control'.bytes /\ control.files <= control'.files
    <3>1. control' = [state |-> control.state, bytes |-> bytes,
                      files |-> files]
      BY <2>2 DEF TypeOK, Snapshot
    <3> QED BY <2>2, <3>1
  <2> QED BY StepShape, <2>1, <2>2
<1> QED BY <1>1, ControlTyped, PTL DEF Spec, ProgressNeverRegresses
=============================================================================
