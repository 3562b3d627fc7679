----------------------- MODULE OutgoingTransfer_proofs -----------------------
(***************************************************************************)
(* The safety invariants of OutgoingTransfer, for every manifest, number of *)
(* pages and number of losses.                                              *)
(*                                                                          *)
(* An event runs a chain of nested calls, so the proof follows the calls:   *)
(* Good is a predicate on a session (with the connection, the acknowledged  *)
(* files and the record on disk), each operator from session to session is  *)
(* shown to preserve it, and each action is a composition of them.          *)
(***************************************************************************)
EXTENDS OutgoingTransfer, WellFoundedInduction, TLAPS

Fields ==
    {"control", "snap", "offer", "manifest", "page", "timer", "poll", "entry",
     "bytes", "files", "off", "stage", "pos", "frame", "task", "awaiting",
     "paused", "interrupted", "cancelled", "query", "ending", "saving",
     "again", "firstSave", "wantRemove", "removing", "then", "hydrated"}

\* The counters stay untyped: no property depends on their values.
Shape(x) ==
    /\ DOMAIN x = Fields
    /\ DOMAIN x.control = {"state", "bytes", "files"}
    /\ x.entry \in 1..N + 1
    /\ x.then \in {"none", "complete", "cancel", "remoteCancel", "fail"}
    /\ x.frame \in {"none", "begin", "chunk", "end"}

\* Every file before the current one is acknowledged; the end of a complete
\* transfer is only scheduled when all are.
Counted(x, done) ==
    /\ \A f \in Files : f < x.entry => f \in done
    /\ x.then = "complete" => done = Files

\* Nothing is going on in a completed session.
Ended(x, done, kept) ==
    x.snap = "Completed" \/ x.control.state = "Completed" =>
      /\ x.snap = x.control.state
      /\ done = Files /\ ~kept /\ ~x.saving
      /\ ~x.query /\ ~x.interrupted
      /\ x.then \in {"none", "fail"}

\* A removal has a completion handler, which knows how the session ends.
Removal(x) ==
    /\ x.removing => ~x.saving
    /\ x.removing \/ (x.wantRemove /\ x.saving) => x.then # "none"
    /\ x.then # "none" <=> x.ending
    /\ x.then \in {"cancel", "remoteCancel", "fail"} => x.cancelled
    /\ x.then = "complete" => ~x.cancelled

Idle(x) == ~x.timer /\ x.stage = "none" /\ ~x.interrupted

\* States before the peer has accepted.
Early == {"None", "Preparing", "Offered", "WaitingForAcceptance"}

\* Where a session that was not cancelled is: at most one of the page timer,
\* the sender, the interruption and the first save is under way.
Places(x, c) ==
    ~x.cancelled =>
      /\ x.awaiting => x.stage # "none"
      /\ x.timer \/ x.query \/ x.interrupted => x.stage = "none"
      /\ x.query => x.interrupted /\ ~x.timer
      /\ x.timer /\ x.interrupted => ~c
      /\ x.then = "complete" => /\ Idle(x)
                                /\ x.control.state = "Committing"
                                /\ x.snap = "Committing"
      /\ x.firstSave => Idle(x) /\ x.control.state = "Queued"
      /\ x.control.state \in Early => Idle(x)
      /\ x.offer = "awaiting" => x.control.state # "Queued"

Unprepared(x) == ~x.manifest /\ ~x.cancelled => x.control.state = "None"

Running == {"Transferring", "Paused", "Interrupted", "Resuming"}

Going(x) ==
    \/ x.snap \in Running \/ x.control.state \in Running
    \/ x.timer \/ x.stage # "none" \/ x.query \/ x.interrupted

\* The record is on disk before anything is under way.
Kept(x, kept) == ~x.cancelled /\ Going(x) => kept

Good(x, c, done, kept) ==
    /\ Shape(x) /\ Counted(x, done) /\ Ended(x, done, kept) /\ Removal(x)
    /\ Places(x, c) /\ Unprepared(x) /\ Kept(x, kept)

\* The session is between two files, or before the first.
Ready(x, kept) ==
    ~x.cancelled =>
      /\ Idle(x) /\ ~x.firstSave /\ kept /\ x.then # "complete"
      /\ x.control.state \notin Early

IInv == acked \subseteq Files /\ Good(s, conn, acked, store)

-----------------------------------------------------------------------------
(* The control state machine, one fact per method.                          *)
Machine(c) == DOMAIN c = {"state", "bytes", "files"}

LEMMA AdvanceEffect ==
    ASSUME NEW c, NEW next, Machine(c)
    PROVE  /\ Machine(Ctl!Advance(c, next))
           /\ Ctl!Advance(c, next).state \in {c.state, next}
           /\ Ctl!Advance(c, next).state # c.state =>
                <<c.state, next>> \in Ctl!Edges
  BY DEF Machine, Ctl!Advance, Ctl!AdvanceOk, Ctl!SetState, Ctl!CanAdvance

LEMMA AdvanceOkEffect ==
    ASSUME NEW c, NEW next, Machine(c)
    PROVE  Ctl!AdvanceOk(c, next) =>
             /\ Machine(Ctl!Advance(c, next))
             /\ Ctl!Advance(c, next).state = next
             /\ next = c.state \/ <<c.state, next>> \in Ctl!Edges
  BY DEF Machine, Ctl!Advance, Ctl!AdvanceOk, Ctl!SetState, Ctl!CanAdvance

LEMMA ProgressEffect ==
    ASSUME NEW c, NEW b, NEW f, Machine(c)
    PROVE  /\ Machine(Ctl!UpdateProgress(c, b, f))
           /\ Ctl!UpdateProgress(c, b, f).state = c.state
  BY DEF Machine, Ctl!UpdateProgress


-----------------------------------------------------------------------------
(* The recovery record.                                                     *)
LEMMA FailOutgoingGood ==
    ASSUME NEW x, NEW c, NEW done, NEW kept, Good(x, c, done, kept)
    PROVE  Good(FailOutgoing(x), c, done, kept)
  BY DEF Good, Shape, Fields, Counted, Ended, Removal, Places, Unprepared,
         Kept, Going, FailOutgoing, RemoveOutgoingRecovery, StartRemoval

\* A save starts only in a session that has not completed.
LEMMA StartSaveGood ==
    ASSUME NEW x, NEW c, NEW done, NEW kept, Good(x, c, done, kept),
           ~x.removing, ~x.wantRemove,
           x.snap # "Completed", x.control.state # "Completed"
    PROVE  Good(StartSave(x), c, done, kept)
<1> DEFINE y == [x EXCEPT !.again = FALSE]
           z == [y EXCEPT !.saving = TRUE]
<1>1. Good(y, c, done, kept) /\ Good(z, c, done, kept)
  BY DEF Good, Shape, Fields, Counted, Ended, Removal, Places, Idle, Early,
         Unprepared, Kept, Going
<1>2. StartSave(x) = IF trusted THEN z ELSE FailOutgoing(y)
  BY DEF StartSave, Good, Shape, Fields
<1> HIDE DEF y, z
<1> QED
  BY <1>1, <1>2, FailOutgoingGood

\* Nothing is under way because of a save.
LEMMA PersistOutgoingReady ==
    ASSUME NEW x, NEW kept, Shape(x), Ready(x, kept)
    PROVE  Ready(PersistOutgoing(x), kept)
  BY DEF PersistOutgoing, StartSave, FailOutgoing, RemoveOutgoingRecovery,
         StartRemoval, Ready, Idle, Shape, Fields

LEMMA PersistOutgoingGood ==
    ASSUME NEW x, NEW c, NEW done, NEW kept, Good(x, c, done, kept),
           x.snap # "Completed", x.control.state # "Completed"
    PROVE  Good(PersistOutgoing(x), c, done, kept)
<1>1. CASE x.wantRemove \/ x.removing
  BY <1>1 DEF PersistOutgoing
<1>2. CASE ~(x.wantRemove \/ x.removing) /\ x.saving
  BY <1>2 DEF PersistOutgoing, Good, Shape, Fields, Counted, Ended, Removal,
              Places, Idle, Early, Unprepared, Kept, Going
<1>3. CASE ~(x.wantRemove \/ x.removing) /\ ~x.saving
  BY <1>3, StartSaveGood DEF PersistOutgoing
<1> QED
  BY <1>1, <1>2, <1>3

-----------------------------------------------------------------------------
(* The sender.                                                              *)
LEMMA UpdateOutgoingProgressGood ==
    ASSUME NEW x, NEW c, NEW done, NEW kept, Good(x, c, done, kept)
    PROVE  LET y == UpdateOutgoingProgress(x)
           IN /\ Good(y, c, done, kept)
              /\ Ready(x, kept) => Ready(y, kept)
              /\ y.control.state = x.control.state /\ y.snap = y.control.state
<1> DEFINE k == Ctl!UpdateProgress(x.control, x.bytes, x.files)
           y == UpdateOutgoingProgress(x)
<1>1. Machine(k) /\ k.state = x.control.state
  BY ProgressEffect DEF Good, Shape, Machine
<1>2. y = [x EXCEPT !.control = k, !.snap = k.state]
  BY DEF UpdateOutgoingProgress, Show, Good, Shape, Fields
<1> HIDE DEF k, y
<1>3. Good(y, c, done, kept)
  BY <1>1, <1>2 DEF Good, Shape, Fields, Counted, Ended, Removal, Places, Idle,
     Early, Unprepared, Kept, Going, Machine
<1>4. (Ready(x, kept) => Ready(y, kept))
      /\ y.control.state = x.control.state /\ y.snap = y.control.state
  BY <1>1, <1>2 DEF Ready, Idle, Good, Shape, Fields
<1> QED
  BY <1>3, <1>4 DEF y

LEMMA StartTaskGood ==
    ASSUME NEW x, NEW c, NEW done, NEW kept, NEW room,
           Good(x, c, done, kept)
    PROVE  Good(StartTask(x, room), c, done, kept)
  BY DEF StartTask, Good, Shape, Fields, Counted, Ended, Removal, Places, Idle,
     Early, Unprepared, Kept, Going

\* awaitingFileResult is set only while there is a sender.
LEMMA SubmitPendingGood ==
    ASSUME NEW x, NEW c, NEW done, NEW kept, NEW sink, NEW room,
           Good(x, c, done, kept), x.stage # "none",
           x.frame # "none"
    PROVE  Good(SubmitPending(x, sink, room), c, done, kept)
<1> DEFINE y == [x EXCEPT !.frame = "none"]
           z == [y EXCEPT !.bytes = @ + 1]
           e == [y EXCEPT !.awaiting = TRUE]
<1>1. Good(y, c, done, kept) /\ Good(z, c, done, kept) /\ Good(e, c, done, kept)
  BY DEF Good, Shape, Fields, Counted, Ended, Removal, Places, Idle, Early,
         Unprepared, Kept, Going
<1>2. SubmitPending(x, sink, room) \in
        {x, FailOutgoing(x), StartTask(y, room),
         StartTask(UpdateOutgoingProgress(z), room), e}
  BY DEF SubmitPending, Good, Shape
<1> HIDE DEF y, z, e
<1> QED
  BY <1>1, <1>2, FailOutgoingGood, StartTaskGood, UpdateOutgoingProgressGood

LEMMA ScheduleSenderPumpGood ==
    ASSUME NEW x, NEW c, NEW done, NEW kept, NEW k, NEW sink, NEW room,
           Good(x, c, done, kept)
    PROVE  Good(ScheduleSenderPump(x, k, sink, room), c, done, kept)
<1>1. CASE ~MayPump(x) \/ ~k
  BY <1>1, FailOutgoingGood DEF ScheduleSenderPump
<1>2. CASE MayPump(x) /\ k /\ x.frame = "none"
  BY <1>2, StartTaskGood DEF ScheduleSenderPump
<1>3. CASE MayPump(x) /\ k /\ x.frame # "none"
  BY <1>3, SubmitPendingGood DEF ScheduleSenderPump, MayPump
<1> QED
  BY <1>1, <1>2, <1>3

\* A sender at work takes another frame, place and stage.
Framed(x, frame, pos, stage) ==
    [x EXCEPT !.frame = frame, !.pos = pos, !.stage = stage]

LEMMA FrameGood ==
    ASSUME NEW x, NEW c, NEW done, NEW kept, NEW frame, NEW pos, NEW stage,
           Good(x, c, done, kept), x.stage # "none", stage # "none",
           frame \in {"none", "begin", "chunk", "end"}
    PROVE  Good(Framed(x, frame, pos, stage), c, done, kept)
<1> DEFINE y == Framed(x, frame, pos, stage)
<1>1. /\ DOMAIN y = Fields /\ y.frame = frame /\ y.stage = stage
      /\ y.control = x.control /\ y.snap = x.snap /\ y.offer = x.offer
      /\ y.manifest = x.manifest /\ y.timer = x.timer /\ y.entry = x.entry
      /\ y.awaiting = x.awaiting /\ y.interrupted = x.interrupted
      /\ y.cancelled = x.cancelled /\ y.query = x.query /\ y.ending = x.ending
      /\ y.saving = x.saving /\ y.firstSave = x.firstSave
      /\ y.wantRemove = x.wantRemove /\ y.removing = x.removing /\ y.then = x.then
  BY DEF Good, Shape, Fields, Framed
<1> HIDE DEF y
<1>2. Shape(y) /\ Counted(y, done) /\ Ended(y, done, kept) /\ Removal(y)
  BY <1>1 DEF Good, Shape, Counted, Ended, Removal
<1>3. Places(y, c)
  BY <1>1 DEF Good, Places, Idle
<1>4. Unprepared(y) /\ Kept(y, kept)
  BY <1>1 DEF Good, Unprepared, Kept, Going
<1>5. Good(y, c, done, kept)
  BY <1>2, <1>3, <1>4 DEF Good
<1> QED
  BY <1>5 DEF y

LEMMA NextFrameGood ==
    ASSUME NEW x, NEW c, NEW done, NEW kept, Good(x, c, done, kept)
    PROVE  Good(NextFrame(x), c, done, kept)
<1>0. DOMAIN x = Fields
  BY DEF Good, Shape
<1>1. CASE x.stage = "begin"
  <2>1. PICK stage \in {"end", "chunks"} :
          NextFrame(x) = [x EXCEPT !.frame = "begin", !.stage = stage]
    BY <1>1 DEF NextFrame
  <2>2. NextFrame(x) = Framed(x, "begin", x.pos, stage)
    BY <1>0, <2>1 DEF Fields, Framed
  <2>3. stage # "none"
    BY <2>1
  <2> QED
    BY <1>1, <2>2, <2>3, FrameGood
<1>2. CASE x.stage = "chunks"
  <2>1. PICK stage \in {"end", "chunks"} :
          NextFrame(x) = Framed(x, "chunk", x.pos + 1, stage)
    BY <1>2 DEF NextFrame, Framed
  <2>2. stage # "none"
    BY <2>1
  <2> QED
    BY <1>2, <2>1, <2>2, FrameGood
<1>3. CASE x.stage = "end"
  <2>1. NextFrame(x) = [x EXCEPT !.frame = "end", !.stage = "finished"]
    BY <1>3 DEF NextFrame
  <2>2. NextFrame(x) = Framed(x, "end", x.pos, "finished")
    BY <1>0, <2>1 DEF Fields, Framed
  <2> QED
    BY <1>3, <2>2, FrameGood
<1> QED
  BY <1>1, <1>2, <1>3 DEF NextFrame

\* The end of a complete transfer is scheduled when all files are counted.
LEMMA CompleteOutgoingGood ==
    ASSUME NEW x, NEW c, NEW done, NEW kept, Good(x, c, done, kept),
           done \subseteq Files, x.entry > N, ~x.cancelled, Idle(x)
    PROVE  Good(CompleteOutgoing(x), c, done, kept)
<1> DEFINE y == UpdateOutgoingProgress(x)
           v == Ctl!Advance(y.control, "Verifying")
           k == Ctl!Advance(v, "Committing")
           z == [y EXCEPT !.control = k, !.snap = k.state, !.ending = TRUE]
<1>1. Good(y, c, done, kept)
  BY UpdateOutgoingProgressGood
<1>2. y.entry = x.entry /\ ~y.cancelled /\ Idle(y) /\ y.ending = x.ending
  BY DEF UpdateOutgoingProgress, Show, Good, Shape, Fields, Idle
<1> HIDE DEF y
<1>3. CASE x.ending
  BY <1>3 DEF CompleteOutgoing
<1>4. CASE ~x.ending /\ k.state # "Committing"
  <2>1. CompleteOutgoing(x) = FailOutgoing(y)
    BY <1>4 DEF CompleteOutgoing, y
  <2> QED
    BY <2>1, <1>1, FailOutgoingGood
<1>5. CASE ~x.ending /\ k.state = "Committing"
  <2>1. CompleteOutgoing(x) = RemoveOutgoingRecovery(z, "complete")
    BY <1>5, <1>1 DEF CompleteOutgoing, y, Show, Good, Shape, Fields
  <2>2. Machine(y.control)
    BY <1>1 DEF Good, Shape, Machine
  <2>3. Machine(v) /\ v.state \in {y.control.state, "Verifying"}
        /\ (v.state # y.control.state =>
              <<y.control.state, "Verifying">> \in Ctl!Edges)
    BY <2>2, AdvanceEffect
  <2>4. Machine(k) /\ (k.state # v.state =>
                         <<v.state, "Committing">> \in Ctl!Edges)
    BY <2>3, AdvanceEffect
  <2>5. y.control.state \in {"Transferring", "Verifying", "Committing"}
    BY <2>3, <2>4, <1>5 DEF Ctl!Edges
  <2>6. done = Files
    <3>1. x.entry = N + 1
      BY OutgoingAssumption DEF Good, Shape
    <3>2. \A f \in Files : f < N + 1
      BY OutgoingAssumption DEF Files
    <3>3. \A f \in Files : f < x.entry => f \in done
      BY DEF Good, Counted
    <3> QED
      BY <3>1, <3>2, <3>3
  <2> HIDE DEF v, k
  <2> QED
    BY <2>1, <2>4, <2>5, <2>6, <1>1, <1>2, <1>5 DEF z, Machine,
       RemoveOutgoingRecovery, StartRemoval, Good, Shape, Fields, Counted,
       Ended, Removal, Places, Idle, Early, Unprepared, Kept, Going, Running
<1> QED
  BY <1>3, <1>4, <1>5

\* A sender starts when nothing else is under way and the record is there.
LEMMA StartSenderGood ==
    ASSUME NEW x, NEW c, NEW done, NEW kept, Good(x, c, done, kept),
           ~x.cancelled, Ready(x, kept)
    PROVE  Good(StartSender(x), c, done, kept)
<1> DEFINE k == IF x.control.state \in {"Queued", "Resuming"}
                THEN Ctl!Advance(x.control, "Transferring") ELSE x.control
<1>1. /\ Machine(k) /\ k.state \in {x.control.state, "Transferring"}
      /\ x.control.state = "Completed" => k.state = "Completed"
  BY AdvanceEffect DEF Good, Shape, Machine
<1>2. StartSender(x) =
        [x EXCEPT !.stage = "begin", !.pos = x.off[x.entry], !.frame = "none",
                  !.task = IF @ = "none" THEN @ ELSE "stale",
                  !.awaiting = FALSE, !.control = k]
  BY DEF StartSender, Good, Shape, Fields
<1> HIDE DEF k
<1> QED
  BY <1>1, <1>2 DEF Ready, Machine, Good, Shape, Fields, Counted, Ended,
     Removal, Places, Idle, Early, Unprepared, Kept, Going, Running

LEMMA StartNextOutgoingFileGood ==
    ASSUME NEW x, NEW c, NEW done, NEW kept, NEW k, Good(x, c, done, kept),
           done \subseteq Files, Ready(x, kept)
    PROVE  Good(StartNextOutgoingFile(x, k), c, done, kept)
<1>1. CASE x.cancelled
  BY <1>1 DEF StartNextOutgoingFile
<1>2. CASE ~x.cancelled /\ x.entry > N
  <2> DEFINE a == Ctl!Advance(x.control, "Transferring")
             y == IF x.control.state = "Queued"
                  THEN [x EXCEPT !.control = a] ELSE x
  <2>1. Machine(a) /\ a.state \in {x.control.state, "Transferring"}
    BY AdvanceEffect DEF Good, Shape, Machine
  <2>2. StartNextOutgoingFile(x, k) = CompleteOutgoing(y)
    BY <1>2 DEF StartNextOutgoingFile, Good, Shape, Fields
  <2> HIDE DEF a
  <2>3. Good(y, c, done, kept) /\ y.entry > N /\ ~y.cancelled /\ Idle(y)
    BY <2>1, <1>2 DEF Ready, Machine, Good, Shape, Fields, Counted, Ended,
       Removal, Places, Idle, Early, Unprepared, Kept, Going, Running
  <2> QED
    BY <2>2, <2>3, CompleteOutgoingGood
<1>3. CASE ~x.cancelled /\ ~(x.entry > N) /\ ~k
  BY <1>3, FailOutgoingGood DEF StartNextOutgoingFile
<1>4. CASE ~x.cancelled /\ ~(x.entry > N) /\ k
  BY <1>4, StartSenderGood, UpdateOutgoingProgressGood, ScheduleSenderPumpGood
  DEF StartNextOutgoingFile
<1> QED
  BY <1>1, <1>2, <1>3, <1>4

-----------------------------------------------------------------------------
(* Offers and resume queries.                                               *)
LEMMA SendOfferGood ==
    ASSUME NEW x, NEW c, NEW done, NEW kept, NEW sent, Good(x, c, done, kept),
           x.manifest
    PROVE  Good(SendOffer(x, sent), c, done, kept)
<1> DEFINE v == Ctl!Advance(x.control, "Offered")
           k == Ctl!Advance(v, "WaitingForAcceptance")
           y == [x EXCEPT !.offer = "awaiting", !.control = k]
<1>1. Machine(v) /\ v.state \in {x.control.state, "Offered"}
      /\ (v.state # x.control.state =>
            <<x.control.state, "Offered">> \in Ctl!Edges)
  BY AdvanceEffect DEF Good, Shape, Machine
<1>2. Machine(k) /\ k.state \in {v.state, "WaitingForAcceptance"}
      /\ (k.state # v.state =>
            <<v.state, "WaitingForAcceptance">> \in Ctl!Edges)
  BY <1>1, AdvanceEffect
<1>3. CASE ~HasControl(x)
  BY <1>3 DEF SendOffer
<1>4. CASE HasControl(x) /\ ~sent
  BY <1>4, FailOutgoingGood DEF SendOffer
<1>5. CASE HasControl(x) /\ sent /\ k.state = "WaitingForAcceptance"
  <2>1. SendOffer(x, sent) = [y EXCEPT !.snap = k.state]
    BY <1>5, <1>2 DEF SendOffer, Show, Good, Shape, Fields
  <2>2. x.control.state \in {"Preparing", "Offered", "WaitingForAcceptance"}
    BY <1>1, <1>2, <1>5 DEF Ctl!Edges
  <2> HIDE DEF v, k
  <2> QED
    BY <2>1, <2>2, <1>2, <1>5 DEF Machine, Good, Shape, Fields, Counted, Ended,
       Removal, Places, Idle, Early, Unprepared, Kept, Going, Running
<1>6. CASE HasControl(x) /\ sent /\ k.state # "WaitingForAcceptance"
  <2>1. SendOffer(x, sent) = FailOutgoing(y)
    BY <1>6 DEF SendOffer
  <2>2. x.control.state # "Preparing"
    BY <1>1, <1>2, <1>6 DEF Machine, Good, Shape, Ctl!Advance, Ctl!AdvanceOk,
         Ctl!SetState, Ctl!CanAdvance, Ctl!Edges, Ctl!IsTerminal, Ctl!Terminal
  <2>3. k.state = x.control.state
    BY <1>1, <1>2, <1>6, <2>2 DEF Ctl!Edges
  <2> HIDE DEF v, k
  <2>4. CASE x.ending
    <3>1. Good(y, c, done, kept)
      BY <2>3, <2>4, <1>2 DEF Machine, Good, Shape, Fields, Counted, Ended,
         Removal, Places, Idle, Early, Unprepared, Kept, Going, Running
    <3> QED
      BY <2>1, <3>1, FailOutgoingGood
  <2>5. CASE ~x.ending
    BY <2>1, <2>3, <2>5, <1>2
    DEF FailOutgoing, RemoveOutgoingRecovery, StartRemoval, Machine, Good,
        Shape, Fields, Counted, Ended, Removal, Places, Unprepared, Kept,
        Going, Running
  <2> QED
    BY <2>4, <2>5
<1> QED
  BY <1>3, <1>4, <1>5, <1>6

LEMMA SendResumeQueryGood ==
    ASSUME NEW x, NEW c, NEW done, NEW kept, NEW sent, NEW supported,
           Good(x, c, done, kept), c
    PROVE  Good(SendResumeQuery(x, sent, supported), c, done, kept)
<1> DEFINE k == Ctl!Resume(x.control)
           y == [x EXCEPT !.control = k, !.query = TRUE, !.snap = k.state]
<1>1. \/ SendResumeQuery(x, sent, supported) = x
      \/ SendResumeQuery(x, sent, supported) = FailOutgoing(x)
      \/ SendResumeQuery(x, sent, supported) = y
  BY DEF SendResumeQuery, Show, Good, Shape, Fields
<1>2. CASE x.interrupted /\ Ctl!ResumeOk(x.control)
  <2>1. Machine(k) /\ k.state = "Resuming" /\ x.control.state \in Running
    BY <1>2 DEF Machine, Good, Shape, Ctl!Resume, Ctl!ResumeOk, Ctl!SetState,
                Running
  <2> HIDE DEF k
  <2>2. Good(y, c, done, kept)
    BY <2>1, <1>2 DEF Machine, Good, Shape, Fields, Counted, Ended, Removal,
         Places, Idle, Early, Unprepared, Kept, Going, Running
  <2> HIDE DEF y
  <2> QED
    BY <1>1, <2>2, FailOutgoingGood
<1>3. CASE ~(x.interrupted /\ Ctl!ResumeOk(x.control))
  BY <1>3, FailOutgoingGood DEF SendResumeQuery
<1> QED
  BY <1>2, <1>3

LEMMA OfferPreparedTransfersGood ==
    ASSUME NEW x, NEW c, NEW done, NEW kept, NEW sent, NEW supported,
           Good(x, c, done, kept), c
    PROVE  Good(OfferPreparedTransfers(x, sent, supported), c, done, kept)
<1>1. Good([x EXCEPT !.poll = TRUE], c, done, kept)
  BY DEF Good, Shape, Fields, Counted, Ended, Removal, Places, Idle, Early,
         Unprepared, Kept, Going
<1> QED
  BY <1>1, SendResumeQueryGood, SendOfferGood DEF OfferPreparedTransfers

-----------------------------------------------------------------------------
(* Resumption, pause, loss and the end.                                     *)
LEMMA LeastOf ==
    ASSUME NEW S, S \subseteq Nat, S # {}
    PROVE  \E n \in S : \A m \in S : n <= m
<1> DEFINE R == OpToRel(<, Nat)
<1>1. \A a, b \in Nat : a < b => <<a, b>> \in R
  BY DEF OpToRel
<1>2. IsWellFoundedOn(R, Nat)
  BY NatLessThanWellFounded
<1> HIDE DEF R
<1>3. \E n \in S : \A m \in S : <<m, n>> \notin R
  BY <1>2, WFMin
<1>4. PICK n \in S : \A m \in S : <<m, n>> \notin R
  BY <1>3
<1>5. \A m \in S : n <= m
  <2> SUFFICES ASSUME NEW m \in S PROVE n <= m
    OBVIOUS
  <2>1. n \in Nat /\ m \in Nat
    OBVIOUS
  <2>2. ~(m < n)
    BY <1>1, <1>4, <2>1
  <2> QED
    BY <2>1, <2>2
<1> QED
  BY <1>5

LEMMA FirstOpenEffect ==
    ASSUME NEW reported
    PROVE  FirstOpen(reported) \in 1..N + 1
<1> DEFINE S == {f \in Files : ~Committed(reported, f)} \cup {N + 1}
<1>1. S \subseteq 1..N + 1 /\ S \subseteq Nat /\ N + 1 \in S
  BY OutgoingAssumption DEF Files
<1> HIDE DEF S
<1>2. PICK n \in S : \A m \in S : n <= m
  BY <1>1, LeastOf
<1>3. Min(S) \in S
  BY <1>2 DEF Min
<1> QED
  BY <1>1, <1>3 DEF FirstOpen, S

LEMMA RestartAtGood ==
    ASSUME NEW x, NEW c, NEW done, NEW kept, NEW reported,
           Good(x, c, done, kept), x.query, done \subseteq Files
    PROVE  LET more == done \cup {f \in Files : f < FirstOpen(reported)}
           IN Good(RestartAt(x, reported), c, more, kept)
<1> DEFINE first == FirstOpen(reported)
           more == done \cup {f \in Files : f < first}
           y == RestartAt(x, reported)
<1>1. first \in 1..N + 1
  BY FirstOpenEffect
<1>2. PICK off, bytes :
        y = [x EXCEPT !.off = off, !.entry = first, !.files = first - 1,
                      !.bytes = bytes, !.page = 0, !.stage = "none",
                      !.frame = "none", !.awaiting = FALSE, !.query = FALSE,
                      !.interrupted = FALSE]
  BY DEF RestartAt
<1>3. done \subseteq more /\ (done = Files => more = Files)
  OBVIOUS
<1>4. \A f \in Files : f < first => f \in more
  OBVIOUS
<1> HIDE DEF first, more, y
<1>5. /\ DOMAIN y = Fields /\ y.frame = "none" /\ y.stage = "none"
      /\ y.entry = first /\ ~y.awaiting /\ ~y.query /\ ~y.interrupted
      /\ y.control = x.control /\ y.snap = x.snap /\ y.offer = x.offer
      /\ y.manifest = x.manifest /\ y.timer = x.timer
      /\ y.cancelled = x.cancelled /\ y.ending = x.ending
      /\ y.saving = x.saving /\ y.firstSave = x.firstSave
      /\ y.wantRemove = x.wantRemove /\ y.removing = x.removing /\ y.then = x.then
  BY <1>2 DEF Good, Shape, Fields
<1>6. Shape(y) /\ Counted(y, more) /\ Ended(y, more, kept) /\ Removal(y)
  BY <1>1, <1>3, <1>4, <1>5 DEF Good, Shape, Counted, Ended, Removal
<1>7. Places(y, c)
  BY <1>5 DEF Good, Places, Idle
<1>8. Unprepared(y) /\ Kept(y, kept)
  BY <1>5 DEF Good, Unprepared, Kept, Going
<1>9. Good(y, c, more, kept)
  BY <1>6, <1>7, <1>8 DEF Good
<1> QED
  BY <1>9 DEF first, more, y

LEMMA RehydratedGood ==
    ASSUME NEW x, NEW c, NEW done, NEW kept, Good(x, c, done, kept),
           Ready(x, kept), x.snap # "Completed", x.control.state # "Completed"
    PROVE  LET y == Rehydrated(x)
           IN /\ Good(y, c, done, kept) /\ Ready(y, kept)
              /\ y.snap # "Completed" /\ y.control.state # "Completed"
  BY DEF Rehydrated, Show, Ready, Good, Shape, Fields, Counted, Ended, Removal,
         Places, Idle, Early, Unprepared, Kept, Going

LEMMA UnpauseGood ==
    ASSUME NEW x, NEW c, NEW done, NEW kept, Good(x, c, done, kept),
           Ctl!ResumeOk(x.control)
    PROVE  Good(Unpause(x), c, done, kept)
<1> DEFINE r == Ctl!Resume(x.control)
           k == Ctl!Advance(r, "Transferring")
<1>1. Machine(r) /\ r.state = "Resuming" /\ x.control.state \in Running
  BY DEF Machine, Good, Shape, Ctl!Resume, Ctl!ResumeOk, Ctl!SetState, Running
<1>2. Machine(k) /\ k.state \in {"Resuming", "Transferring"}
  BY <1>1, AdvanceEffect
<1>3. Unpause(x) = [x EXCEPT !.control = k, !.snap = k.state, !.paused = FALSE]
  BY DEF Unpause, Show, Good, Shape, Fields
<1> HIDE DEF r, k
<1> QED
  BY <1>1, <1>2, <1>3 DEF Machine, Good, Shape, Fields, Counted, Ended,
       Removal, Places, Idle, Early, Unprepared, Kept, Going, Running

LEMMA ShowGood ==
    ASSUME NEW x, NEW c, NEW done, NEW kept, Good(x, c, done, kept)
    PROVE  Good(Show(x), c, done, kept)
  BY DEF Show, Good, Shape, Fields, Counted, Ended, Removal, Places, Idle,
     Early, Unprepared, Kept, Going

LEMMA MarkOutgoingConnectionLostGood ==
    ASSUME NEW x, NEW c, NEW done, NEW kept, Good(x, c, done, kept)
    PROVE  Good(MarkOutgoingConnectionLost(x), FALSE, done, kept)
<1> DEFINE y == [x EXCEPT !.paused = FALSE, !.query = FALSE, !.awaiting = FALSE,
                          !.task = IF @ = "none" THEN @ ELSE "stale",
                          !.stage = "none", !.frame = "none"]
           k == Ctl!Interrupt(x.control)
           z == [y EXCEPT !.control = k, !.interrupted = TRUE, !.snap = k.state]
           n == [y EXCEPT !.interrupted = FALSE]
<1>1. CASE x.cancelled \/ x.ending \/ Ctl!IsTerminal(x.snap)
  BY <1>1 DEF MarkOutgoingConnectionLost, Good, Places
<1>2. CASE /\ ~(x.cancelled \/ x.ending \/ Ctl!IsTerminal(x.snap))
           /\ HasControl(x) /\ Ctl!InterruptOk(x.control)
  <2>1. Machine(k) /\ k.state = "Interrupted" /\ x.control.state \in Running
    BY <1>2 DEF Machine, Good, Shape, Ctl!Interrupt, Ctl!InterruptOk,
         Ctl!SetState, Running
  <2>2. MarkOutgoingConnectionLost(x) = PersistOutgoing(z)
    BY <1>2 DEF MarkOutgoingConnectionLost, Show, Good, Shape, Fields
  <2> HIDE DEF k
  <2>3. /\ Good(z, FALSE, done, kept)
        /\ z.snap = "Interrupted" /\ z.control.state = "Interrupted"
    BY <2>1, <1>2 DEF Machine, Good, Shape, Fields, Counted, Ended, Removal,
         Places, Idle, Early, Unprepared, Kept, Going, Running
  <2> HIDE DEF z
  <2> QED
    BY <2>2, <2>3, PersistOutgoingGood
<1>3. CASE /\ ~(x.cancelled \/ x.ending \/ Ctl!IsTerminal(x.snap))
           /\ ~(HasControl(x) /\ Ctl!InterruptOk(x.control))
  <2>1. MarkOutgoingConnectionLost(x) = FailOutgoing(n)
    BY <1>3 DEF MarkOutgoingConnectionLost
  <2>2. Good(n, FALSE, done, kept)
    BY <1>3 DEF Good, Shape, Fields, Counted, Ended, Removal, Places, Idle,
       Early, Unprepared, Kept, Going
  <2> HIDE DEF n
  <2> QED
    BY <2>1, <2>2, FailOutgoingGood
<1> QED
  BY <1>1, <1>2, <1>3

\* y is x after its removal, cancelled, with the machine k and the snapshot n.
Stopped(x, y, k, n) ==
    /\ DOMAIN y = Fields /\ y.control = k /\ y.snap = n /\ y.then = "none"
    /\ y.cancelled /\ ~y.removing /\ ~y.ending
    /\ y.frame = x.frame /\ y.stage = x.stage /\ y.entry = x.entry
    /\ y.query = x.query /\ y.interrupted = x.interrupted
    /\ y.saving = x.saving /\ y.wantRemove = x.wantRemove

\* A session in which nothing goes on may take any end but a completion.
LEMMA StoppedGood ==
    ASSUME NEW x, NEW y, NEW c, NEW done, NEW kept, NEW kept2, NEW k, NEW n,
           Good(x, c, done, kept), x.removing, Machine(k), Stopped(x, y, k, n),
           kept2 => kept,
           k.state = "Completed" \/ n = "Completed" =>
             k = x.control /\ n = x.snap /\ x.then = "fail"
    PROVE  Good(y, c, done, kept2)
<1>1. Shape(y) /\ Counted(y, done) /\ Removal(y)
  BY DEF Stopped, Machine, Good, Shape, Counted, Removal
<1>2. Ended(y, done, kept2)
  BY DEF Stopped, Good, Ended
<1>3. Places(y, c) /\ Unprepared(y) /\ Kept(y, kept2)
  BY DEF Stopped, Places, Unprepared, Kept
<1> QED
  BY <1>1, <1>2, <1>3 DEF Good

LEMMA FinishOutgoingFailureGood ==
    ASSUME NEW x, NEW c, NEW done, NEW kept, NEW kept2,
           Good(x, c, done, kept), x.removing, kept2 => kept
    PROVE  LET y == [x EXCEPT !.removing = FALSE, !.ending = FALSE]
           IN Good([FinishOutgoingFailure(y) EXCEPT !.then = "none"], c, done,
                   kept2)
<1> DEFINE y == [x EXCEPT !.removing = FALSE, !.ending = FALSE]
           e == [FinishOutgoingFailure(y) EXCEPT !.then = "none"]
           k == Ctl!Fail(x.control)
<1> SUFFICES Good(e, c, done, kept2)
  OBVIOUS
<1>1. /\ y.control = x.control /\ y.snap = x.snap /\ Machine(x.control)
      /\ x.removing => x.then # "none"
      /\ x.snap = "Completed" \/ x.control.state = "Completed" =>
           x.snap = x.control.state /\ x.then \in {"none", "fail"}
  BY DEF Good, Shape, Fields, Machine, Ended, Removal
<1>y. /\ DOMAIN y = Fields /\ ~y.removing /\ ~y.ending
      /\ y.frame = x.frame /\ y.stage = x.stage /\ y.entry = x.entry
      /\ y.query = x.query /\ y.interrupted = x.interrupted
      /\ y.saving = x.saving /\ y.wantRemove = x.wantRemove
  BY DEF Good, Shape, Fields
<1>s. ASSUME NEW m, NEW n, NEW z,
             z = [y EXCEPT !.cancelled = TRUE, !.control = m, !.snap = n]
      PROVE  Stopped(x, [z EXCEPT !.then = "none"], m, n)
  <2> HIDE DEF y
  <2>1. /\ DOMAIN z = Fields /\ ~z.removing /\ ~z.ending
        /\ z.control = m /\ z.snap = n /\ z.cancelled
        /\ z.frame = y.frame /\ z.stage = y.stage /\ z.entry = y.entry
        /\ z.query = y.query /\ z.interrupted = y.interrupted
        /\ z.saving = y.saving /\ z.wantRemove = y.wantRemove
    BY <1>y, <1>s DEF Fields
  <2> HIDE <1>s
  <2> QED
    BY <1>y, <2>1 DEF Stopped, Fields
<1>2. CASE HasControl(y) /\ ~Ctl!IsTerminal(y.control.state)
  <2>1. FinishOutgoingFailure(y) =
          [y EXCEPT !.cancelled = TRUE, !.control = k, !.snap = k.state]
    <3> HIDE DEF y
    <3>1. FinishOutgoingFailure(y) =
            Show([[y EXCEPT !.cancelled = TRUE] EXCEPT !.control = k])
      BY <1>1, <1>2 DEF FinishOutgoingFailure
    <3>2. [[y EXCEPT !.cancelled = TRUE] EXCEPT !.control = k].control = k
      BY <1>y DEF Fields
    <3> QED
      BY <3>1, <3>2 DEF Show
  <2>2. Machine(k) /\ k.state = "Failed"
    BY <1>1, <1>2 DEF Machine, Ctl!Fail, Ctl!SetState
  <2> HIDE DEF k
  <2>3. Stopped(x, e, k, k.state)
    BY <2>1, <1>s
  <2> QED
    BY <2>2, <2>3, StoppedGood
<1>3. CASE ~(HasControl(y) /\ ~Ctl!IsTerminal(y.control.state))
           /\ Ctl!IsTerminal(y.snap)
  <2>1. FinishOutgoingFailure(y) = [y EXCEPT !.cancelled = TRUE]
    BY <1>3 DEF FinishOutgoingFailure, HasControl
  <2>2. Stopped(x, e, x.control, x.snap)
    <3> HIDE DEF y
    <3> DEFINE z == FinishOutgoingFailure(y)
    <3>1. /\ DOMAIN z = Fields /\ ~z.removing /\ ~z.ending
          /\ z.control = x.control /\ z.snap = x.snap /\ z.cancelled
          /\ z.frame = y.frame /\ z.stage = y.stage /\ z.entry = y.entry
          /\ z.query = y.query /\ z.interrupted = y.interrupted
          /\ z.saving = y.saving /\ z.wantRemove = y.wantRemove
      BY <1>1, <1>y, <2>1 DEF Fields
    <3> HIDE DEF z
    <3> QED
      BY <1>y, <3>1 DEF Stopped, Fields, z
  <2> HIDE DEF e
  <2> QED
    BY <1>1, <2>2, StoppedGood
<1>4. CASE ~(HasControl(y) /\ ~Ctl!IsTerminal(y.control.state))
           /\ ~Ctl!IsTerminal(y.snap)
  <2>1. FinishOutgoingFailure(y) =
          [y EXCEPT !.cancelled = TRUE, !.snap = "Failed"]
    BY <1>4 DEF FinishOutgoingFailure, HasControl
  <2>2. Stopped(x, e, x.control, "Failed")
    <3> HIDE DEF y
    <3> DEFINE z == FinishOutgoingFailure(y)
    <3>1. /\ DOMAIN z = Fields /\ ~z.removing /\ ~z.ending
          /\ z.control = x.control /\ z.snap = "Failed" /\ z.cancelled
          /\ z.frame = y.frame /\ z.stage = y.stage /\ z.entry = y.entry
          /\ z.query = y.query /\ z.interrupted = y.interrupted
          /\ z.saving = y.saving /\ z.wantRemove = y.wantRemove
      BY <1>1, <1>y, <2>1 DEF Fields
    <3> HIDE DEF z
    <3> QED
      BY <1>y, <3>1 DEF Stopped, Fields, z
  <2>3. x.snap # "Completed" /\ x.control.state # "Completed"
    BY <1>1, <1>4 DEF Ctl!IsTerminal, Ctl!Terminal
  <2> HIDE DEF e
  <2> QED
    BY <1>1, <2>2, <2>3, StoppedGood
<1> QED
  BY <1>2, <1>3, <1>4

\* What is left of a session when its removal has ended.
LEMMA CompletionGood ==
    ASSUME NEW x, NEW c, NEW done, NEW kept, NEW kept2, NEW ok \in BOOLEAN,
           Good(x, c, done, kept), x.removing,
           kept2 => kept /\ ~ok
    PROVE  LET y == [x EXCEPT !.removing = FALSE, !.ending = FALSE]
           IN Good([Completion(y, ok) EXCEPT !.then = "none"], c, done,
                   kept2)
<1> DEFINE y == [x EXCEPT !.removing = FALSE, !.ending = FALSE]
           e == [Completion(y, ok) EXCEPT !.then = "none"]
<1> SUFFICES Good(e, c, done, kept2)
  OBVIOUS
<1>1. /\ y.then = x.then /\ y.control = x.control /\ y.snap = x.snap
      /\ Machine(x.control)
      /\ x.then \in {"complete", "cancel", "remoteCancel", "fail"}
      /\ x.then \in {"cancel", "remoteCancel"} =>
           /\ x.cancelled
           /\ x.snap # "Completed" /\ x.control.state # "Completed"
  BY DEF Good, Shape, Fields, Machine, Ended, Removal
<1>2. CASE Completion(y, ok) = FinishOutgoingFailure(y)
  BY <1>2, FinishOutgoingFailureGood
<1>3. CASE x.then = "complete" /\ ok /\ Ctl!AdvanceOk(x.control, "Completed")
  <2> DEFINE k == Ctl!Advance(x.control, "Completed")
  <2>1. Machine(k) /\ k.state = "Completed"
    BY <1>3, <1>1, AdvanceOkEffect
  <2>2. e = [x EXCEPT !.removing = FALSE, !.ending = FALSE, !.control = k,
                      !.snap = k.state, !.then = "none"]
    BY <1>1, <1>3 DEF Completion, Show, Good, Shape, Fields
  <2> HIDE DEF k, e
  <2> QED
    BY <2>1, <2>2, <1>3 DEF Machine, Good, Shape, Fields, Counted, Ended,
       Removal, Places, Idle, Early, Unprepared, Kept, Going, Running
<1>4. CASE x.then = "cancel" /\ ok
  <2> DEFINE k == Ctl!ConfirmCancelled(Ctl!Cancel(x.control))
  <2>1. CASE HasControl(x) /\ ~Ctl!IsTerminal(x.control.state)
    <3>1. Machine(k) /\ k.state = "Cancelled"
      BY <2>1, <1>1 DEF Machine, Ctl!ConfirmCancelled, Ctl!Cancel,
         Ctl!ConfirmCancelledOk, Ctl!SetState
    <3>2. e = [x EXCEPT !.removing = FALSE, !.ending = FALSE, !.control = k,
                        !.snap = k.state, !.then = "none"]
      BY <1>1, <1>4, <2>1 DEF Completion, Show, HasControl, Good, Shape, Fields
    <3> HIDE DEF k, e
    <3> QED
      BY <3>1, <3>2, <1>1, <1>4 DEF Machine, Good, Shape, Fields, Counted,
         Ended, Removal, Places, Unprepared, Kept, Going
  <2>2. CASE ~(HasControl(x) /\ ~Ctl!IsTerminal(x.control.state))
    <3>1. e = [x EXCEPT !.removing = FALSE, !.ending = FALSE,
                        !.snap = "Cancelled", !.then = "none"]
      BY <1>1, <1>4, <2>2 DEF Completion, HasControl, Good, Shape, Fields
    <3> HIDE DEF e
    <3> QED
      BY <3>1, <1>1, <1>4 DEF Machine, Good, Shape, Fields, Counted, Ended,
         Removal, Places, Unprepared, Kept, Going
  <2> QED
    BY <2>1, <2>2
<1>5. CASE /\ x.then = "remoteCancel" /\ ok
           /\ Ctl!ConfirmCancelledOk(x.control)
  <2> DEFINE k == Ctl!ConfirmCancelled(x.control)
  <2>1. Machine(k) /\ k.state = "Cancelled"
    BY <1>1, <1>5 DEF Machine, Ctl!ConfirmCancelled, Ctl!SetState
  <2>2. e = [x EXCEPT !.removing = FALSE, !.ending = FALSE, !.control = k,
                      !.snap = k.state, !.then = "none"]
    BY <1>1, <1>5 DEF Completion, Show, Good, Shape, Fields
  <2> HIDE DEF k, e
  <2> QED
    BY <2>1, <2>2, <1>1, <1>5 DEF Machine, Good, Shape, Fields, Counted,
       Ended, Removal, Places, Unprepared, Kept, Going
<1> QED
  BY <1>1, <1>2, <1>3, <1>4, <1>5 DEF Completion

-----------------------------------------------------------------------------
(* The events.                                                              *)
LEMMA InitGood == Init => IInv
  BY OutgoingAssumption DEF Init, IInv, FreshSession, NoControl, Good, Shape,
     Fields, Counted, Ended, Removal, Places, Idle, Early, Unprepared, Kept,
     Going, Running, Files

LEMMA FinishManifestPreparationKeeps ==
    ASSUME IInv, NEW built, NEW reachable, NEW sent,
           FinishManifestPreparation(built, reachable, sent)
    PROVE  IInv'
<1> DEFINE y == [s EXCEPT !.manifest = TRUE,
                          !.control = [state |-> "Preparing", bytes |-> 0,
                                       files |-> 0]]
<1>1. Good(s, conn, acked, store)
  BY DEF IInv
<1>2. Good(y, conn, acked, store) /\ y.manifest
  BY <1>1 DEF FinishManifestPreparation, Good, Shape, Fields, Counted, Ended,
     Removal, Places, Idle, Early, Unprepared, Kept, Going, Running
<1>3. s' \in {FailOutgoing(s), SendOffer(y, sent), y, FailOutgoing(y)}
  BY DEF FinishManifestPreparation
<1> HIDE DEF y
<1>4. Good(s', conn, acked, store)
  BY <1>1, <1>2, <1>3, FailOutgoingGood, SendOfferGood
<1> QED
  BY <1>4 DEF IInv, FinishManifestPreparation

LEMMA PeerReadyKeeps ==
    ASSUME IInv, NEW sent, NEW supported, PeerReady(sent, supported)
    PROVE  IInv'
<1>1. Good(s, TRUE, acked, store)
  BY DEF PeerReady, IInv, Good, Places
<1>2. Good(s', TRUE, acked, store)
  BY <1>1, OfferPreparedTransfersGood DEF PeerReady
<1> QED
  BY <1>2 DEF IInv, PeerReady

LEMMA OfferAgainKeeps ==
    ASSUME IInv, NEW sent, NEW supported, OfferAgain(sent, supported)
    PROVE  IInv'
<1> DEFINE y == [s EXCEPT !.poll = FALSE]
<1>1. Good(y, conn, acked, store)
  BY DEF IInv, Good, Shape, Fields, Counted, Ended, Removal, Places, Idle,
     Early, Unprepared, Kept, Going
<1> HIDE DEF y
<1>2. Good(s', conn, acked, store)
  BY <1>1, OfferPreparedTransfersGood DEF OfferAgain, y
<1> QED
  BY <1>2 DEF IInv, OfferAgain

LEMMA HandleAcceptKeeps ==
    ASSUME IInv, NEW good, HandleAccept(good)
    PROVE  IInv'
<1> DEFINE a == [s EXCEPT !.offer = "accepted"]
           k == Ctl!Advance(s.control, "Queued")
           z == [a EXCEPT !.control = k, !.firstSave = TRUE, !.snap = k.state]
<1>1. Good(s, conn, acked, store)
  BY DEF IInv
<1>2. Good(a, conn, acked, store)
  BY <1>1 DEF Good, Shape, Fields, Counted, Ended, Removal, Places, Idle,
     Early, Unprepared, Kept, Going
<1>3. CASE good /\ s.offer = "awaiting" /\ Ctl!AdvanceOk(s.control, "Queued")
  <2>1. s' = PersistOutgoing(z)
    BY <1>1, <1>3 DEF HandleAccept, Show, Good, Shape, Fields
  <2>2. /\ Machine(k) /\ k.state = "Queued"
        /\ s.control.state \in {"WaitingForAcceptance", "Queued"}
    BY <1>1, <1>3, AdvanceOkEffect DEF Good, Shape, Machine, Ctl!Edges
  <2> HIDE DEF k
  <2>3. /\ Good(z, conn, acked, store)
        /\ z.snap = "Queued" /\ z.control.state = "Queued"
    BY <1>1, <1>3, <2>2 DEF Machine, Good, Shape, Fields, Counted, Ended,
       Removal, Places, Idle, Early, Unprepared, Kept, Going, Running
  <2> HIDE DEF z
  <2>4. Good(s', conn, acked, store)
    BY <2>1, <2>3, PersistOutgoingGood
  <2> QED
    BY <2>4 DEF IInv, HandleAccept
<1>4. CASE ~(/\ good /\ s.offer = "awaiting"
             /\ Ctl!AdvanceOk(s.control, "Queued"))
  <2>1. s' = FailOutgoing(s) \/ s' = FailOutgoing(a)
    BY <1>4 DEF HandleAccept
  <2> HIDE DEF a
  <2>2. Good(s', conn, acked, store)
    BY <2>1, <1>1, <1>2, FailOutgoingGood
  <2> QED
    BY <2>2 DEF IInv, HandleAccept
<1> QED
  BY <1>3, <1>4

LEMMA HandleRejectKeeps ==
    ASSUME IInv, HandleReject
    PROVE  IInv'
<1> DEFINE o == IF s.offer = "awaiting" THEN "rejected" ELSE s.offer
           k == Ctl!Advance(s.control, "Rejected")
<1>1. Machine(k) /\ k.state \in {s.control.state, "Rejected"}
      /\ (k.state # s.control.state =>
            <<s.control.state, "Rejected">> \in Ctl!Edges)
  BY AdvanceEffect DEF IInv, Good, Shape, Machine
<1>2. k.state = s.control.state
        \/ s.control.state \in {"Offered", "WaitingForAcceptance"}
  BY <1>1 DEF Ctl!Edges
<1>3. s' = [s EXCEPT !.offer = o, !.control = k, !.snap = k.state]
  BY DEF HandleReject, Show, IInv, Good, Shape, Fields
<1>4. o # "awaiting"
  OBVIOUS
<1> HIDE DEF o, k
<1>5. Good(s', conn, acked, store)
  BY <1>1, <1>2, <1>3, <1>4 DEF IInv, Machine, Good, Shape, Fields, Counted,
     Ended, Removal, Places, Idle, Early, Unprepared, Kept, Going, Running
<1> QED
  BY <1>5 DEF IInv, HandleReject

LEMMA SendNextManifestPageKeeps ==
    ASSUME IInv, NEW sent, SendNextManifestPage(sent)
    PROVE  IInv'
<1> DEFINE y == [s EXCEPT !.timer = FALSE]
           z == [y EXCEPT !.page = @ + 1, !.timer = TRUE]
<1>1. Good(s, conn, acked, store) /\ acked \subseteq Files
      /\ s.timer /\ (sent => conn)
  BY DEF IInv, SendNextManifestPage
<1>2. Good(y, conn, acked, store) /\ Good(z, conn, acked, store)
  BY <1>1 DEF Good, Shape, Fields, Counted, Ended, Removal, Places, Idle,
     Early, Unprepared, Kept, Going
<1>3. sent => Ready(y, store)
  BY <1>1 DEF Ready, Good, Shape, Fields, Removal, Places, Idle, Early, Kept,
     Going
<1>4. \/ s' = y \/ s' = FailOutgoing(y) \/ s' = z
      \/ sent /\ s' = StartNextOutgoingFile(y, conn)
  BY DEF SendNextManifestPage
<1> HIDE DEF y, z
<1>5. Good(s', conn, acked, store)
  BY <1>1, <1>2, <1>3, <1>4, FailOutgoingGood, StartNextOutgoingFileGood
<1> QED
  BY <1>5 DEF IInv, SendNextManifestPage

LEMMA WriteCapacityAvailableKeeps ==
    ASSUME IInv, NEW drained, NEW sink, NEW room,
           WriteCapacityAvailable(drained, sink, room)
    PROVE  IInv'
<1>1. Good(s', conn, acked, store)
  BY ScheduleSenderPumpGood DEF IInv, WriteCapacityAvailable
<1> QED
  BY <1>1 DEF IInv, WriteCapacityAvailable

LEMMA DispatchStaleKeeps ==
    ASSUME IInv, NEW sent, NEW supported, DispatchStale(sent, supported)
    PROVE  IInv'
<1> DEFINE y == [s EXCEPT !.task = "none"]
<1>1. Good(y, conn, acked, store)
  BY DEF IInv, Good, Shape, Fields, Counted, Ended, Removal, Places, Idle,
     Early, Unprepared, Kept, Going
<1>2. s' = y \/ (conn /\ s' = OfferPreparedTransfers(y, sent, supported))
  BY DEF DispatchStale
<1> HIDE DEF y
<1>3. Good(s', conn, acked, store)
  BY <1>1, <1>2, OfferPreparedTransfersGood
<1> QED
  BY <1>3 DEF IInv, DispatchStale

LEMMA DispatchSenderPumpResultKeeps ==
    ASSUME IInv, NEW pulled, NEW sink, NEW room,
           DispatchSenderPumpResult(pulled, sink, room)
    PROVE  IInv'
<1> DEFINE y == [s EXCEPT !.task = "none"]
           z == IF pulled = "frame" THEN NextFrame(y) ELSE y
<1>1. Good(y, conn, acked, store)
  BY DEF IInv, Good, Shape, Fields, Counted, Ended, Removal, Places, Idle,
     Early, Unprepared, Kept, Going
<1>2. \/ s' = y \/ s' = FailOutgoing(y)
      \/ s' = ScheduleSenderPump(z, conn, sink, room)
  BY DEF DispatchSenderPumpResult
<1> HIDE DEF y
<1>3. Good(z, conn, acked, store)
  BY <1>1, NextFrameGood
<1> HIDE DEF z
<1>4. Good(s', conn, acked, store)
  BY <1>1, <1>2, <1>3, FailOutgoingGood, ScheduleSenderPumpGood
<1> QED
  BY <1>4 DEF IInv, DispatchSenderPumpResult

\* A later acknowledgement spoils nothing.
LEMMA MoreDone ==
    ASSUME NEW x, NEW c, NEW done, NEW more, NEW kept, Good(x, c, done, kept),
           done \subseteq more, more \subseteq Files
    PROVE  Good(x, c, more, kept)
  BY DEF Good, Counted, Ended

LEMMA HandleFileResultKeeps ==
    ASSUME IInv, NEW f \in Files, NEW ok, HandleFileResult(f, ok)
    PROVE  IInv'
<1> DEFINE y == [s EXCEPT !.files = @ + 1, !.entry = @ + 1, !.stage = "none",
                          !.frame = "none", !.awaiting = FALSE]
           z == UpdateOutgoingProgress(y)
           more == acked \cup {f}
<1>1. Good(s, conn, acked, store) /\ acked \subseteq Files
      /\ s.awaiting /\ s.entry = f
  BY DEF IInv, HandleFileResult
<1>2. Good(s, conn, more, store) /\ more \subseteq Files
  BY <1>1, MoreDone
<1>3. Good(y, conn, more, store)
  <2>1. y.entry = f + 1 /\ f + 1 \in 1..N + 1
    BY <1>1, OutgoingAssumption DEF Files, Good, Shape, Fields
  <2>2. Counted(y, more)
    <3>1. \A g \in Files : g < f + 1 => g < f \/ g = f
      BY OutgoingAssumption DEF Files
    <3>2. y.then = s.then
      BY <1>1 DEF Good, Shape, Fields
    <3> QED
      BY <1>1, <1>2, <2>1, <3>1, <3>2 DEF Good, Counted
  <2> QED
    BY <1>2, <2>1, <2>2 DEF Good, Shape, Fields, Ended, Removal, Places, Idle,
       Early, Unprepared, Kept, Going
<1>4. Good(z, conn, more, store)
  BY <1>3, UpdateOutgoingProgressGood
<1>5. Ready(z, store)
  <2>1. Machine(y.control) /\ y.control = s.control
    BY <1>1 DEF Machine, Good, Shape, Fields
  <2>2. z.control.state = s.control.state /\ z.cancelled = s.cancelled
        /\ z.firstSave = s.firstSave /\ z.then = s.then
        /\ z.timer = s.timer /\ z.interrupted = s.interrupted
        /\ z.stage = "none"
    BY <1>1, <2>1, ProgressEffect
    DEF UpdateOutgoingProgress, Show, Good, Shape, Fields
  <2> HIDE DEF z
  <2> QED
    BY <1>1, <2>2 DEF Ready, Good, Places, Idle, Early, Kept, Going
<1>6. \/ ~ok /\ s' = FailOutgoing(s) /\ acked' = acked
      \/ ok /\ s' = StartNextOutgoingFile(z, conn) /\ acked' = more
  BY DEF HandleFileResult
<1> HIDE DEF y, z
<1>7. Good(s', conn, acked', store) /\ acked' \subseteq Files
  BY <1>1, <1>2, <1>4, <1>5, <1>6, FailOutgoingGood, StartNextOutgoingFileGood
<1> QED
  BY <1>7 DEF IInv, HandleFileResult

\* The receiver's report moves the session to its first open file; the pages
\* are sent again before any data.
LEMMA HandleResumeResponseKeeps ==
    ASSUME IInv, NEW reported, HandleResumeResponse(reported)
    PROVE  IInv'
<1> DEFINE more == acked \cup {f \in Files : f < FirstOpen(reported)}
           a == RestartAt(s, reported)
           b == Rehydrated(a)
           u == UpdateOutgoingProgress(b)
           v == PersistOutgoing(u)
<1>1. Good(s, conn, acked, store) /\ acked \subseteq Files /\ s.query
  BY DEF IInv, HandleResumeResponse
<1>2. Good(a, conn, more, store) /\ more \subseteq Files
  BY <1>1, RestartAtGood
<1>3. Ready(a, store) /\ a.snap # "Completed" /\ a.control.state # "Completed"
  BY <1>1 DEF RestartAt, Ready, Good, Shape, Fields, Removal, Places, Idle,
     Early, Kept, Going, Ended, Unprepared
<1> HIDE DEF a
<1>4. /\ Good(b, conn, more, store) /\ Ready(b, store)
      /\ b.snap # "Completed" /\ b.control.state # "Completed"
  BY <1>2, <1>3, RehydratedGood
<1> HIDE DEF b
<1>5. /\ Good(u, conn, more, store) /\ Ready(u, store)
      /\ u.snap # "Completed" /\ u.control.state # "Completed"
  BY <1>4, UpdateOutgoingProgressGood
<1> HIDE DEF u
<1>6. Good(v, conn, more, store) /\ Ready(v, store)
  BY <1>5, PersistOutgoingGood, PersistOutgoingReady DEF Good
<1>7. s' = [v EXCEPT !.timer = TRUE] /\ acked' = more
      /\ conn' = conn /\ store' = store
  BY DEF HandleResumeResponse, a, b, u
<1> HIDE DEF v, more
<1>8. Good(s', conn, more, store)
  BY <1>6, <1>7 DEF Ready, Good, Shape, Fields, Counted, Ended, Removal,
     Places, Idle, Early, Unprepared, Kept, Going
<1> QED
  BY <1>2, <1>7, <1>8 DEF IInv, more

LEMMA HandleBadResumeResponseKeeps ==
    ASSUME IInv, HandleBadResumeResponse
    PROVE  IInv'
<1>1. Good(s', conn, acked, store)
  BY FailOutgoingGood DEF IInv, HandleBadResumeResponse
<1> QED
  BY <1>1 DEF IInv, HandleBadResumeResponse

\* Both sides pause alike.
LEMMA PauseGood ==
    ASSUME NEW x, NEW c, NEW done, NEW kept, Good(x, c, done, kept),
           Ctl!PauseOk(x.control)
    PROVE  Good(Show([x EXCEPT !.control = Ctl!Pause(@), !.paused = TRUE]),
                c, done, kept)
<1> DEFINE k == Ctl!Pause(x.control)
           y == Show([x EXCEPT !.control = Ctl!Pause(@), !.paused = TRUE])
<1>1. Machine(k) /\ k.state = "Paused" /\ x.control.state \in Running
  BY DEF Machine, Good, Shape, Ctl!Pause, Ctl!PauseOk, Ctl!SetState, Running
<1>2. y = [x EXCEPT !.control = k, !.paused = TRUE, !.snap = k.state]
  BY DEF Show, Good, Shape, Fields
<1> HIDE DEF k, y
<1>3. Good(y, c, done, kept)
  BY <1>1, <1>2 DEF Machine, Good, Shape, Fields, Counted, Ended, Removal,
     Places, Idle, Early, Unprepared, Kept, Going, Running
<1> QED
  BY <1>3 DEF y

LEMMA PauseOutgoingKeeps ==
    ASSUME IInv, NEW sent, PauseOutgoing(sent)
    PROVE  IInv'
<1> DEFINE y == Show([s EXCEPT !.control = Ctl!Pause(@), !.paused = TRUE])
<1>1. Good(y, conn, acked, store)
  BY PauseGood DEF IInv, PauseOutgoing
<1>2. s' = y \/ s' = FailOutgoing(y)
  BY DEF PauseOutgoing
<1> HIDE DEF y
<1>3. Good(s', conn, acked, store)
  BY <1>1, <1>2, FailOutgoingGood
<1> QED
  BY <1>3 DEF IInv, PauseOutgoing

LEMMA RemotePauseKeeps ==
    ASSUME IInv, RemotePause
    PROVE  IInv'
<1>1. Good(s', conn, acked, store)
  BY PauseGood DEF IInv, RemotePause
<1> QED
  BY <1>1 DEF IInv, RemotePause

LEMMA ResumeOutgoingKeeps ==
    ASSUME IInv, NEW sent, NEW sink, NEW room, ResumeOutgoing(sent, sink, room)
    PROVE  IInv'
<1>1. Good(Unpause(s), conn, acked, store)
  BY UnpauseGood DEF IInv, ResumeOutgoing
<1>2. Good(s', conn, acked, store)
  BY <1>1, FailOutgoingGood, ScheduleSenderPumpGood DEF ResumeOutgoing
<1> QED
  BY <1>2 DEF IInv, ResumeOutgoing

LEMMA RemoteResumeKeeps ==
    ASSUME IInv, NEW sink, NEW room, RemoteResume(sink, room)
    PROVE  IInv'
<1>1. Good(Unpause(s), conn, acked, store)
  BY UnpauseGood DEF IInv, RemoteResume
<1>2. Good(s', conn, acked, store)
  BY <1>1, ShowGood, ScheduleSenderPumpGood DEF RemoteResume
<1> QED
  BY <1>2 DEF IInv, RemoteResume

LEMMA CancelOutgoingKeeps ==
    ASSUME IInv, CancelOutgoing
    PROVE  IInv'
<1>1. s.snap # "Completed" /\ s.control.state # "Completed"
  BY DEF CancelOutgoing, IInv, Good, Ended, Ctl!IsTerminal, Ctl!Terminal
<1>2. Good(s', conn, acked, store)
  BY <1>1 DEF CancelOutgoing, RemoveOutgoingRecovery, StartRemoval, IInv, Good,
     Shape, Fields, Counted, Ended, Removal, Places, Unprepared, Kept, Going
<1> QED
  BY <1>2 DEF IInv, CancelOutgoing

LEMMA RemoteCancelKeeps ==
    ASSUME IInv, RemoteCancel
    PROVE  IInv'
<1> DEFINE k == Ctl!Cancel(s.control)
           y == [s EXCEPT !.control = k, !.cancelled = TRUE, !.ending = TRUE,
                          !.snap = k.state]
<1>1. /\ Machine(k) /\ k.state \in {"Cancelling", "Cancelled"}
      /\ s.control.state # "Completed"
  BY DEF RemoteCancel, IInv, Good, Shape, Machine, Ctl!Cancel, Ctl!CancelOk,
         Ctl!SetState, Ctl!IsTerminal, Ctl!Terminal
<1>2. s' = RemoveOutgoingRecovery(y, "remoteCancel")
  BY DEF RemoteCancel, Show, IInv, Good, Shape, Fields
<1>3. s.snap # "Completed"
  BY <1>1 DEF IInv, Good, Ended
<1> HIDE DEF k
<1>4. Good(s', conn, acked, store)
  BY <1>1, <1>2, <1>3 DEF RemoveOutgoingRecovery, StartRemoval, Machine, IInv,
     Good, Shape, Fields, Counted, Ended, Removal, Places, Unprepared, Kept,
     Going
<1> QED
  BY <1>4 DEF IInv, RemoteCancel

\* A save that ends leaves a record, or what it leaves is removed.
LEMMA SaveFinishedKeeps ==
    ASSUME IInv, NEW ok \in BOOLEAN, SaveFinished(ok)
    PROVE  IInv'
<1> DEFINE y == [s EXCEPT !.saving = FALSE]
           n == [y EXCEPT !.firstSave = FALSE]
           z == [y EXCEPT !.firstSave = FALSE,
                          !.timer = @ \/ (s.firstSave /\ ~s.cancelled /\
                                          ~s.interrupted /\ ~s.ending)]
<1>1. Good(s, conn, acked, store) /\ s.saving
  BY DEF IInv, SaveFinished
<1>2. /\ s.snap # "Completed" /\ s.control.state # "Completed"
      /\ ~s.removing /\ store' = (store \/ ok)
  BY <1>1 DEF Good, Ended, Removal, SaveFinished
<1>3. Good(s, conn, acked, store')
  BY <1>1, <1>2 DEF Good, Ended, Kept
<1>4. CASE s.wantRemove
  <2>1. s' = [s EXCEPT !.saving = FALSE, !.wantRemove = FALSE,
                       !.removing = TRUE]
    BY <1>1, <1>4 DEF SaveFinished, StartRemoval, Good, Shape, Fields
  <2>2. Good(s', conn, acked, store')
    BY <1>1, <1>3, <1>4, <2>1 DEF Good, Shape, Fields, Counted, Ended, Removal,
       Places, Idle, Early, Unprepared, Kept, Going
  <2> QED
    BY <2>2 DEF IInv, SaveFinished
<1>5. CASE ~s.wantRemove
  <2>1. /\ Good(y, conn, acked, store') /\ Good(n, conn, acked, store')
        /\ y.snap = s.snap /\ y.control = s.control
        /\ ~y.removing /\ ~y.wantRemove
    BY <1>1, <1>2, <1>3, <1>5 DEF Good, Shape, Fields, Counted, Ended, Removal,
       Places, Idle, Early, Unprepared, Kept, Going
  <2>2. ok => Good(z, conn, acked, store')
    BY <1>1, <1>2, <1>3, <1>5 DEF Good, Shape, Fields, Counted, Ended, Removal,
       Places, Idle, Early, Unprepared, Kept, Going
  <2>3. \/ s' = StartSave(y) \/ s' = FailOutgoing(n)
        \/ ok /\ s' = z
    BY <1>5 DEF SaveFinished
  <2> HIDE DEF y, n, z
  <2>4. Good(s', conn, acked, store')
    BY <1>2, <2>1, <2>2, <2>3, StartSaveGood, FailOutgoingGood
  <2> QED
    BY <2>4 DEF IInv, SaveFinished
<1> QED
  BY <1>4, <1>5

LEMMA RemovalFinishedKeeps ==
    ASSUME IInv, NEW ok \in BOOLEAN, RemovalFinished(ok)
    PROVE  IInv'
<1> DEFINE y == [s EXCEPT !.removing = FALSE, !.ending = FALSE]
           e == [Completion(y, ok) EXCEPT !.then = "none"]
<1>1. /\ Good(s, conn, acked, store) /\ s.removing
      /\ s' = e /\ store' = (store /\ ~ok)
  BY DEF IInv, RemovalFinished
<1>2. Good(e, conn, acked, store')
  BY <1>1, CompletionGood
<1> HIDE DEF e
<1> QED
  BY <1>1, <1>2 DEF IInv, RemovalFinished

LEMMA ConnectionLostKeeps ==
    ASSUME IInv, ConnectionLost
    PROVE  IInv'
<1>1. Good(s', FALSE, acked, store)
  BY MarkOutgoingConnectionLostGood DEF IInv, ConnectionLost
<1> QED
  BY <1>1 DEF IInv, ConnectionLost

\* A new session needs nothing of the record, a hydrated one has it.
LEMMA CrashKeeps ==
    ASSUME IInv, Crash
    PROVE  IInv'
<1>1. Good(FreshSession, FALSE, acked, store')
  BY OutgoingAssumption DEF FreshSession, NoControl, Good, Shape, Fields,
     Counted, Ended, Removal, Places, Idle, Early, Unprepared, Kept, Going,
     Running, Files
<1> QED
  BY <1>1 DEF IInv, Crash

LEMMA HydrateKeeps ==
    ASSUME IInv, Hydrate
    PROVE  IInv'
<1>1. Good(s', conn, acked, store)
  BY OutgoingAssumption DEF Hydrate, FreshSession, NoControl, Good, Shape,
     Fields, Counted, Ended, Removal, Places, Idle, Early, Unprepared, Kept,
     Going, Running, Files
<1> QED
  BY <1>1 DEF IInv, Hydrate

\* The steps of the connections that no session hears of.
Unheard == ReplaceConnection \/ FormerClosed \/ SuccessorChanges

LEMMA UnheardKeeps ==
    ASSUME IInv, Unheard
    PROVE  IInv'
<1>1. Good(s, FALSE, acked, store)
  BY DEF IInv, Good, Places
<1>2. /\ s' = s /\ acked' = acked /\ store' = store
      /\ conn' = conn \/ conn' = FALSE
  BY DEF Unheard, ReplaceConnection, FormerClosed, SuccessorChanges
<1> QED
  BY <1>1, <1>2 DEF IInv

LEMMA StutterKeeps ==
    ASSUME IInv, Revoke \/ UNCHANGED vars
    PROVE  IInv'
  BY DEF IInv, Revoke, vars

-----------------------------------------------------------------------------
LEMMA NextKeeps == IInv /\ [Next]_vars => IInv'
<1> SUFFICES ASSUME IInv, [Next]_vars PROVE IInv'
  OBVIOUS
<1> QED
  BY FinishManifestPreparationKeeps, PeerReadyKeeps, OfferAgainKeeps,
     DispatchStaleKeeps, SendNextManifestPageKeeps, PauseOutgoingKeeps,
     HandleAcceptKeeps, HandleRejectKeeps, WriteCapacityAvailableKeeps,
     DispatchSenderPumpResultKeeps, ResumeOutgoingKeeps, RemoteResumeKeeps,
     HandleFileResultKeeps, HandleResumeResponseKeeps,
     HandleBadResumeResponseKeeps, CancelOutgoingKeeps, RemotePauseKeeps,
     RemoteCancelKeeps, SaveFinishedKeeps, RemovalFinishedKeeps,
     ConnectionLostKeeps, UnheardKeeps, CrashKeeps, HydrateKeeps, StutterKeeps
  DEF Next, Unheard

LEMMA InvariantHolds == Spec => []IInv
  BY InitGood, NextKeeps, PTL DEF Spec

\* The sender shows Completed only when every file was acknowledged, whatever
\* was lost, resumed or restarted before (completeOutgoing).
THEOREM CompletionIsAcknowledged == Spec => []CompletedMeansAcknowledged
<1>1. IInv => CompletedMeansAcknowledged
  BY DEF IInv, Good, Ended, CompletedMeansAcknowledged
<1> QED
  BY <1>1, InvariantHolds, PTL

\* A session that runs or is interrupted has its record on disk, after every
\* interleaving of saves, removals, losses and crashes (handleOfferResponse).
THEOREM RunningIsRecoverable == Spec => []RecoverableWhileRunning
<1>1. IInv => RecoverableWhileRunning
  BY DEF IInv, Good, Kept, Going, Running, RecoverableWhileRunning
<1> QED
  BY <1>1, InvariantHolds, PTL

\* A completed session has left no record and no save that could bring one
\* back (removeOutgoingRecovery).
THEOREM CompletionLeavesNoRecord == Spec => []CompletedLeavesNoRecord
<1>1. IInv => CompletedLeavesNoRecord
  BY DEF IInv, Good, Ended, CompletedLeavesNoRecord
<1> QED
  BY <1>1, InvariantHolds, PTL

-----------------------------------------------------------------------------
(* A paused sender is quiet.  What changes the counters or asks for a result *)
(* in a paused session could only be the answer to a resume query; Hush says *)
(* that a session which is interrupted or has asked is neither paused nor    *)
(* can be.                                                                   *)

Formed(x) == DOMAIN x = Fields /\ Machine(x.control)

Hush(x) == x.interrupted \/ x.query => ~x.paused /\ ~Ctl!PauseOk(x.control)

\* PausedIsQuiet of a step from x to y.
Still(x, y) ==
    x.paused /\ y.paused => y.bytes = x.bytes /\ (y.awaiting => x.awaiting)

\* The flags that Hush and Still are about stay as they are.
SameFlags(x, y) ==
    /\ Formed(y)
    /\ y.interrupted = x.interrupted /\ y.query = x.query /\ y.paused = x.paused

Steady(x, y) ==
    /\ SameFlags(x, y) /\ y.control.state = x.control.state
    /\ y.bytes = x.bytes /\ y.awaiting = x.awaiting /\ y.cancelled = x.cancelled

PInv == Formed(s) /\ Hush(s)

-----------------------------------------------------------------------------
(* The calls.                                                               *)
\* An end or a save touches neither the flags of a pause nor the progress.
LEMMA FailOutgoingStill ==
    ASSUME NEW x, Formed(x)
    PROVE  LET y == FailOutgoing(x)
           IN /\ SameFlags(x, y) /\ y.control = x.control
              /\ y.bytes = x.bytes /\ y.awaiting = x.awaiting
  BY DEF FailOutgoing, RemoveOutgoingRecovery, StartRemoval, Formed, Fields, SameFlags

LEMMA RemoveOutgoingRecoveryStill ==
    ASSUME NEW x, NEW then, Formed(x)
    PROVE  LET y == RemoveOutgoingRecovery(x, then)
           IN /\ SameFlags(x, y) /\ y.control = x.control
              /\ y.bytes = x.bytes /\ y.awaiting = x.awaiting
  BY DEF RemoveOutgoingRecovery, StartRemoval, Formed, Fields, SameFlags

LEMMA StartSaveStill ==
    ASSUME NEW x, Formed(x)
    PROVE  LET y == StartSave(x)
           IN /\ SameFlags(x, y) /\ y.control = x.control
              /\ y.bytes = x.bytes /\ y.awaiting = x.awaiting
<1> DEFINE z == [x EXCEPT !.again = FALSE]
<1>1. /\ Formed(z) /\ z.control = x.control /\ z.bytes = x.bytes
      /\ z.awaiting = x.awaiting /\ SameFlags(x, z)
  BY DEF Formed, Fields, SameFlags
<1>2. CASE trusted
  BY <1>2 DEF StartSave, Formed, Fields, SameFlags
<1>3. CASE ~trusted
  <2>1. StartSave(x) = FailOutgoing(z)
    BY <1>3 DEF StartSave
  <2> HIDE DEF z
  <2> QED
    BY <1>1, <2>1, FailOutgoingStill DEF SameFlags
<1> QED
  BY <1>2, <1>3

LEMMA PersistOutgoingStill ==
    ASSUME NEW x, Formed(x)
    PROVE  LET y == PersistOutgoing(x)
           IN /\ SameFlags(x, y) /\ y.control = x.control
              /\ y.bytes = x.bytes /\ y.awaiting = x.awaiting
<1>1. CASE x.wantRemove \/ x.removing
  BY <1>1 DEF PersistOutgoing, SameFlags
<1>2. CASE ~(x.wantRemove \/ x.removing) /\ x.saving
  BY <1>2 DEF PersistOutgoing, Formed, Fields, SameFlags
<1>3. CASE ~(x.wantRemove \/ x.removing) /\ ~x.saving
  BY <1>3, StartSaveStill DEF PersistOutgoing
<1> QED
  BY <1>1, <1>2, <1>3

LEMMA UpdateOutgoingProgressStill ==
    ASSUME NEW x, Formed(x)
    PROVE  Steady(x, UpdateOutgoingProgress(x))
<1> DEFINE k == Ctl!UpdateProgress(x.control, x.bytes, x.files)
<1>1. Machine(k) /\ k.state = x.control.state
  BY ProgressEffect DEF Formed
<1>2. UpdateOutgoingProgress(x) = [x EXCEPT !.control = k, !.snap = k.state]
  BY DEF UpdateOutgoingProgress, Show, Formed, Fields
<1> HIDE DEF k
<1> QED
  BY <1>1, <1>2 DEF Formed, Fields, SameFlags, Steady

\* A paused sender is not pumped.
LEMMA ScheduleSenderPumpStill ==
    ASSUME NEW x, NEW k, NEW sink, NEW room, Formed(x),
           x.frame \in {"none", "begin", "chunk", "end"}
    PROVE  LET y == ScheduleSenderPump(x, k, sink, room)
           IN /\ SameFlags(x, y) /\ y.control.state = x.control.state
              /\ x.paused => y = x
<1>1. CASE ~MayPump(x)
  BY <1>1 DEF ScheduleSenderPump, SameFlags
<1>2. CASE MayPump(x) /\ ~k
  BY <1>2, FailOutgoingStill DEF ScheduleSenderPump, MayPump
<1>3. CASE MayPump(x) /\ k
  <2> DEFINE y == ScheduleSenderPump(x, k, sink, room)
             n == [x EXCEPT !.frame = "none"]
             z == [n EXCEPT !.bytes = @ + 1]
             u == UpdateOutgoingProgress(z)
  <2>1. y \in {x, StartTask(x, room), FailOutgoing(x), StartTask(n, room),
               StartTask(u, room), [n EXCEPT !.awaiting = TRUE]}
    BY <1>3 DEF ScheduleSenderPump, SubmitPending
  <2>2. /\ SameFlags(x, n) /\ n.control = x.control
        /\ SameFlags(x, z) /\ z.control = x.control
        /\ SameFlags(x, [n EXCEPT !.awaiting = TRUE])
        /\ [n EXCEPT !.awaiting = TRUE].control = x.control
    BY DEF Formed, Fields, SameFlags
  <2> HIDE DEF n, z
  <2>3. SameFlags(x, u) /\ u.control.state = x.control.state
    BY <2>2, UpdateOutgoingProgressStill DEF Steady, SameFlags
  <2> HIDE DEF u
  <2>4. ASSUME NEW v, SameFlags(x, v)
        PROVE  SameFlags(x, StartTask(v, room)) /\ StartTask(v, room).control = v.control
    BY <2>4 DEF StartTask, SameFlags, Formed, Fields
  <2>5. SameFlags(x, x)
    BY DEF SameFlags
  <2>6. SameFlags(x, y) /\ y.control.state = x.control.state
    <3> DEFINE Kind(v) == SameFlags(x, v) /\ v.control.state = x.control.state
    <3>1. Kind(x) /\ Kind(FailOutgoing(x)) /\ Kind([n EXCEPT !.awaiting = TRUE])
      BY <2>2, <2>5, FailOutgoingStill
    <3>2. Kind(StartTask(x, room)) /\ Kind(StartTask(n, room)) /\ Kind(StartTask(u, room))
      BY <2>2, <2>3, <2>4, <2>5
    <3> HIDE DEF y, Kind
    <3>3. Kind(y)
      BY <2>1, <3>1, <3>2
    <3> QED
      BY <3>3 DEF Kind
  <2> QED
    BY <1>3, <2>6 DEF MayPump
<1> QED
  BY <1>1, <1>2, <1>3

LEMMA NextFrameStill ==
    ASSUME NEW x, Formed(x), x.frame \in {"none", "begin", "chunk", "end"}
    PROVE  LET y == NextFrame(x)
           IN /\ SameFlags(x, y) /\ y.control = x.control /\ y.bytes = x.bytes
              /\ y.awaiting = x.awaiting /\ y.frame \in {"none", "begin", "chunk", "end"}
<1>1. CASE x.stage = "begin"
  BY <1>1 DEF NextFrame, SameFlags, Formed, Fields
<1>2. CASE x.stage = "chunks"
  BY <1>2 DEF NextFrame, SameFlags, Formed, Fields
<1>3. CASE x.stage = "end"
  BY <1>3 DEF NextFrame, SameFlags, Formed, Fields
<1>4. CASE x.stage \notin {"begin", "chunks", "end"}
  BY <1>4 DEF NextFrame, SameFlags
<1> QED
  BY <1>1, <1>2, <1>3, <1>4

\* A step from x to y keeps Hush, and PausedIsQuiet holds of it.
Calm(x, y) == Formed(y) /\ Hush(y) /\ Still(x, y)

\* A step that leaves the flags of a pause alone is calm.
LEMMA SteadyCalm ==
    ASSUME NEW x, NEW y, Hush(x), SameFlags(x, y),
           y.control.state = x.control.state \/ ~Ctl!PauseOk(y.control),
           x.paused => y.bytes = x.bytes /\ (y.awaiting => x.awaiting)
    PROVE  Calm(x, y)
  BY DEF Calm, Hush, Still, SameFlags, Ctl!PauseOk

LEMMA CompleteOutgoingStill ==
    ASSUME NEW x, Formed(x)
    PROVE  LET y == CompleteOutgoing(x)
           IN SameFlags(x, y) /\ y.bytes = x.bytes /\ y.awaiting = x.awaiting
<1> DEFINE y == UpdateOutgoingProgress(x)
           v == Ctl!Advance(y.control, "Verifying")
           k == Ctl!Advance(v, "Committing")
           z == [y EXCEPT !.control = k, !.snap = k.state, !.ending = TRUE]
<1>1. Steady(x, y)
  BY UpdateOutgoingProgressStill
<1> HIDE DEF y
<1>2. Machine(v) /\ Machine(k)
  BY <1>1, AdvanceEffect DEF Steady, SameFlags, Formed
<1>3. \/ CompleteOutgoing(x) = x
      \/ CompleteOutgoing(x) = FailOutgoing(y)
      \/ CompleteOutgoing(x) = RemoveOutgoingRecovery(z, "complete")
  <2>1. z = Show([y EXCEPT !.control = k, !.ending = TRUE])
    BY <1>1 DEF Show, Steady, SameFlags, Formed, Fields
  <2> HIDE DEF z
  <2> QED
    BY <2>1 DEF CompleteOutgoing, y
<1> HIDE DEF k, v
<1>4. SameFlags(x, z) /\ z.bytes = x.bytes /\ z.awaiting = x.awaiting
  BY <1>1, <1>2 DEF Steady, SameFlags, Formed, Fields
<1> HIDE DEF z
<1> QED
  BY <1>1, <1>3, <1>4, FailOutgoingStill, RemoveOutgoingRecoveryStill
  DEF SameFlags, Steady

LEMMA StartNextOutgoingFileStill ==
    ASSUME NEW x, NEW k, Formed(x)
    PROVE  LET y == StartNextOutgoingFile(x, k)
           IN /\ SameFlags(x, y)
              /\ x.paused => y.bytes = x.bytes /\ (y.awaiting => x.awaiting)
<1>1. CASE x.cancelled
  BY <1>1 DEF StartNextOutgoingFile, SameFlags
<1>2. CASE ~x.cancelled /\ x.entry > N
  <2> DEFINE a == Ctl!Advance(x.control, "Transferring")
             y == IF x.control.state = "Queued" THEN [x EXCEPT !.control = a] ELSE x
  <2>1. Machine(a)
    BY AdvanceEffect DEF Formed
  <2>2. StartNextOutgoingFile(x, k) = CompleteOutgoing(y)
    BY <1>2 DEF StartNextOutgoingFile, Formed, Fields
  <2> HIDE DEF a
  <2>3. SameFlags(x, y) /\ y.bytes = x.bytes /\ y.awaiting = x.awaiting
    BY <2>1 DEF Formed, Fields, SameFlags
  <2> HIDE DEF y
  <2> QED
    BY <2>2, <2>3, CompleteOutgoingStill DEF SameFlags
<1>3. CASE ~x.cancelled /\ ~(x.entry > N) /\ ~k
  BY <1>3, FailOutgoingStill DEF StartNextOutgoingFile
<1>4. CASE ~x.cancelled /\ ~(x.entry > N) /\ k
  <2> DEFINE a == IF x.control.state \in {"Queued", "Resuming"}
                  THEN Ctl!Advance(x.control, "Transferring") ELSE x.control
             y == StartSender(x)
             u == UpdateOutgoingProgress(y)
  <2>1. Machine(a)
    BY AdvanceEffect DEF Formed
  <2>2. y = [x EXCEPT !.stage = "begin", !.pos = x.off[x.entry], !.frame = "none",
                      !.task = IF @ = "none" THEN @ ELSE "stale",
                      !.awaiting = FALSE, !.control = a]
    BY DEF StartSender, Formed, Fields
  <2> HIDE DEF a, y
  <2>3. SameFlags(x, y) /\ y.bytes = x.bytes /\ ~y.awaiting /\ y.frame = "none"
    BY <2>1, <2>2 DEF Formed, Fields, SameFlags
  <2>4. Steady(y, u) /\ u.frame = y.frame
    <3>1. u.frame = y.frame
      BY <2>3 DEF u, UpdateOutgoingProgress, Show, SameFlags, Formed, Fields
    <3> QED
      BY <2>3, <3>1, UpdateOutgoingProgressStill DEF SameFlags
  <2>5. StartNextOutgoingFile(x, k) = ScheduleSenderPump(u, k, "accept", TRUE)
    BY <1>4 DEF StartNextOutgoingFile, y
  <2> HIDE DEF u
  <2>6. PICK w : w = ScheduleSenderPump(u, k, "accept", TRUE)
    OBVIOUS
  <2>7. Formed(u) /\ u.frame \in {"none", "begin", "chunk", "end"}
    BY <2>3, <2>4 DEF SameFlags, Steady
  <2>8. SameFlags(u, w) /\ (u.paused => w = u)
    BY <2>6, <2>7, ScheduleSenderPumpStill
  <2> QED
    BY <2>3, <2>4, <2>5, <2>6, <2>8 DEF SameFlags, Steady
<1> QED
  BY <1>1, <1>2, <1>3, <1>4

\* An offer is made before there is anything to pause.
LEMMA SendOfferCalm ==
    ASSUME NEW x, NEW sent, Formed(x), Hush(x)
    PROVE  Calm(x, SendOffer(x, sent))
<1> DEFINE v == Ctl!Advance(x.control, "Offered")
           k == Ctl!Advance(v, "WaitingForAcceptance")
           y == [x EXCEPT !.offer = "awaiting", !.control = k]
<1>1. Machine(v) /\ v.state \in {x.control.state, "Offered"}
  BY AdvanceEffect DEF Formed
<1>2. Machine(k) /\ k.state \in {v.state, "WaitingForAcceptance"}
  BY <1>1, AdvanceEffect
<1>3. SendOffer(x, sent) \in {x, FailOutgoing(x), FailOutgoing(y), Show(y)}
  BY DEF SendOffer
<1>4. k.state = x.control.state \/ ~Ctl!PauseOk(k)
  BY <1>1, <1>2 DEF Ctl!PauseOk
<1> HIDE DEF v, k
<1>5. /\ SameFlags(x, y) /\ y.control = k /\ y.bytes = x.bytes /\ y.awaiting = x.awaiting
      /\ Show(y) = [y EXCEPT !.snap = k.state]
  BY <1>2 DEF Show, Formed, Fields, SameFlags
<1> HIDE DEF y
<1>6. Calm(x, Show(y))
  <2>1. /\ SameFlags(x, Show(y)) /\ Show(y).control = k
        /\ Show(y).bytes = x.bytes /\ Show(y).awaiting = x.awaiting
    BY <1>5 DEF SameFlags, Formed, Fields
  <2> QED
    BY <1>4, <2>1, SteadyCalm
<1>7. Calm(x, FailOutgoing(y))
  <2>1. /\ SameFlags(x, FailOutgoing(y)) /\ FailOutgoing(y).control = k
        /\ FailOutgoing(y).bytes = x.bytes /\ FailOutgoing(y).awaiting = x.awaiting
    BY <1>5, FailOutgoingStill DEF SameFlags
  <2> QED
    BY <1>4, <2>1, SteadyCalm
<1>8. Calm(x, FailOutgoing(x)) /\ Calm(x, x)
  BY FailOutgoingStill, SteadyCalm DEF SameFlags
<1> QED
  BY <1>3, <1>6, <1>7, <1>8

LEMMA SendResumeQueryCalm ==
    ASSUME NEW x, NEW sent, NEW supported, Formed(x), Hush(x)
    PROVE  Calm(x, SendResumeQuery(x, sent, supported))
<1> DEFINE k == Ctl!Resume(x.control)
           y == Show([x EXCEPT !.control = k, !.query = TRUE])
<1>1. \/ SendResumeQuery(x, sent, supported) \in {x, FailOutgoing(x)}
      \/ /\ x.interrupted /\ Ctl!ResumeOk(x.control)
         /\ SendResumeQuery(x, sent, supported) = y
  <2>1. y = Show([x EXCEPT !.control = Ctl!Resume(@), !.query = TRUE])
    BY DEF Formed, Fields
  <2> HIDE DEF y
  <2> QED
    BY <2>1 DEF SendResumeQuery
<1>2. ASSUME x.interrupted, Ctl!ResumeOk(x.control)
      PROVE  Calm(x, y)
  <2>1. Machine(k) /\ k.state = "Resuming"
    BY <1>2 DEF Formed, Machine, Ctl!Resume, Ctl!SetState
  <2>2. y = [x EXCEPT !.control = k, !.query = TRUE, !.snap = k.state]
    BY DEF Show, Formed, Fields
  <2> HIDE DEF k, y
  <2> QED
    BY <1>2, <2>1, <2>2 DEF Calm, Formed, Fields, Hush, Still, Ctl!PauseOk
<1>3. Calm(x, FailOutgoing(x)) /\ Calm(x, x)
  BY FailOutgoingStill, SteadyCalm DEF SameFlags
<1> QED
  BY <1>1, <1>2, <1>3

LEMMA OfferPreparedTransfersCalm ==
    ASSUME NEW x, NEW sent, NEW supported, Formed(x), Hush(x)
    PROVE  Calm(x, OfferPreparedTransfers(x, sent, supported))
<1>1. Calm(x, [x EXCEPT !.poll = TRUE]) /\ Calm(x, x)
  BY DEF Calm, Formed, Fields, Hush, Still
<1> QED
  BY <1>1, SendResumeQueryCalm, SendOfferCalm DEF OfferPreparedTransfers

-----------------------------------------------------------------------------
(* The events.                                                              *)
\* A session that has a page timer or waits for a result was not interrupted.
LEMMA Underway ==
    ASSUME IInv, ~s.cancelled, s.awaiting \/ (conn /\ s.timer)
    PROVE  ~s.interrupted /\ ~s.query
  BY DEF IInv, Good, Places

LEMMA PreparationAndPeerCalm ==
    ASSUME IInv, PInv, NEW sent,
           \/ \E built, reachable \in BOOLEAN :
                FinishManifestPreparation(built, reachable, sent)
           \/ \E supported \in BOOLEAN :
                \/ PeerReady(sent, supported) \/ OfferAgain(sent, supported)
                \/ DispatchStale(sent, supported)
    PROVE  Calm(s, s')
<1>1. Formed(s) /\ Hush(s)
  BY DEF PInv
<1>2. ASSUME NEW built, NEW reachable, FinishManifestPreparation(built, reachable, sent)
      PROVE  Calm(s, s')
  <2> DEFINE k == [state |-> "Preparing", bytes |-> 0, files |-> 0]
             y == [s EXCEPT !.manifest = TRUE, !.control = k]
  <2>1. Machine(k) /\ ~Ctl!PauseOk(k)
    BY DEF Machine, Ctl!PauseOk
  <2> HIDE DEF k
  <2>2. /\ SameFlags(s, y) /\ y.control = k /\ y.bytes = s.bytes
        /\ y.awaiting = s.awaiting
    BY <1>1, <2>1 DEF SameFlags, Formed, Fields
  <2>3. s' \in {FailOutgoing(s), SendOffer(y, sent), y, FailOutgoing(y)}
    BY <1>2 DEF FinishManifestPreparation, k
  <2> HIDE DEF y
  <2>4. Calm(s, y) /\ Calm(s, FailOutgoing(s))
    BY <1>1, <2>1, <2>2, FailOutgoingStill, SteadyCalm DEF SameFlags
  <2>5. Formed(y) /\ Hush(y)
    BY <2>4 DEF Calm
  <2>6. Calm(y, SendOffer(y, sent)) /\ Calm(y, FailOutgoing(y))
    BY <2>5, SendOfferCalm, FailOutgoingStill, SteadyCalm DEF SameFlags
  <2>7. Calm(s, SendOffer(y, sent)) /\ Calm(s, FailOutgoing(y))
    BY <2>2, <2>6 DEF Calm, Still, SameFlags
  <2> QED
    BY <2>3, <2>4, <2>7
<1>3. ASSUME NEW supported, PeerReady(sent, supported)
      PROVE  Calm(s, s')
  BY <1>1, <1>3, OfferPreparedTransfersCalm DEF PeerReady
<1>4. ASSUME NEW y, SameFlags(s, y), y.control = s.control, y.bytes = s.bytes,
             y.awaiting = s.awaiting, NEW supported,
             s' = y \/ s' = OfferPreparedTransfers(y, sent, supported)
      PROVE  Calm(s, s')
  <2>1. Calm(s, y) /\ Formed(y) /\ Hush(y)
    BY <1>1, <1>4, SteadyCalm DEF Calm
  <2>2. Calm(y, OfferPreparedTransfers(y, sent, supported))
    BY <2>1, OfferPreparedTransfersCalm
  <2> QED
    BY <1>4, <2>1, <2>2 DEF Calm, Still, SameFlags
<1>5. ASSUME NEW supported, OfferAgain(sent, supported)
      PROVE  Calm(s, s')
  <2>1. PICK y : y = [s EXCEPT !.poll = FALSE]
    OBVIOUS
  <2>2. /\ SameFlags(s, y) /\ y.control = s.control /\ y.bytes = s.bytes
        /\ y.awaiting = s.awaiting
    BY <1>1, <2>1 DEF SameFlags, Formed, Fields
  <2> QED
    BY <1>4, <1>5, <2>1, <2>2 DEF OfferAgain
<1>6. ASSUME NEW supported, DispatchStale(sent, supported)
      PROVE  Calm(s, s')
  <2>1. PICK y : y = [s EXCEPT !.task = "none"]
    OBVIOUS
  <2>2. /\ SameFlags(s, y) /\ y.control = s.control /\ y.bytes = s.bytes
        /\ y.awaiting = s.awaiting
    BY <1>1, <2>1 DEF SameFlags, Formed, Fields
  <2> QED
    BY <1>4, <1>6, <2>1, <2>2 DEF DispatchStale
<1> QED
  BY <1>2, <1>3, <1>5, <1>6

LEMMA AnswersCalm ==
    ASSUME IInv, PInv, (\E good \in BOOLEAN : HandleAccept(good)) \/ HandleReject
    PROVE  Calm(s, s')
<1>1. Formed(s) /\ Hush(s)
  BY DEF PInv
<1>2. ASSUME NEW good, HandleAccept(good)
      PROVE  Calm(s, s')
  <2> DEFINE a == [s EXCEPT !.offer = "accepted"]
             k == Ctl!Advance(s.control, "Queued")
             z == [a EXCEPT !.control = k, !.firstSave = TRUE, !.snap = k.state]
  <2>1. /\ SameFlags(s, a) /\ a.control = s.control /\ a.bytes = s.bytes
        /\ a.awaiting = s.awaiting
    BY <1>1 DEF SameFlags, Formed, Fields
  <2>2. Machine(k) /\ k.state \in {s.control.state, "Queued"}
    BY <1>1, AdvanceEffect DEF Formed
  <2>3. s' \in {PersistOutgoing(z), FailOutgoing(a), FailOutgoing(s)}
    <3>1. z = Show([a EXCEPT !.control = Ctl!Advance(@, "Queued"), !.firstSave = TRUE])
      BY <1>1, <2>2 DEF Show, Formed, Fields
    <3> HIDE DEF z
    <3> QED
      BY <1>2, <3>1 DEF HandleAccept
  <2> HIDE DEF a, k
  <2>4. /\ SameFlags(s, z) /\ z.control = k /\ z.bytes = s.bytes
        /\ z.awaiting = s.awaiting
    BY <2>1, <2>2 DEF SameFlags, Formed, Fields
  <2> HIDE DEF z
  <2>5. Calm(s, PersistOutgoing(z))
    <3>1. /\ SameFlags(s, PersistOutgoing(z)) /\ PersistOutgoing(z).control = k
          /\ PersistOutgoing(z).bytes = s.bytes /\ PersistOutgoing(z).awaiting = s.awaiting
      BY <2>4, PersistOutgoingStill DEF SameFlags
    <3>2. k.state = s.control.state \/ ~Ctl!PauseOk(k)
      BY <2>2 DEF Ctl!PauseOk
    <3> QED
      BY <1>1, <3>1, <3>2, SteadyCalm
  <2>6. Calm(s, FailOutgoing(a)) /\ Calm(s, FailOutgoing(s))
    <3>1. /\ SameFlags(s, FailOutgoing(a)) /\ FailOutgoing(a).control = s.control
          /\ FailOutgoing(a).bytes = s.bytes /\ FailOutgoing(a).awaiting = s.awaiting
      BY <2>1, FailOutgoingStill DEF SameFlags
    <3>2. /\ SameFlags(s, FailOutgoing(s)) /\ FailOutgoing(s).control = s.control
          /\ FailOutgoing(s).bytes = s.bytes /\ FailOutgoing(s).awaiting = s.awaiting
      BY <1>1, FailOutgoingStill
    <3> QED
      BY <1>1, <3>1, <3>2, SteadyCalm
  <2> QED
    BY <2>3, <2>5, <2>6
<1>3. CASE HandleReject
  <2>1. PICK k : k = Ctl!Advance(s.control, "Rejected")
    OBVIOUS
  <2>2. Machine(k) /\ k.state \in {s.control.state, "Rejected"}
    BY <1>1, <2>1, AdvanceEffect DEF Formed
  <2>3. /\ SameFlags(s, s') /\ s'.control = k /\ s'.bytes = s.bytes
        /\ s'.awaiting = s.awaiting
    BY <1>1, <1>3, <2>1, <2>2 DEF HandleReject, Show, SameFlags, Formed, Fields
  <2>4. k.state = s.control.state \/ ~Ctl!PauseOk(k)
    BY <2>2 DEF Ctl!PauseOk
  <2> QED
    BY <1>1, <2>3, <2>4, SteadyCalm
<1> QED
  BY <1>2, <1>3

\* What streams data.
LEMMA StreamCalm ==
    ASSUME IInv, PInv,
           \/ \E sent \in BOOLEAN : SendNextManifestPage(sent)
           \/ \E sink \in Sinks, room, drained \in BOOLEAN :
                WriteCapacityAvailable(drained, sink, room)
           \/ \E sink \in Sinks, room \in BOOLEAN,
                 pulled \in {"frame", "nothing", "failed"} :
                DispatchSenderPumpResult(pulled, sink, room)
           \/ \E f \in Files, ok \in BOOLEAN : HandleFileResult(f, ok)
    PROVE  Calm(s, s')
<1>1. Formed(s) /\ Hush(s) /\ s.frame \in {"none", "begin", "chunk", "end"}
  BY DEF PInv, IInv, Good, Shape
<1>2. ASSUME NEW y, SameFlags(s, y), ~s.interrupted, ~s.query,
             s.paused => y.bytes = s.bytes /\ (y.awaiting => s.awaiting)
      PROVE  Calm(s, y)
  BY <1>2 DEF Calm, SameFlags, Hush, Still
<1>3. Calm(s, FailOutgoing(s))
  BY <1>1, FailOutgoingStill, SteadyCalm
<1>4. ASSUME NEW sent \in BOOLEAN, SendNextManifestPage(sent)
      PROVE  Calm(s, s')
  <2> DEFINE y == [s EXCEPT !.timer = FALSE]
             z == [y EXCEPT !.page = @ + 1, !.timer = TRUE]
  <2>1. /\ SameFlags(s, y) /\ y.control = s.control /\ y.bytes = s.bytes
        /\ y.awaiting = s.awaiting /\ y.cancelled = s.cancelled
        /\ SameFlags(s, z) /\ z.control = s.control /\ z.bytes = s.bytes
        /\ z.awaiting = s.awaiting
    BY <1>1 DEF SameFlags, Formed, Fields
  <2>2. \/ s' \in {y, FailOutgoing(y), z}
        \/ conn /\ ~s.cancelled /\ s' = StartNextOutgoingFile(y, conn)
    BY <1>4 DEF SendNextManifestPage
  <2> HIDE DEF y, z
  <2>3. Calm(s, y) /\ Calm(s, z)
    BY <1>1, <2>1, SteadyCalm
  <2>4. Calm(s, FailOutgoing(y))
    <3>1. /\ SameFlags(s, FailOutgoing(y)) /\ FailOutgoing(y).control = s.control
          /\ FailOutgoing(y).bytes = s.bytes /\ FailOutgoing(y).awaiting = s.awaiting
      BY <2>1, FailOutgoingStill DEF SameFlags
    <3> QED
      BY <1>1, <3>1, SteadyCalm
  <2>5. ASSUME conn, ~s.cancelled PROVE Calm(s, StartNextOutgoingFile(y, conn))
    <3>1. ~s.interrupted /\ ~s.query
      BY <1>4, <2>5, Underway DEF SendNextManifestPage
    <3>2. PICK w : w = StartNextOutgoingFile(y, conn)
      OBVIOUS
    <3>3. SameFlags(y, w) /\ (y.paused => w.bytes = y.bytes /\ (w.awaiting => y.awaiting))
      BY <2>1, <3>2, StartNextOutgoingFileStill DEF SameFlags
    <3> QED
      BY <1>2, <2>1, <3>1, <3>2, <3>3 DEF SameFlags
  <2> QED
    BY <2>2, <2>3, <2>4, <2>5
<1>5. ASSUME NEW y, SameFlags(s, y), y.control.state = s.control.state,
             y.bytes = s.bytes, y.awaiting = s.awaiting,
             y.frame \in {"none", "begin", "chunk", "end"}, NEW sink, NEW room
      PROVE  Calm(s, ScheduleSenderPump(y, conn, sink, room))
  <2>1. PICK w : w = ScheduleSenderPump(y, conn, sink, room)
    OBVIOUS
  <2>2. /\ SameFlags(y, w) /\ w.control.state = y.control.state
        /\ y.paused => w = y
    BY <1>5, <2>1, ScheduleSenderPumpStill DEF SameFlags
  <2>3. SameFlags(s, w) /\ w.control.state = s.control.state
        /\ (s.paused => w.bytes = s.bytes /\ (w.awaiting => s.awaiting))
    BY <1>5, <2>2 DEF SameFlags
  <2> QED
    BY <1>1, <2>1, <2>3, SteadyCalm
<1>6. ASSUME NEW sink, NEW room, NEW drained, WriteCapacityAvailable(drained, sink, room)
      PROVE  Calm(s, s')
  BY <1>1, <1>5, <1>6 DEF WriteCapacityAvailable, SameFlags
<1>7. ASSUME NEW pulled, NEW sink, NEW room, DispatchSenderPumpResult(pulled, sink, room)
      PROVE  Calm(s, s')
  <2> DEFINE y == [s EXCEPT !.task = "none"]
             z == IF pulled = "frame" THEN NextFrame(y) ELSE y
  <2>1. /\ SameFlags(s, y) /\ y.control = s.control /\ y.bytes = s.bytes
        /\ y.awaiting = s.awaiting /\ y.frame = s.frame
    BY <1>1 DEF SameFlags, Formed, Fields
  <2>2. s' \in {y, FailOutgoing(y), ScheduleSenderPump(z, conn, sink, room)}
    BY <1>7 DEF DispatchSenderPumpResult
  <2> HIDE DEF y
  <2>3. /\ SameFlags(s, z) /\ z.control = s.control /\ z.bytes = s.bytes
        /\ z.awaiting = s.awaiting /\ z.frame \in {"none", "begin", "chunk", "end"}
    <3> QED
      BY <1>1, <2>1, NextFrameStill DEF SameFlags
  <2> HIDE DEF z
  <2>4. Calm(s, FailOutgoing(y))
    <3>1. /\ SameFlags(s, FailOutgoing(y)) /\ FailOutgoing(y).control = s.control
          /\ FailOutgoing(y).bytes = s.bytes /\ FailOutgoing(y).awaiting = s.awaiting
      BY <2>1, FailOutgoingStill DEF SameFlags
    <3> QED
      BY <1>1, <3>1, SteadyCalm
  <2>5. Calm(s, y)
    BY <1>1, <2>1, SteadyCalm
  <2>6. Calm(s, ScheduleSenderPump(z, conn, sink, room))
    BY <1>5, <2>3
  <2> QED
    BY <2>2, <2>4, <2>5, <2>6
<1>8. ASSUME NEW f, NEW ok, HandleFileResult(f, ok)
      PROVE  Calm(s, s')
  <2> DEFINE y == [s EXCEPT !.files = @ + 1, !.entry = @ + 1, !.stage = "none",
                            !.frame = "none", !.awaiting = FALSE]
             u == UpdateOutgoingProgress(y)
             w == StartNextOutgoingFile(u, conn)
  <2>1. /\ SameFlags(s, y) /\ y.control = s.control /\ y.bytes = s.bytes
        /\ ~y.awaiting /\ y.cancelled = s.cancelled
    BY <1>1 DEF SameFlags, Formed, Fields
  <2>2. s' = FailOutgoing(s) \/ s' = w
    BY <1>8 DEF HandleFileResult
  <2> HIDE DEF y
  <2>3. /\ SameFlags(s, u) /\ u.control.state = s.control.state
        /\ u.bytes = s.bytes /\ ~u.awaiting /\ u.cancelled = s.cancelled
    BY <2>1, UpdateOutgoingProgressStill DEF Steady, SameFlags
  <2> HIDE DEF u
  <2>4. SameFlags(u, w) /\ (u.paused => w.bytes = u.bytes /\ (w.awaiting => u.awaiting))
    BY <2>3, StartNextOutgoingFileStill DEF SameFlags
  <2>5. s.cancelled => w = u
    BY <2>3 DEF StartNextOutgoingFile
  <2> HIDE DEF w
  <2>6. Calm(s, w)
    <3>1. CASE s.cancelled
      BY <1>1, <2>3, <2>5, <3>1, SteadyCalm
    <3>2. CASE ~s.cancelled
      <4>1. ~s.interrupted /\ ~s.query
        BY <1>8, <3>2, Underway DEF HandleFileResult
      <4> QED
        BY <1>2, <2>3, <2>4, <4>1 DEF SameFlags
    <3> QED
      BY <3>1, <3>2
  <2> QED
    BY <1>3, <2>2, <2>6
<1> QED
  BY <1>4, <1>6, <1>7, <1>8

\* The receiver's report replaces the counters of a session that is not paused.
LEMMA ResumeResponseCalm ==
    ASSUME IInv, PInv,
           (\E reported : HandleResumeResponse(reported)) \/ HandleBadResumeResponse
    PROVE  Calm(s, s')
<1>1. Formed(s) /\ Hush(s)
  BY DEF PInv
<1>2. ASSUME NEW reported, HandleResumeResponse(reported)
      PROVE  Calm(s, s')
  <2> DEFINE a == RestartAt(s, reported)
             b == Rehydrated(a)
             u == UpdateOutgoingProgress(b)
             v == PersistOutgoing(u)
             Free(y) == Formed(y) /\ ~y.interrupted /\ ~y.query
  <2>1. Free(a)
    BY <1>1 DEF RestartAt, Formed, Fields
  <2> HIDE DEF a
  <2>2. Free(b)
    <3>1. CASE ~a.hydrated
      BY <2>1, <3>1 DEF Rehydrated
    <3>2. CASE a.hydrated
      <4>1. PICK k : k = [state |-> "Resuming", bytes |-> a.bytes, files |-> a.files]
        OBVIOUS
      <4>2. Machine(k)
        BY <4>1 DEF Machine
      <4>3. b = Show([a EXCEPT !.hydrated = FALSE, !.control = k])
        BY <3>2, <4>1 DEF Rehydrated
      <4> QED
        BY <2>1, <4>2, <4>3 DEF Show, Formed, Fields
    <3> QED
      BY <3>1, <3>2
  <2> HIDE DEF b
  <2>3. Free(u)
    BY <2>2, UpdateOutgoingProgressStill DEF Steady, SameFlags
  <2> HIDE DEF u
  <2>4. Free(v)
    BY <2>3, PersistOutgoingStill DEF SameFlags
  <2>5. s' = [v EXCEPT !.timer = TRUE] /\ s.query
    BY <1>2 DEF HandleResumeResponse, a, b, u
  <2> HIDE DEF v
  <2>6. Free(s')
    BY <2>4, <2>5 DEF Formed, Fields
  <2> QED
    BY <1>1, <2>5, <2>6 DEF Calm, Hush, Still
<1>3. CASE HandleBadResumeResponse
  BY <1>1, <1>3, FailOutgoingStill, SteadyCalm DEF HandleBadResumeResponse
<1> QED
  BY <1>2, <1>3

\* Only a session that streams is paused, only a paused one resumed.
LEMMA PauseCalm ==
    ASSUME IInv, PInv,
           \/ \E sent \in BOOLEAN : PauseOutgoing(sent)
           \/ RemotePause
           \/ \E sink \in Sinks, room \in BOOLEAN :
                \/ \E sent \in BOOLEAN : ResumeOutgoing(sent, sink, room)
                \/ RemoteResume(sink, room)
    PROVE  Calm(s, s')
<1>1. Formed(s) /\ Hush(s)
  BY DEF PInv
<1>2. CASE (\E sent \in BOOLEAN : PauseOutgoing(sent)) \/ RemotePause
  <2>1. PICK k : k = Ctl!Pause(s.control)
    OBVIOUS
  <2>2. PICK y : y = [s EXCEPT !.control = k, !.paused = TRUE, !.snap = k.state]
    OBVIOUS
  <2>3. y = Show([s EXCEPT !.control = Ctl!Pause(@), !.paused = TRUE])
    BY <1>1, <2>1, <2>2 DEF Show, Formed, Fields
  <2>4. s' \in {y, FailOutgoing(y)} /\ ~s.paused /\ Ctl!PauseOk(s.control)
    BY <1>2, <2>3 DEF PauseOutgoing, RemotePause
  <2>5. Machine(k)
    BY <1>1, <2>1 DEF Formed, Machine, Ctl!Pause, Ctl!SetState
  <2>6. /\ Formed(y) /\ y.interrupted = s.interrupted /\ y.query = s.query
        /\ y.paused
    BY <1>1, <2>2, <2>5 DEF Formed, Fields
  <2>7. /\ Formed(s') /\ s'.interrupted = s.interrupted /\ s'.query = s.query
        /\ s'.paused
    BY <2>4, <2>6, FailOutgoingStill DEF SameFlags
  <2>8. ~s.interrupted /\ ~s.query
    BY <1>1, <2>4 DEF Hush
  <2> QED
    BY <2>4, <2>7, <2>8 DEF Calm, Hush, Still
<1>3. ASSUME NEW sent \in BOOLEAN, NEW sink, NEW room,
             ResumeOutgoing(sent, sink, room) \/ RemoteResume(sink, room)
      PROVE  Calm(s, s')
  <2>1. PICK k : k = Ctl!Advance(Ctl!Resume(s.control), "Transferring")
    OBVIOUS
  <2>2. Machine(k)
    <3>1. Machine(Ctl!Resume(s.control))
      BY <1>1 DEF Formed, Machine, Ctl!Resume, Ctl!SetState
    <3> QED
      BY <2>1, <3>1, AdvanceEffect
  <2>3. PICK y : y = Unpause(s)
    OBVIOUS
  <2>4. y = [s EXCEPT !.control = k, !.snap = k.state, !.paused = FALSE]
    BY <1>1, <2>1, <2>3 DEF Unpause, Show, Formed, Fields
  <2>5. /\ Formed(y) /\ y.interrupted = s.interrupted /\ y.query = s.query
        /\ ~y.paused /\ y.frame = s.frame
    BY <1>1, <2>2, <2>4 DEF Formed, Fields
  <2>6. PICK w : w = ScheduleSenderPump(y, conn, sink, room)
    OBVIOUS
  <2>7. y.frame \in {"none", "begin", "chunk", "end"}
    BY <2>5 DEF IInv, Good, Shape
  <2>8. SameFlags(y, w)
    BY <2>5, <2>6, <2>7, ScheduleSenderPumpStill
  <2>9. s' \in {w, FailOutgoing(y), Show(w)} /\ s.paused
    BY <1>3, <2>3, <2>6 DEF ResumeOutgoing, RemoteResume
  <2>10. SameFlags(y, FailOutgoing(y))
    BY <2>5, FailOutgoingStill
  <2>11. SameFlags(y, Show(w))
    BY <2>8 DEF SameFlags, Show, Formed, Fields
  <2>12. SameFlags(y, s')
    BY <2>8, <2>9, <2>10, <2>11
  <2> QED
    BY <1>1, <2>5, <2>9, <2>12 DEF Calm, Hush, Still, SameFlags
<1> QED
  BY <1>2, <1>3

LEMMA EndsCalm ==
    ASSUME IInv, PInv, CancelOutgoing \/ RemoteCancel
    PROVE  Calm(s, s')
<1>1. Formed(s) /\ Hush(s)
  BY DEF PInv
<1>2. CASE CancelOutgoing
  <2>1. PICK y : y = [s EXCEPT !.cancelled = TRUE, !.ending = TRUE]
    OBVIOUS
  <2>2. /\ SameFlags(s, y) /\ y.control = s.control /\ y.bytes = s.bytes
        /\ y.awaiting = s.awaiting
    BY <1>1, <2>1 DEF SameFlags, Formed, Fields
  <2>3. s' = RemoveOutgoingRecovery(y, "cancel")
    BY <1>2, <2>1 DEF CancelOutgoing
  <2>4. /\ SameFlags(s, s') /\ s'.control = s.control /\ s'.bytes = s.bytes
        /\ s'.awaiting = s.awaiting
    BY <2>2, <2>3, RemoveOutgoingRecoveryStill DEF SameFlags
  <2> QED
    BY <1>1, <2>4, SteadyCalm
<1>3. CASE RemoteCancel
  <2>1. PICK k : k = Ctl!Cancel(s.control)
    OBVIOUS
  <2>2. Machine(k) /\ k.state \in {s.control.state, "Cancelling"}
    BY <1>1, <2>1 DEF Formed, Machine, Ctl!Cancel, Ctl!SetState
  <2>3. PICK y : y = [s EXCEPT !.control = k, !.cancelled = TRUE, !.ending = TRUE,
                               !.snap = k.state]
    OBVIOUS
  <2>4. /\ SameFlags(s, y) /\ y.control = k /\ y.bytes = s.bytes
        /\ y.awaiting = s.awaiting
    BY <1>1, <2>2, <2>3 DEF SameFlags, Formed, Fields
  <2>5. s' = RemoveOutgoingRecovery(y, "remoteCancel")
    BY <1>1, <1>3, <2>1, <2>3 DEF RemoteCancel, Show, Formed, Fields
  <2>6. /\ SameFlags(s, s') /\ s'.control = k /\ s'.bytes = s.bytes
        /\ s'.awaiting = s.awaiting
    BY <2>4, <2>5, RemoveOutgoingRecoveryStill DEF SameFlags
  <2>7. k.state = s.control.state \/ ~Ctl!PauseOk(k)
    BY <2>2 DEF Ctl!PauseOk
  <2> QED
    BY <1>1, <2>6, <2>7, SteadyCalm
<1> QED
  BY <1>2, <1>3

\* The end of a disk task; a completion handler leaves no state of a pause.
LEMMA DiskCalm ==
    ASSUME IInv, PInv, NEW ok \in BOOLEAN, SaveFinished(ok) \/ RemovalFinished(ok)
    PROVE  Calm(s, s')
<1>1. Formed(s) /\ Hush(s)
  BY DEF PInv
<1>2. ASSUME NEW y, SameFlags(s, y), y.control = s.control, y.bytes = s.bytes,
             y.awaiting = s.awaiting
      PROVE  Calm(s, y) /\ Calm(s, StartSave(y)) /\ Calm(s, FailOutgoing(y))
  <2>1. /\ SameFlags(s, StartSave(y)) /\ StartSave(y).control = s.control
        /\ StartSave(y).bytes = s.bytes /\ StartSave(y).awaiting = s.awaiting
    BY <1>2, StartSaveStill DEF SameFlags
  <2>2. /\ SameFlags(s, FailOutgoing(y)) /\ FailOutgoing(y).control = s.control
        /\ FailOutgoing(y).bytes = s.bytes /\ FailOutgoing(y).awaiting = s.awaiting
    BY <1>2, FailOutgoingStill DEF SameFlags
  <2> QED
    BY <1>1, <1>2, <2>1, <2>2, SteadyCalm
<1>3. CASE SaveFinished(ok)
  <2>1. PICK y, n, z, r :
          /\ y = [s EXCEPT !.saving = FALSE]
          /\ n = [y EXCEPT !.firstSave = FALSE]
          /\ z = [y EXCEPT !.firstSave = FALSE,
                           !.timer = @ \/ (s.firstSave /\ ~s.cancelled /\
                                           ~s.interrupted /\ ~s.ending)]
          /\ r = StartRemoval(y)
    OBVIOUS
  <2>2. s' \in {r, StartSave(y), FailOutgoing(n), z}
    BY <1>3, <2>1 DEF SaveFinished
  <2>3. /\ SameFlags(s, y) /\ y.control = s.control /\ y.bytes = s.bytes
        /\ y.awaiting = s.awaiting
    BY <1>1, <2>1 DEF SameFlags, Formed, Fields
  <2>4. /\ SameFlags(s, n) /\ n.control = s.control /\ n.bytes = s.bytes
        /\ n.awaiting = s.awaiting
    BY <2>1, <2>3 DEF SameFlags, Formed, Fields
  <2>5. /\ SameFlags(s, z) /\ z.control = s.control /\ z.bytes = s.bytes
        /\ z.awaiting = s.awaiting
    BY <2>1, <2>3 DEF SameFlags, Formed, Fields
  <2>6. /\ SameFlags(s, r) /\ r.control = s.control /\ r.bytes = s.bytes
        /\ r.awaiting = s.awaiting
    BY <2>1, <2>3 DEF SameFlags, Formed, Fields, StartRemoval
  <2> QED
    BY <1>2, <2>2, <2>3, <2>4, <2>5, <2>6
<1>4. CASE RemovalFinished(ok)
  <2> DEFINE y == [s EXCEPT !.removing = FALSE, !.ending = FALSE]
             Over(k) == Machine(k) /\ (k.state = s.control.state \/ ~Ctl!PauseOk(k))
             Left(v) == SameFlags(s, v) /\ Over(v.control) /\ v.bytes = s.bytes
                            /\ v.awaiting = s.awaiting
  <2>1. SameFlags(s, y) /\ y.control = s.control /\ y.bytes = s.bytes
        /\ y.awaiting = s.awaiting /\ y.then = s.then
    BY <1>1 DEF SameFlags, Formed, Fields
  <2>2. s.then \in {"complete", "cancel", "remoteCancel", "fail"}
    BY <1>4 DEF RemovalFinished, IInv, Good, Shape, Removal
  <2>3. s' = [Completion(y, ok) EXCEPT !.then = "none"]
    BY <1>4 DEF RemovalFinished
  <2> HIDE DEF y
  <2>4. ASSUME NEW v, NEW k, NEW n, NEW b, Over(k),
               v = [y EXCEPT !.control = k, !.snap = n, !.cancelled = b]
        PROVE  Left(v)
    BY <2>1, <2>4 DEF SameFlags, Formed, Fields
  <2>5. Left(FinishOutgoingFailure(y))
    <3>1. CASE HasControl(y) /\ ~Ctl!IsTerminal(y.control.state)
      <4>1. PICK k : k = Ctl!Fail(y.control)
        OBVIOUS
      <4>2. Over(k)
        BY <2>1, <4>1 DEF SameFlags, Formed, Machine, Ctl!Fail, Ctl!SetState, Ctl!PauseOk
      <4>3. FinishOutgoingFailure(y) = [y EXCEPT !.control = k, !.snap = k.state,
                                                 !.cancelled = TRUE]
        BY <2>1, <3>1, <4>1 DEF FinishOutgoingFailure, Show, HasControl, SameFlags,
                                Formed, Fields
      <4> HIDE DEF Over, Left
      <4> QED
        BY <2>4, <4>2, <4>3
    <3>2. CASE ~(HasControl(y) /\ ~Ctl!IsTerminal(y.control.state))
      <4>1. Over(y.control)
        BY <2>1 DEF SameFlags, Formed
      <4>2. FinishOutgoingFailure(y) \in
              {[y EXCEPT !.control = y.control, !.snap = y.snap, !.cancelled = TRUE],
               [y EXCEPT !.control = y.control, !.snap = "Failed", !.cancelled = TRUE]}
        BY <2>1, <3>2 DEF FinishOutgoingFailure, HasControl, SameFlags, Formed, Fields
      <4> HIDE DEF Over, Left
      <4> QED
        BY <2>4, <4>1, <4>2
    <3> QED
      BY <3>1, <3>2
  <2>6. ASSUME NEW k, Over(k)
        PROVE  Show([y EXCEPT !.control = k]) =
                 [y EXCEPT !.control = k, !.snap = k.state, !.cancelled = y.cancelled]
    BY <2>1 DEF Show, SameFlags, Formed, Fields
  <2>7. PICK k1, k2, k3 :
          /\ k1 = Ctl!Advance(s.control, "Completed")
          /\ k2 = Ctl!ConfirmCancelled(Ctl!Cancel(s.control))
          /\ k3 = Ctl!ConfirmCancelled(s.control)
    OBVIOUS
  <2>8. Over(k1) /\ Over(k2) /\ Over(k3)
    <3>1. Machine(s.control)
      BY <1>1 DEF Formed
    <3>2. Over(k1)
      BY <2>7, <3>1, AdvanceEffect DEF Ctl!PauseOk
    <3>3. Over(k2)
      BY <2>7, <3>1 DEF Machine, Ctl!ConfirmCancelled, Ctl!ConfirmCancelledOk,
                        Ctl!Cancel, Ctl!SetState, Ctl!PauseOk
    <3>4. Over(k3)
      BY <2>7, <3>1 DEF Machine, Ctl!ConfirmCancelled, Ctl!ConfirmCancelledOk,
                        Ctl!SetState, Ctl!PauseOk
    <3> QED
      BY <3>2, <3>3, <3>4
  <2>9. Completion(y, ok) \in
          {FinishOutgoingFailure(y), Show([y EXCEPT !.control = k1]),
           Show([y EXCEPT !.control = k2]), Show([y EXCEPT !.control = k3]),
           [y EXCEPT !.control = y.control, !.snap = "Cancelled",
                     !.cancelled = y.cancelled]}
    <3>1. /\ [y EXCEPT !.control = Ctl!Advance(@, "Completed")] = [y EXCEPT !.control = k1]
          /\ [y EXCEPT !.control = Ctl!ConfirmCancelled(Ctl!Cancel(@))]
               = [y EXCEPT !.control = k2]
          /\ [y EXCEPT !.control = Ctl!ConfirmCancelled(@)] = [y EXCEPT !.control = k3]
      BY <2>1, <2>7 DEF SameFlags, Formed, Fields
    <3>2. [y EXCEPT !.snap = "Cancelled"] =
            [y EXCEPT !.control = y.control, !.snap = "Cancelled",
                      !.cancelled = y.cancelled]
      BY <2>1 DEF SameFlags, Formed, Fields
    <3> QED
      BY <2>1, <2>2, <3>1, <3>2 DEF Completion
  <2>10. Over(y.control)
    BY <2>1 DEF SameFlags, Formed
  <2>11. Left(Completion(y, ok))
    <3> HIDE DEF Over, Left
    <3>1. ASSUME NEW k, Over(k)
          PROVE  Left(Show([y EXCEPT !.control = k]))
      BY <2>4, <2>6, <3>1
    <3>2. Left([y EXCEPT !.control = y.control, !.snap = "Cancelled",
                           !.cancelled = y.cancelled])
      BY <2>4, <2>10
    <3> QED
      BY <2>5, <2>8, <2>9, <3>1, <3>2
  <2> HIDE DEF Over
  <2>12. SameFlags(s, s') /\ s'.bytes = s.bytes /\ s'.awaiting = s.awaiting
         /\ Over(s'.control)
    BY <2>3, <2>11 DEF SameFlags, Formed, Fields
  <2> QED
    BY <1>1, <2>12, SteadyCalm DEF Over
<1> QED
  BY <1>3, <1>4

\* Losses, crashes and restarts end a pause.
LEMMA LossCalm ==
    ASSUME IInv, PInv, ConnectionLost \/ Crash \/ Hydrate
    PROVE  Calm(s, s')
<1>1. Formed(s) /\ Hush(s)
  BY DEF PInv
<1>2. CASE ConnectionLost
  <2> DEFINE y == [s EXCEPT !.paused = FALSE, !.query = FALSE, !.awaiting = FALSE,
                            !.task = IF @ = "none" THEN @ ELSE "stale",
                            !.stage = "none", !.frame = "none"]
             k == Ctl!Interrupt(s.control)
             z == [y EXCEPT !.control = k, !.interrupted = TRUE, !.snap = k.state]
             n == [y EXCEPT !.interrupted = FALSE]
             Cold(v) == Formed(v) /\ ~v.paused /\ Hush(v)
  <2>1. Formed(n) /\ ~n.paused /\ ~n.query /\ ~n.interrupted
    BY <1>1 DEF Formed, Fields
  <2>2. Ctl!InterruptOk(s.control) => Cold(z)
    <3>1. ASSUME Ctl!InterruptOk(s.control)
          PROVE  Machine(k) /\ k.state = "Interrupted"
      BY <1>1, <3>1 DEF Formed, Machine, Ctl!Interrupt, Ctl!SetState
    <3> HIDE DEF k
    <3> QED
      BY <1>1, <3>1 DEF Formed, Fields, Hush, Ctl!PauseOk
  <2>3. \/ s' = s \/ s' = FailOutgoing(n)
        \/ Ctl!InterruptOk(s.control) /\ s' = PersistOutgoing(z)
    <3>1. z = Show([y EXCEPT !.control = Ctl!Interrupt(@), !.interrupted = TRUE])
      BY <1>1 DEF Show, Formed, Fields
    <3> HIDE DEF z
    <3> QED
      BY <1>2, <3>1 DEF ConnectionLost, MarkOutgoingConnectionLost
  <2> HIDE DEF y, z, n
  <2>4. ASSUME Ctl!InterruptOk(s.control)
        PROVE  Cold(PersistOutgoing(z))
    BY <2>2, <2>4, PersistOutgoingStill DEF SameFlags, Hush
  <2>5. Cold(FailOutgoing(n))
    BY <2>1, FailOutgoingStill DEF SameFlags, Hush
  <2>6. s' = s \/ Cold(s')
    BY <2>3, <2>4, <2>5
  <2> QED
    BY <1>1, <2>6 DEF Calm, Still
<1>3. CASE Crash
  BY <1>3 DEF Crash, FreshSession, NoControl, Calm, Formed, Fields, Machine, Hush, Still
<1>4. CASE Hydrate
  BY <1>4 DEF Hydrate, FreshSession, NoControl, Calm, Formed, Fields, Machine, Hush,
              Still, Ctl!PauseOk
<1> QED
  BY <1>2, <1>3, <1>4

-----------------------------------------------------------------------------
LEMMA NextCalm ==
    ASSUME IInv, PInv, [Next]_vars
    PROVE  Calm(s, s')
<1>1. CASE Revoke \/ Unheard \/ UNCHANGED vars
  BY <1>1 DEF Revoke, Unheard, ReplaceConnection, FormerClosed, SuccessorChanges,
              vars, PInv, Calm, Still
<1>2. CASE \E f \in Files, ok \in BOOLEAN : HandleFileResult(f, ok)
  BY <1>2, StreamCalm
<1>3. CASE \E ok \in BOOLEAN : SaveFinished(ok) \/ RemovalFinished(ok)
  BY <1>3, DiskCalm
<1>4. CASE \E sent \in BOOLEAN :
             \/ \E built, reachable \in BOOLEAN :
                  FinishManifestPreparation(built, reachable, sent)
             \/ \E supported \in BOOLEAN :
                  \/ PeerReady(sent, supported) \/ OfferAgain(sent, supported)
                  \/ DispatchStale(sent, supported)
  BY <1>4, PreparationAndPeerCalm
<1>5. CASE \/ \E sent \in BOOLEAN : SendNextManifestPage(sent)
           \/ \E sink \in Sinks, room, drained \in BOOLEAN :
                WriteCapacityAvailable(drained, sink, room)
           \/ \E sink \in Sinks, room \in BOOLEAN,
                 pulled \in {"frame", "nothing", "failed"} :
                DispatchSenderPumpResult(pulled, sink, room)
  BY <1>5, StreamCalm
<1>6. CASE \/ \E sent \in BOOLEAN : PauseOutgoing(sent)
           \/ RemotePause
           \/ \E sink \in Sinks, room \in BOOLEAN :
                \/ \E sent \in BOOLEAN : ResumeOutgoing(sent, sink, room)
                \/ RemoteResume(sink, room)
  BY <1>6, PauseCalm
<1>7. CASE (\E good \in BOOLEAN : HandleAccept(good)) \/ HandleReject
  BY <1>7, AnswersCalm
<1>8. CASE (\E reported : HandleResumeResponse(reported)) \/ HandleBadResumeResponse
  BY <1>8, ResumeResponseCalm
<1>9. CASE CancelOutgoing \/ RemoteCancel
  BY <1>9, EndsCalm
<1>10. CASE ConnectionLost \/ Crash \/ Hydrate
  BY <1>10, LossCalm
<1> QED
  BY <1>1, <1>2, <1>3, <1>4, <1>5, <1>6, <1>7, <1>8, <1>9, <1>10 DEF Next, Unheard

LEMMA PauseInvariant == Spec => []PInv
<1>1. Init => PInv
  BY DEF Init, FreshSession, NoControl, PInv, Formed, Fields, Machine, Hush
<1>2. IInv /\ PInv /\ [Next]_vars => PInv'
  BY NextCalm DEF Calm, PInv, Formed, Hush
<1> QED
  BY <1>1, <1>2, InvariantHolds, PTL DEF Spec

\* While a transfer is paused no progress is counted and no result becomes
\* due, whatever worker results, capacity signals and frames arrive
\* (scheduleSenderPump; handleResumeResponse meets no paused session).
THEOREM PausedSendsNothing == Spec => PausedIsQuiet
<1>1. IInv /\ PInv /\ [Next]_vars =>
        [s.paused /\ s'.paused =>
           s'.bytes = s.bytes /\ (s'.awaiting => s.awaiting)]_vars
  BY NextCalm DEF Calm, Still
<1> QED
  BY <1>1, InvariantHolds, PauseInvariant, PTL DEF Spec, PausedIsQuiet

-----------------------------------------------------------------------------
(* Chunks before a file.  A recursive function is a choice, so that there   *)
(* is one with its equation is proved first, by the least counterexample.   *)
Prefix(g, n) ==
    \A f \in 1..n : g[f] = IF f = 1 THEN 0 ELSE g[f - 1] + Size[f - 1]

LEMMA PrefixExists ==
    \E g \in [1..N + 1 -> Nat] : Prefix(g, N + 1)
<1> DEFINE Has(n) == \E g \in [1..n -> Nat] : Prefix(g, n)
           Bad == {n \in 0..N + 1 : ~Has(n)}
<1>0. N \in Nat /\ Size \in [1..N -> Nat]
  BY OutgoingAssumption
<1> HIDE DEF Has
<1> SUFFICES Bad = {}
  <2>1. N + 1 \in 0..N + 1
    BY <1>0
  <2> QED
    BY <2>1 DEF Has
<1> SUFFICES ASSUME Bad # {} PROVE FALSE
  OBVIOUS
<1>1. Bad \subseteq Nat
  BY <1>0
<1> HIDE DEF Bad
<1>2. PICK n \in Bad : \A m \in Bad : n <= m
  BY <1>1, LeastOf
<1>3. n \in 0..N + 1 /\ ~Has(n)
  BY DEF Bad
<1>4. Has(0)
  <2>1. [f \in 1..0 |-> 0] \in [1..0 -> Nat]
    OBVIOUS
  <2>2. Prefix([f \in 1..0 |-> 0], 0)
    BY DEF Prefix
  <2> QED
    BY <2>1, <2>2 DEF Has
<1>5. n # 0 /\ n - 1 \in 0..N + 1
  BY <1>0, <1>3, <1>4
<1>6. Has(n - 1)
  <2>1. n - 1 \notin Bad
    BY <1>0, <1>2, <1>3, <1>5
  <2> QED
    BY <1>5, <2>1 DEF Bad
<1>7. PICK h \in [1..n - 1 -> Nat] : Prefix(h, n - 1)
  BY <1>6 DEF Has
<1> DEFINE last == IF n = 1 THEN 0 ELSE h[n - 1] + Size[n - 1]
           g == [f \in 1..n |-> IF f < n THEN h[f] ELSE last]
<1>8. last \in Nat
  BY <1>0, <1>3, <1>5
<1>9. g \in [1..n -> Nat] /\ (\A f \in 1..n - 1 : g[f] = h[f]) /\ g[n] = last
  BY <1>0, <1>3, <1>5, <1>8
<1>10. Prefix(g, n)
  <2> SUFFICES ASSUME NEW f \in 1..n
               PROVE  g[f] = IF f = 1 THEN 0 ELSE g[f - 1] + Size[f - 1]
    BY DEF Prefix
  <2> HIDE DEF g
  <2>1. CASE f = n
    <3>1. n # 1 => n - 1 \in 1..n - 1
      BY <1>0, <1>3, <1>5
    <3> QED
      BY <1>9, <2>1, <3>1
  <2>2. CASE f # n
    <3>1. f \in 1..n - 1 /\ (f # 1 => f - 1 \in 1..n - 1)
      BY <1>0, <1>3, <1>5, <2>2
    <3> QED
      BY <1>7, <1>9, <3>1 DEF Prefix
  <2> QED
    BY <2>1, <2>2
<1> HIDE DEF g
<1> QED
  BY <1>3, <1>9, <1>10 DEF Has

LEMMA BeforeType ==
    Before \in [1..N + 1 -> Nat] /\ Prefix(Before, N + 1)
<1>1. PICK g \in [1..N + 1 -> Nat] : Prefix(g, N + 1)
  BY PrefixExists
<1>2. g = [f \in 1..N + 1 |-> IF f = 1 THEN 0 ELSE g[f - 1] + Size[f - 1]]
  BY <1>1 DEF Prefix
<1>3. Before = [f \in 1..N + 1 |-> IF f = 1 THEN 0 ELSE Before[f - 1] + Size[f - 1]]
  BY <1>2 DEF Before
<1>4. Prefix(Before, N + 1) /\ DOMAIN Before = 1..N + 1
  BY <1>3 DEF Prefix
<1> HIDE DEF Before
<1>5. \A f \in 1..N + 1 : Before[f] = g[f]
  <2> DEFINE Bad == {f \in 1..N + 1 : Before[f] # g[f]}
  <2> SUFFICES ASSUME Bad # {} PROVE FALSE
    OBVIOUS
  <2>0. N \in Nat
    BY OutgoingAssumption
  <2>1. Bad \subseteq Nat
    BY <2>0
  <2> HIDE DEF Bad
  <2>2. PICK f \in Bad : \A m \in Bad : f <= m
    BY <2>1, LeastOf
  <2>3. f \in 1..N + 1 /\ Before[f] # g[f]
    BY DEF Bad
  <2>4. f # 1
    BY <1>1, <1>4, <2>3 DEF Prefix
  <2>5. f - 1 \in 1..N + 1
    BY <2>0, <2>3, <2>4
  <2>6. f - 1 \notin Bad
    BY <2>0, <2>2, <2>3, <2>5
  <2>7. Before[f - 1] = g[f - 1]
    BY <2>5, <2>6 DEF Bad
  <2> QED
    BY <1>1, <1>4, <2>3, <2>4, <2>7 DEF Prefix
<1>6. Before = g
  BY <1>3, <1>4, <1>5
<1> QED
  BY <1>1, <1>4, <1>6

LEMMA BeforeGrows ==
    /\ N \in Nat /\ Before \in [1..N + 1 -> Nat] /\ TotalBytes \in Nat
    /\ Before[1] = 0
    /\ \A f \in Files : f + 1 \in 1..N + 1 /\ Before[f + 1] = Before[f] + Size[f]
    /\ \A f \in 1..N + 1 : Before[f] <= TotalBytes
<1>0. N \in Nat /\ Size \in [1..N -> Nat]
  BY OutgoingAssumption
<1>1. Before \in [1..N + 1 -> Nat] /\ Prefix(Before, N + 1)
  BY BeforeType
<1>2. TotalBytes \in Nat /\ Before[1] = 0
  BY <1>0, <1>1 DEF Prefix, TotalBytes
<1>3. \A f \in Files : f + 1 \in 1..N + 1 /\ Before[f + 1] = Before[f] + Size[f]
  <2> SUFFICES ASSUME NEW f \in Files
               PROVE  f + 1 \in 1..N + 1 /\ Before[f + 1] = Before[f] + Size[f]
    OBVIOUS
  <2>1. f + 1 \in 1..N + 1 /\ f + 1 # 1 /\ (f + 1) - 1 = f
    BY <1>0 DEF Files
  <2> QED
    BY <1>1, <2>1 DEF Prefix
<1>4. \A f \in 1..N + 1 : Before[f] <= TotalBytes
  <2> DEFINE Good2 == {f \in 0..N : ~(Before[N + 1 - f] <= TotalBytes)}
  <2>1. Good2 \subseteq Nat
    BY <1>0
  <2>2. Good2 = {}
    <3> SUFFICES ASSUME Good2 # {} PROVE FALSE
      OBVIOUS
    <3> HIDE DEF Good2
    <3>1. PICK f \in Good2 : \A m \in Good2 : f <= m
      BY <2>1, LeastOf
    <3>2. f \in 0..N /\ ~(Before[N + 1 - f] <= TotalBytes)
      BY DEF Good2
    <3>3. f # 0
      BY <1>0, <1>1, <1>2, <3>2 DEF TotalBytes
    <3>4. f - 1 \in 0..N /\ f - 1 \notin Good2 /\ N + 1 - f \in Files
          /\ (N + 1 - f) + 1 = N + 1 - (f - 1)
      BY <1>0, <3>1, <3>2, <3>3 DEF Files
    <3>5. Before[N + 1 - (f - 1)] <= TotalBytes
      BY <3>4 DEF Good2
    <3>6. Before[N + 1 - (f - 1)] = Before[N + 1 - f] + Size[N + 1 - f]
      BY <1>3, <3>4
    <3>7. Before[N + 1 - f] \in Nat /\ Size[N + 1 - f] \in Nat
      BY <1>0, <1>1, <3>4 DEF Files
    <3> QED
      BY <1>2, <3>2, <3>5, <3>6, <3>7
  <2> SUFFICES ASSUME NEW f \in 1..N + 1 PROVE Before[f] <= TotalBytes
    OBVIOUS
  <2>3. N + 1 - f \in 0..N /\ N + 1 - (N + 1 - f) = f
    BY <1>0
  <2> QED
    BY <2>2, <2>3
<1> QED
  BY <1>0, <1>1, <1>2, <1>3, <1>4

-----------------------------------------------------------------------------
(* Types and progress.                                                      *)
Control == [state : Ctl!TransferState, bytes : 0..TotalBytes, files : 0..N]

Session ==
    [control : Control \cup {NoControl}, snap : Ctl!TransferState,
     offer : {"none", "awaiting", "accepted", "rejected"},
     manifest : BOOLEAN, page : 0..Pages, timer : BOOLEAN, poll : BOOLEAN,
     entry : 1..N + 1, bytes : 0..TotalBytes, files : 0..N, off : [Files -> Nat],
     stage : {"none", "begin", "chunks", "end", "finished"}, pos : Nat,
     frame : {"none", "begin", "chunk", "end"},
     task : {"none", "current", "stale"}, awaiting : BOOLEAN,
     paused : BOOLEAN, interrupted : BOOLEAN, cancelled : BOOLEAN,
     query : BOOLEAN, ending : BOOLEAN, saving : BOOLEAN, again : BOOLEAN,
     firstSave : BOOLEAN, wantRemove : BOOLEAN, removing : BOOLEAN,
     then : {"none", "complete", "cancel", "remoteCancel", "fail"},
     hydrated : BOOLEAN]

\* What is counted is at most what the sender has read.
Paced(x) ==
    x.stage # "none" =>
      /\ x.entry <= N /\ x.pos <= Size[x.entry]
      /\ x.bytes + (IF x.frame = "chunk" THEN 1 ELSE 0) <= Before[x.entry] + x.pos
      /\ x.stage = "chunks" => x.pos < Size[x.entry]

\* The sender of the next file may start.
Due(x) == x.timer \/ x.firstSave \/ x.control.state \in Early
Base(x) ==
    x.bytes <= Before[x.entry] + (IF x.entry > N THEN 0 ELSE x.off[x.entry])

\* Whatever is under way has a state machine.
Controlled(x) ==
    x.timer \/ x.stage # "none" \/ x.awaiting \/ x.query \/ x.interrupted
      \/ x.firstSave \/ x.offer # "none" => HasControl(x)

Measured(x) ==
    /\ x \in Session /\ x.files = x.entry - 1
    /\ \A f \in Files : x.off[f] <= Size[f]
    /\ Paced(x) /\ (~x.cancelled /\ Due(x) => Base(x)) /\ Controlled(x)

\* A call that leaves the progress alone.
Like(x, y) ==
    /\ y.entry = x.entry /\ y.bytes = x.bytes /\ y.files = x.files
    /\ y.off = x.off /\ y.pos = x.pos
    /\ y.stage \in {x.stage, "none"} /\ y.frame \in {x.frame, "none"}
    /\ ~y.cancelled /\ Due(y) => ~x.cancelled /\ Due(x)
    /\ Controlled(x) => Controlled(y)
    /\ HasControl(x) => HasControl(y)
    /\ x.cancelled => y.cancelled

LEMMA LikeKeeps ==
    ASSUME NEW x, NEW y \in Session, Measured(x), Like(x, y)
    PROVE  Measured(y)
<1>1. Paced(y)
  <2> SUFFICES ASSUME y.stage # "none"
               PROVE  Paced(y)
    BY DEF Paced
  <2>1. /\ x.stage # "none" /\ x.bytes \in Nat /\ x.pos \in Nat
        /\ x.entry \in 1..N + 1 /\ Before[x.entry] \in Nat
    BY BeforeGrows DEF Measured, Like, Session
  <2>2. x.bytes <= Before[x.entry] + x.pos
        /\ x.bytes + (IF x.frame = "chunk" THEN 1 ELSE 0) <= Before[x.entry] + x.pos
    BY <2>1 DEF Measured, Paced
  <2>3. x.bytes + (IF y.frame = "chunk" THEN 1 ELSE 0) <= Before[x.entry] + x.pos
    BY <2>1, <2>2 DEF Like
  <2> QED
    BY <2>1, <2>3 DEF Measured, Paced, Like
<1>2. ~y.cancelled /\ Due(y) => Base(y)
  BY DEF Measured, Like, Base
<1> QED
  BY <1>1, <1>2 DEF Measured, Like

LEMMA LikeChain ==
    ASSUME NEW x, NEW y, NEW z, Like(x, y), Like(y, z)
    PROVE  Like(x, z)
  BY DEF Like

\* The state machine: types, and no call leads back before the acceptance.
LEMMA MachineTyped ==
    ASSUME NEW c \in Control
    PROVE  /\ \A next \in Ctl!TransferState : Ctl!Advance(c, next) \in Control
           /\ Ctl!Pause(c) \in Control /\ Ctl!Resume(c) \in Control
           /\ Ctl!Interrupt(c) \in Control /\ Ctl!Cancel(c) \in Control
           /\ Ctl!ConfirmCancelled(c) \in Control /\ Ctl!Fail(c) \in Control
           /\ \A b \in 0..TotalBytes, f \in 0..N : Ctl!UpdateProgress(c, b, f) \in Control
<1>1. \A next \in Ctl!TransferState : Ctl!SetState(c, next) \in Control
  BY DEF Control, Ctl!SetState
<1>2. {"Paused", "Resuming", "Interrupted", "Cancelling", "Cancelled", "Failed"}
        \subseteq Ctl!TransferState
  BY DEF Ctl!TransferState, Ctl!Terminal
<1>3. \A b \in 0..TotalBytes, f \in 0..N : Ctl!UpdateProgress(c, b, f) \in Control
  BY DEF Control, Ctl!UpdateProgress
<1> QED
  BY <1>1, <1>2, <1>3 DEF Ctl!Advance, Ctl!Pause, Ctl!Resume, Ctl!Interrupt, Ctl!Cancel,
     Ctl!ConfirmCancelled, Ctl!Fail

LEMMA MachineEarly ==
    ASSUME NEW c \in Control
    PROVE  /\ \A next : Ctl!Advance(c, next).state \in Early => c.state \in Early
           /\ Ctl!Pause(c).state \in Early => c.state \in Early
           /\ Ctl!Resume(c).state \in Early => c.state \in Early
           /\ Ctl!Interrupt(c).state \in Early => c.state \in Early
           /\ Ctl!Cancel(c).state \in Early => c.state \in Early
           /\ Ctl!ConfirmCancelled(c).state \in Early => c.state \in Early
           /\ Ctl!Fail(c).state \in Early => c.state \in Early
           /\ \A b, f : Ctl!UpdateProgress(c, b, f).state = c.state
<1>1. \A next : Ctl!SetState(c, next).state = next
  BY DEF Control, Ctl!SetState
<1>2. \A next : Ctl!Advance(c, next).state \in Early => c.state \in Early
  BY <1>1 DEF Ctl!Advance, Ctl!AdvanceOk, Ctl!CanAdvance, Ctl!Edges, Early
<1>3. \A b, f : Ctl!UpdateProgress(c, b, f).state = c.state
  BY DEF Control, Ctl!UpdateProgress
<1> QED
  BY <1>1, <1>2, <1>3 DEF Ctl!Pause, Ctl!Resume, Ctl!Interrupt, Ctl!Cancel,
     Ctl!ConfirmCancelled, Ctl!Fail, Early

LEMMA ControlIsKnown ==
    ASSUME NEW x \in Session, HasControl(x)
    PROVE  x.control \in Control /\ x.control.state \in Ctl!TransferState
  BY DEF Session, HasControl, Control

\* NoControl belongs to no state of the machine.
LEMMA NoControlIsOther == NoControl \notin Control /\ NoControl.state \in Early
  BY DEF NoControl, Control, Ctl!TransferState, Ctl!Terminal, Early

\* A session with another state machine.
LEMMA WithControl ==
    ASSUME NEW x \in Session, NEW c \in Control, c.state \in Early => x.control.state \in Early
    PROVE  LET y == [x EXCEPT !.control = c]
           IN y \in Session /\ Like(x, y) /\ HasControl(y) /\ y.control = c
<1> DEFINE y == [x EXCEPT !.control = c]
<1>1. y \in Session /\ y.control = c
  BY DEF Session
<1>2. c # NoControl
  BY NoControlIsOther
<1>3. HasControl(y)
  BY <1>1, <1>2 DEF HasControl
<1>4. /\ y.entry = x.entry /\ y.bytes = x.bytes /\ y.files = x.files
      /\ y.off = x.off /\ y.pos = x.pos /\ y.stage = x.stage /\ y.frame = x.frame
      /\ y.cancelled = x.cancelled /\ y.timer = x.timer /\ y.firstSave = x.firstSave
  BY DEF Session
<1> HIDE DEF y
<1>5. Like(x, y)
  BY <1>1, <1>3, <1>4 DEF Like, Due, Controlled
<1> QED
  BY <1>1, <1>3, <1>5 DEF y

LEMMA ShowLike ==
    ASSUME NEW x \in Session, HasControl(x)
    PROVE  Show(x) \in Session /\ Like(x, Show(x)) /\ Show(x).control = x.control
<1> DEFINE y == [x EXCEPT !.snap = x.control.state]
<1>1. y \in Session
  BY ControlIsKnown DEF Session
<1>2. Like(x, y) /\ y.control = x.control
  BY DEF Session, Like, Due, Controlled, HasControl
<1> QED
  BY <1>1, <1>2 DEF Show

\* An update of flags that leaves alone what Measured speaks of.
LEMMA FlagsLike ==
    ASSUME NEW x \in Session, NEW y \in Session,
           y.control = x.control, y.entry = x.entry, y.bytes = x.bytes, y.files = x.files,
           y.off = x.off, y.pos = x.pos, y.stage \in {x.stage, "none"},
           y.frame \in {x.frame, "none"}, x.cancelled => y.cancelled,
           ~y.cancelled /\ (y.timer \/ y.firstSave) => x.timer \/ x.firstSave,
           y.timer => x.timer \/ x.firstSave \/ x.query \/ x.stage # "none",
           y.firstSave => x.firstSave, y.awaiting => x.awaiting \/ x.stage # "none",
           y.query => x.query, y.interrupted => x.interrupted, y.offer = x.offer
    PROVE  Like(x, y)
  BY DEF Like, Due, Controlled, HasControl

Alike(x, y) ==
    /\ y.control = x.control /\ y.entry = x.entry /\ y.bytes = x.bytes
    /\ y.files = x.files /\ y.off = x.off /\ y.pos = x.pos
    /\ y.stage = x.stage /\ y.frame = x.frame /\ y.cancelled = x.cancelled
    /\ y.timer = x.timer /\ y.firstSave = x.firstSave /\ y.awaiting = x.awaiting
    /\ y.query = x.query /\ y.interrupted = x.interrupted /\ y.offer = x.offer

LEMMA AlikeIsLike ==
    ASSUME NEW x \in Session, NEW y \in Session, Alike(x, y)
    PROVE  Like(x, y) /\ (HasControl(x) => HasControl(y))
  BY FlagsLike DEF Alike, HasControl

LEMMA WithWantRemove ==
    ASSUME NEW x \in Session, NEW b \in BOOLEAN
    PROVE  [x EXCEPT !.wantRemove = b] \in Session
  BY DEF Session

LEMMA WithHydrated ==
    ASSUME NEW x \in Session, NEW b \in BOOLEAN
    PROVE  [x EXCEPT !.hydrated = b] \in Session
  BY DEF Session

LEMMA RemoveOutgoingRecoveryLike ==
    ASSUME NEW x \in Session,
           NEW then \in {"none", "complete", "cancel", "remoteCancel", "fail"}
    PROVE  LET y == RemoveOutgoingRecovery(x, then)
           IN y \in Session /\ Like(x, y) /\ y.control = x.control
<1> DEFINE y == RemoveOutgoingRecovery(x, then)
<1> DEFINE v == [x EXCEPT !.again = FALSE, !.then = then, !.wantRemove = TRUE]
           z == [x EXCEPT !.again = FALSE, !.then = then, !.wantRemove = FALSE,
                          !.removing = TRUE]
<1>0. y = v \/ y = z
  BY DEF Session, RemoveOutgoingRecovery, StartRemoval
<1>1. v \in Session /\ z \in Session
  <2> DEFINE a == [x EXCEPT !.again = FALSE]
             b == [a EXCEPT !.then = then]
             d == [b EXCEPT !.wantRemove = TRUE]
             e == [b EXCEPT !.wantRemove = FALSE]
             g == [e EXCEPT !.removing = TRUE]
  <2>1. a \in Session
    BY DEF Session
  <2>2. v = d /\ z = g
    OBVIOUS
  <2> HIDE DEF a, v, z
  <2>3. b \in Session
    BY <2>1 DEF Session
  <2> HIDE DEF b
  <2>4. d \in Session
    BY <2>3, WithWantRemove
  <2>5. e \in Session
    BY <2>3, WithWantRemove
  <2> HIDE DEF d, e
  <2>6. g \in Session
    BY <2>5 DEF Session
  <2> HIDE DEF g
  <2> QED
    BY <2>2, <2>4, <2>6
<1>2. Alike(x, v) /\ Alike(x, z)
  BY DEF Session, Alike
<1> HIDE DEF y, v, z
<1>3. Like(x, y)
  BY <1>0, <1>1, <1>2, AlikeIsLike
<1> QED
  BY <1>0, <1>1, <1>2, <1>3 DEF y, Alike

LEMMA FailOutgoingLike ==
    ASSUME NEW x \in Session
    PROVE  FailOutgoing(x) \in Session /\ Like(x, FailOutgoing(x))
           /\ FailOutgoing(x).control = x.control
<1> DEFINE y == [x EXCEPT !.cancelled = TRUE, !.ending = TRUE]
<1>1. y \in Session
  BY DEF Session
<1>2. Like(x, y) /\ y.control = x.control
  BY DEF Session, Like, Due, Controlled, HasControl
<1>3. Like(x, x)
  BY DEF Like, Session
<1> HIDE DEF y
<1>4. LET z == RemoveOutgoingRecovery(y, "fail")
      IN z \in Session /\ Like(x, z) /\ z.control = x.control
  BY <1>1, <1>2, RemoveOutgoingRecoveryLike, LikeChain
<1> QED
  BY <1>3, <1>4 DEF FailOutgoing, y

LEMMA StartSaveLike ==
    ASSUME NEW x \in Session
    PROVE  StartSave(x) \in Session /\ Like(x, StartSave(x)) /\ StartSave(x).control = x.control
<1> DEFINE y == [x EXCEPT !.again = FALSE]
           z == [x EXCEPT !.again = FALSE, !.saving = TRUE]
<1>1. y \in Session
  BY DEF Session
<1>4. z \in Session
  BY DEF Session
<1>5. Alike(x, y)
  BY DEF Session, Alike
<1>6. Alike(x, z)
  BY DEF Session, Alike
<1> HIDE DEF y, z
<1>2. Like(x, y) /\ Like(x, z) /\ y.control = x.control /\ z.control = x.control
  BY <1>1, <1>4, <1>5, <1>6, AlikeIsLike DEF Alike
<1>3. FailOutgoing(y) \in Session /\ Like(x, FailOutgoing(y))
      /\ FailOutgoing(y).control = x.control
  BY <1>1, <1>2, FailOutgoingLike, LikeChain
<1> QED
  BY <1>1, <1>2, <1>3, <1>4 DEF StartSave, y, z

LEMMA PersistOutgoingLike ==
    ASSUME NEW x \in Session
    PROVE  PersistOutgoing(x) \in Session /\ Like(x, PersistOutgoing(x))
           /\ PersistOutgoing(x).control = x.control
<1> DEFINE y == [x EXCEPT !.again = TRUE]
<1>1. y \in Session
  BY DEF Session
<1>2. Like(x, y) /\ y.control = x.control /\ Like(x, x)
  BY DEF Session, Like, Due, Controlled, HasControl
<1> HIDE DEF y
<1> QED
  BY <1>1, <1>2, StartSaveLike DEF PersistOutgoing, y

LEMMA FinishOutgoingFailureLike ==
    ASSUME NEW x \in Session
    PROVE  FinishOutgoingFailure(x) \in Session /\ Like(x, FinishOutgoingFailure(x))
<1> DEFINE y == [x EXCEPT !.cancelled = TRUE]
           z == [y EXCEPT !.control = Ctl!Fail(x.control)]
           v == [y EXCEPT !.snap = "Failed"]
<1>1. y \in Session /\ y.control = x.control
  BY DEF Session
<1>2. v \in Session
  <2>1. "Failed" \in Ctl!TransferState
    BY DEF Ctl!TransferState, Ctl!Terminal
  <2> HIDE DEF y
  <2> QED
    BY <1>1, <2>1 DEF Session
<1>3. Like(x, y) /\ Like(x, v)
  BY DEF Session, Like, Due, Controlled, HasControl
<1>4. ASSUME HasControl(x)
      PROVE  Show(z) \in Session /\ Like(x, Show(z))
  <2>1. Ctl!Fail(x.control) \in Control
        /\ (Ctl!Fail(x.control).state \in Early => y.control.state \in Early)
    BY <1>1, <1>4, ControlIsKnown, MachineTyped, MachineEarly
  <2> HIDE DEF y
  <2>2. z \in Session /\ Like(y, z) /\ HasControl(z)
    BY <1>1, <2>1, WithControl
  <2> HIDE DEF z
  <2> QED
    BY <1>3, <2>2, ShowLike, LikeChain
<1> QED
  BY <1>1, <1>2, <1>3, <1>4 DEF FinishOutgoingFailure

LEMMA UpdateOutgoingProgressLike ==
    ASSUME NEW x \in Session, HasControl(x)
    PROVE  LET y == UpdateOutgoingProgress(x)
           IN /\ y \in Session /\ Like(x, y) /\ HasControl(y)
              /\ y.control.state = x.control.state
<1> DEFINE c == Ctl!UpdateProgress(x.control, x.bytes, x.files)
           y == [x EXCEPT !.control = c]
<1>1. c \in Control /\ c.state = x.control.state
  <2>1. x.control \in Control /\ x.bytes \in 0..TotalBytes /\ x.files \in 0..N
    BY ControlIsKnown DEF Session
  <2> QED
    BY <2>1, MachineTyped, MachineEarly
<1> HIDE DEF c
<1>2. y \in Session /\ Like(x, y) /\ HasControl(y) /\ y.control = c
  BY <1>1, WithControl
<1> HIDE DEF y
<1>3. Show(y) \in Session /\ Like(x, Show(y)) /\ Show(y).control = c
  BY <1>2, ShowLike, LikeChain
<1> QED
  BY <1>1, <1>2, <1>3 DEF UpdateOutgoingProgress, c, y, Like

LEMMA StartTaskLike ==
    ASSUME NEW x \in Session, NEW room
    PROVE  StartTask(x, room) \in Session /\ Like(x, StartTask(x, room))
<1> DEFINE y == [x EXCEPT !.task = "current"]
<1>1. y \in Session
  BY DEF Session
<1>2. Like(x, y) /\ Like(x, x)
  BY DEF Session, Like, Due, Controlled, HasControl
<1> QED
  BY <1>1, <1>2 DEF StartTask

-----------------------------------------------------------------------------
(* The sender.                                                              *)
LEMMA SubmitPendingMeasured ==
    ASSUME NEW x, Measured(x), x.stage # "none", ~x.cancelled => ~Due(x),
           x.frame # "none", NEW sink, NEW room
    PROVE  /\ Measured(SubmitPending(x, sink, room))
           /\ HasControl(SubmitPending(x, sink, room))
<1> DEFINE y == [x EXCEPT !.frame = "none"]
           z == [y EXCEPT !.bytes = @ + 1]
           v == [y EXCEPT !.awaiting = TRUE]
<1>0. /\ x \in Session /\ HasControl(x) /\ x.entry \in Files
      /\ x.bytes \in Nat /\ x.pos \in Nat /\ x.files = x.entry - 1
  BY OutgoingAssumption DEF Measured, Controlled, Session, Files, Paced
<1>1. y \in Session /\ v \in Session
  <2>0. x \in Session
    BY <1>0
  <2>1. y \in Session
    BY <2>0 DEF Session
  <2> HIDE DEF y
  <2>2. v \in Session
    BY <2>1 DEF Session
  <2> QED
    BY <2>1, <2>2
<1>2. Like(x, y)
  BY <1>0 DEF Session, Like, Due, Controlled, HasControl
<1>3. Measured(y)
  BY <1>1, <1>2, LikeKeeps
<1>4. Measured(v)
  <2>1. /\ v.entry = y.entry /\ v.bytes = y.bytes /\ v.files = y.files
        /\ v.off = y.off /\ v.pos = y.pos /\ v.stage = y.stage /\ v.frame = y.frame
        /\ v.cancelled = y.cancelled /\ v.timer = y.timer /\ v.firstSave = y.firstSave
        /\ v.control = y.control /\ y.stage = x.stage
    BY <1>0, <1>1 DEF Session
  <2>2. Like(y, v)
    BY <1>0, <2>1 DEF Like, Due, Controlled, HasControl, Session
  <2> QED
    BY <1>1, <1>3, <2>2, LikeKeeps
<1>5. ASSUME x.frame = "chunk"
      PROVE  Measured(z) /\ HasControl(z)
  <2>1. Before[x.entry] \in Nat /\ Size[x.entry] \in Nat
        /\ Before[x.entry] + Size[x.entry] <= TotalBytes /\ TotalBytes \in Nat
    <3>1. x.entry \in 1..N + 1 /\ Size[x.entry] \in Nat
      BY <1>0, OutgoingAssumption DEF Files
    <3>2. Before[x.entry + 1] = Before[x.entry] + Size[x.entry]
          /\ Before[x.entry + 1] <= TotalBytes
      BY <1>0, BeforeGrows
    <3> QED
      BY <3>1, <3>2, BeforeGrows
  <2>2. /\ x.bytes + 1 <= Before[x.entry] + x.pos /\ x.pos <= Size[x.entry]
        /\ x.stage = "chunks" => x.pos < Size[x.entry]
    BY <1>5 DEF Measured, Paced
  <2>3. x.bytes + 1 \in 0..TotalBytes
    BY <1>0, <2>1, <2>2
  <2>4. z = [x EXCEPT !.frame = "none", !.bytes = x.bytes + 1]
    BY <1>0 DEF Session
  <2>5. z \in Session
    BY <1>0, <2>3, <2>4 DEF Session
  <2>6. /\ z.bytes = x.bytes + 1 /\ z.frame = "none" /\ z.entry = x.entry
        /\ z.pos = x.pos /\ z.stage = x.stage /\ z.files = x.files /\ z.off = x.off
        /\ z.timer = x.timer /\ z.firstSave = x.firstSave /\ z.control = x.control
        /\ z.cancelled = x.cancelled
    BY <1>0, <2>4 DEF Session
  <2> HIDE DEF z
  <2>7. Paced(z)
    BY <1>0, <2>2, <2>6 DEF Paced, Files
  <2>8. HasControl(z) /\ (z.cancelled \/ ~Due(z))
    BY <1>0, <2>6 DEF HasControl, Due
  <2> QED
    BY <1>0, <2>5, <2>6, <2>7, <2>8 DEF Measured, Controlled
<1>6. Measured(StartTask(y, room)) /\ HasControl(StartTask(y, room))
  <2>1. HasControl(y)
    BY <1>0 DEF HasControl, Session
  <2> QED
    BY <1>1, <1>3, <2>1, StartTaskLike, LikeKeeps DEF Like
<1>7. ASSUME x.frame = "chunk"
      PROVE  /\ Measured(StartTask(UpdateOutgoingProgress(z), room))
             /\ HasControl(StartTask(UpdateOutgoingProgress(z), room))
  <2> HIDE DEF z
  <2>1. z \in Session
    BY <1>5, <1>7 DEF Measured
  <2>2. /\ UpdateOutgoingProgress(z) \in Session /\ Measured(UpdateOutgoingProgress(z))
        /\ HasControl(UpdateOutgoingProgress(z))
    BY <1>5, <1>7, <2>1, UpdateOutgoingProgressLike, LikeKeeps
  <2> QED
    BY <2>2, StartTaskLike, LikeKeeps DEF Like
<1>8. Measured(FailOutgoing(x)) /\ HasControl(FailOutgoing(x))
  BY <1>0, FailOutgoingLike, LikeKeeps DEF Like
<1>10. HasControl(v) /\ HasControl(x) /\ Measured(x)
  BY <1>0 DEF HasControl, Session
<1>9. x.frame \in {"begin", "chunk", "end"}
  BY <1>0 DEF Session
<1> HIDE DEF y, v
<1> QED
  BY <1>4, <1>6, <1>7, <1>8, <1>9, <1>10 DEF SubmitPending, y, v

LEMMA ScheduleSenderPumpMeasured ==
    ASSUME NEW x, Measured(x), x.stage # "none" /\ ~x.cancelled => ~Due(x),
           NEW c, NEW sink, NEW room
    PROVE  LET y == ScheduleSenderPump(x, c, sink, room)
           IN Measured(y) /\ (HasControl(x) => HasControl(y))
<1>0. x \in Session
  BY DEF Measured
<1>1. /\ Measured(FailOutgoing(x)) /\ (HasControl(x) => HasControl(FailOutgoing(x)))
      /\ Measured(StartTask(x, room)) /\ (HasControl(x) => HasControl(StartTask(x, room)))
  BY <1>0, FailOutgoingLike, StartTaskLike, LikeKeeps DEF Like
<1>2. ASSUME MayPump(x), x.frame # "none"
      PROVE  /\ Measured(SubmitPending(x, sink, room))
             /\ HasControl(SubmitPending(x, sink, room))
  BY <1>2, SubmitPendingMeasured DEF MayPump
<1> QED
  BY <1>1, <1>2 DEF ScheduleSenderPump

LEMMA NextFrameMeasured ==
    ASSUME NEW x, Measured(x), x.stage # "none" /\ ~x.cancelled => ~Due(x)
    PROVE  LET y == NextFrame(x)
           IN /\ Measured(y) /\ (y.stage # "none" /\ ~y.cancelled => ~Due(y))
<1> DEFINE last == Size[x.entry]
           now == IF x.pos = last THEN "end" ELSE "chunks"
           later == IF x.pos + 1 = last THEN "end" ELSE "chunks"
           pos == x.pos + 1
           b == [x EXCEPT !.frame = "begin", !.stage = now]
           k == [x EXCEPT !.frame = "chunk", !.pos = pos, !.stage = later]
           e == [x EXCEPT !.frame = "end", !.stage = "finished"]
<1>0. x \in Session /\ x.pos \in Nat /\ x.files = x.entry - 1 /\ x.bytes \in Nat
  BY DEF Measured, Session
<1>1. CASE x.stage \notin {"begin", "chunks", "end"}
  <2>1. NextFrame(x) = x
    BY <1>1 DEF NextFrame
  <2> QED
    BY <2>1
<1>2. ASSUME x.stage # "none"
      PROVE  /\ x.entry \in Files /\ last \in Nat /\ x.pos <= last
             /\ Before[x.entry] \in Nat /\ HasControl(x)
             /\ x.bytes <= Before[x.entry] + x.pos
             /\ x.bytes + (IF x.frame = "chunk" THEN 1 ELSE 0) <= Before[x.entry] + x.pos
  <2>1. x.entry \in Files
    BY <1>2, OutgoingAssumption DEF Measured, Paced, Session, Files
  <2>2. last \in Nat /\ Before[x.entry] \in Nat
    BY <2>1, BeforeGrows, OutgoingAssumption DEF Files
  <2> QED
    BY <1>0, <1>2, <2>1, <2>2 DEF Measured, Paced, Controlled
<1>a. now \in {"end", "chunks"} /\ later \in {"end", "chunks"} /\ pos \in Nat
  BY <1>0
<1> HIDE DEF last, now, later, pos
<1>3. CASE x.stage = "begin"
  <2>1. NextFrame(x) = b
    BY <1>3 DEF NextFrame, last, now
  <2>2. b \in Session
    BY <1>0, <1>a DEF Session
  <2>3. /\ b.entry = x.entry /\ b.bytes = x.bytes /\ b.files = x.files /\ b.off = x.off
        /\ b.pos = x.pos /\ b.frame = "begin" /\ b.control = x.control
        /\ b.stage = now
        /\ b.cancelled = x.cancelled /\ b.timer = x.timer /\ b.firstSave = x.firstSave
    BY <1>0 DEF Session
  <2> HIDE DEF b
  <2>4. Paced(b)
    BY <1>0, <1>2, <1>3, <2>3, OutgoingAssumption DEF Paced, Files, last, now
  <2>5. ~b.cancelled => ~Due(b)
    BY <1>3, <2>3 DEF Due
  <2>6. Measured(b)
    BY <1>0, <1>2, <1>3, <2>2, <2>3, <2>4, <2>5 DEF Measured, Controlled, HasControl
  <2> QED
    BY <2>1, <2>5, <2>6
<1>4. CASE x.stage = "chunks"
  <2>1. NextFrame(x) = k
    BY <1>0, <1>4 DEF NextFrame, last, Session, later, pos
  <2>0. x.pos < last
    BY <1>4 DEF Measured, Paced, last
  <2>2. k \in Session
    BY <1>0, <1>a DEF Session
  <2>3. /\ k.entry = x.entry /\ k.bytes = x.bytes /\ k.files = x.files /\ k.off = x.off
        /\ k.pos = pos /\ k.frame = "chunk" /\ k.control = x.control
        /\ k.stage = later
        /\ k.cancelled = x.cancelled /\ k.timer = x.timer /\ k.firstSave = x.firstSave
    BY <1>0 DEF Session
  <2> HIDE DEF k
  <2>4. Paced(k)
    <3>1. x.entry <= N /\ x.pos + 1 <= last
      BY <1>0, <1>2, <1>4, <2>0, OutgoingAssumption DEF Files
    <3>2. x.bytes + 1 <= Before[x.entry] + (x.pos + 1)
      BY <1>0, <1>2, <1>4
    <3>3. x.pos + 1 # last => x.pos + 1 < last
      BY <1>0, <1>2, <1>4, <3>1
    <3> QED
      BY <2>3, <3>1, <3>2, <3>3 DEF Paced, last, later, pos
  <2>5. ~k.cancelled => ~Due(k)
    BY <1>4, <2>3 DEF Due
  <2>6. Measured(k)
    BY <1>0, <1>2, <1>4, <2>2, <2>3, <2>4, <2>5 DEF Measured, Controlled, HasControl
  <2> QED
    BY <2>1, <2>5, <2>6
<1>5. CASE x.stage = "end"
  <2>1. NextFrame(x) = e
    BY <1>5 DEF NextFrame
  <2>2. e \in Session
    BY <1>0 DEF Session
  <2>3. /\ e.entry = x.entry /\ e.bytes = x.bytes /\ e.files = x.files /\ e.off = x.off
        /\ e.pos = x.pos /\ e.frame = "end" /\ e.control = x.control /\ e.stage = "finished"
        /\ e.cancelled = x.cancelled /\ e.timer = x.timer /\ e.firstSave = x.firstSave
    BY <1>0 DEF Session
  <2> HIDE DEF e
  <2>4. Paced(e)
    BY <1>0, <1>2, <1>5, <2>3 DEF Paced, Files, last
  <2>5. ~e.cancelled => ~Due(e)
    BY <1>5, <2>3 DEF Due
  <2>6. Measured(e)
    BY <1>0, <1>2, <1>5, <2>2, <2>3, <2>4, <2>5 DEF Measured, Controlled, HasControl
  <2> QED
    BY <2>1, <2>5, <2>6
<1> QED
  BY <1>1, <1>3, <1>4, <1>5

LEMMA AdvanceWith ==
    ASSUME NEW x \in Session, HasControl(x), NEW next \in Ctl!TransferState
    PROVE  LET c == Ctl!Advance(x.control, next)
           IN c \in Control /\ (c.state \in Early => x.control.state \in Early)
<1>1. x.control \in Control
  BY ControlIsKnown
<1> QED
  BY <1>1, MachineTyped, MachineEarly

LEMMA CompleteOutgoingLike ==
    ASSUME NEW x \in Session, HasControl(x)
    PROVE  CompleteOutgoing(x) \in Session /\ Like(x, CompleteOutgoing(x))
<1> DEFINE y == UpdateOutgoingProgress(x)
           a == Ctl!Advance(y.control, "Verifying")
           b == Ctl!Advance(a, "Committing")
           v == [y EXCEPT !.control = b]
           z == [y EXCEPT !.control = b, !.ending = TRUE]
<1>1. y \in Session /\ Like(x, y) /\ HasControl(y)
  BY UpdateOutgoingProgressLike
<1>2. FailOutgoing(y) \in Session /\ Like(x, FailOutgoing(y))
  BY <1>1, FailOutgoingLike, LikeChain
<1> HIDE DEF y
<1>3. b \in Control /\ (b.state \in Early => y.control.state \in Early)
  <2>1. {"Verifying", "Committing"} \subseteq Ctl!TransferState
    BY DEF Ctl!TransferState
  <2>2. a \in Control /\ (a.state \in Early => y.control.state \in Early)
    BY <1>1, <2>1, AdvanceWith
  <2> HIDE DEF a
  <2> QED
    BY <2>1, <2>2, MachineTyped, MachineEarly
<1> HIDE DEF b
<1>4. v \in Session /\ Like(y, v) /\ HasControl(v) /\ v.control = b
  BY <1>1, <1>3, WithControl
<1>5. z = [v EXCEPT !.ending = TRUE]
  BY <1>1 DEF Session
<1> HIDE DEF v, z
<1>6. z \in Session /\ Like(v, z) /\ HasControl(z)
  <2> DEFINE k == [v EXCEPT !.ending = TRUE]
  <2>1. k \in Session
    BY <1>4 DEF Session
  <2>2. Alike(v, k)
    BY <1>4 DEF Session, Alike
  <2> HIDE DEF k
  <2>3. Like(v, k) /\ HasControl(k)
    BY <1>4, <2>1, <2>2, AlikeIsLike
  <2> QED
    BY <1>5, <2>1, <2>3 DEF k
<1>7. Show(z) \in Session /\ Like(z, Show(z))
  BY <1>6, ShowLike
<1>8. LET t == RemoveOutgoingRecovery(Show(z), "complete") IN t \in Session /\ Like(Show(z), t)
  BY <1>7, RemoveOutgoingRecoveryLike
<1>9. Like(x, RemoveOutgoingRecovery(Show(z), "complete"))
  BY <1>1, <1>4, <1>6, <1>7, <1>8, LikeChain
<1>10. Like(x, x)
  BY DEF Like, Session
<1> QED
  BY <1>2, <1>8, <1>9, <1>10 DEF CompleteOutgoing, y, a, b, z

\* The sender of a file reads from the offset that the receiver has.
LEMMA StartSenderMeasured ==
    ASSUME NEW x, Measured(x), HasControl(x), x.entry <= N, ~Due(x), Base(x)
    PROVE  LET y == StartSender(x) IN Measured(y) /\ HasControl(y) /\ ~Due(y)
<1> DEFINE c == IF x.control.state \in {"Queued", "Resuming"}
                THEN Ctl!Advance(x.control, "Transferring") ELSE x.control
           task == IF x.task = "none" THEN x.task ELSE "stale"
           pos == x.off[x.entry]
           y == [x EXCEPT !.stage = "begin", !.pos = pos, !.frame = "none",
                          !.task = task, !.awaiting = FALSE, !.control = c]
<1>0. /\ x \in Session /\ x.entry \in Files /\ x.files = x.entry - 1
      /\ \A f \in Files : x.off[f] <= Size[f]
  BY OutgoingAssumption DEF Measured, Session, Files
<1>1. c \in Control /\ (c.state \in Early => x.control.state \in Early)
  <2>1. "Transferring" \in Ctl!TransferState
    BY DEF Ctl!TransferState
  <2> QED
    BY <1>0, <2>1, AdvanceWith, ControlIsKnown
<1>2. task \in {"none", "current", "stale"} /\ pos \in Nat /\ pos <= Size[x.entry]
  BY <1>0 DEF Session
<1>3. y = StartSender(x)
  BY <1>0 DEF StartSender, Session
<1> HIDE DEF c, task
<1>4. y \in Session
  BY <1>0, <1>1, <1>2 DEF Session
<1>5. /\ y.stage = "begin" /\ y.pos = pos /\ y.frame = "none" /\ ~y.awaiting /\ y.control = c
      /\ y.entry = x.entry /\ y.bytes = x.bytes /\ y.files = x.files /\ y.off = x.off
      /\ y.timer = x.timer /\ y.firstSave = x.firstSave /\ y.cancelled = x.cancelled
  BY <1>0 DEF Session
<1> HIDE DEF y
<1>6. HasControl(y) /\ ~Due(y)
  BY <1>1, <1>5, NoControlIsOther DEF HasControl, Due
<1>7. Paced(y)
  <2>1. /\ x.bytes <= Before[x.entry] + pos /\ x.bytes \in Nat
        /\ x.entry \in 1..N + 1 /\ Before[x.entry] \in Nat
    BY <1>0, BeforeGrows, OutgoingAssumption DEF Base, Session, Files
  <2> QED
    BY <1>2, <1>5, <2>1 DEF Paced
<1>8. Measured(y)
  BY <1>0, <1>4, <1>5, <1>6, <1>7 DEF Measured, Controlled
<1> QED
  BY <1>3, <1>6, <1>8

LEMMA StartNextOutgoingFileMeasured ==
    ASSUME NEW x, Measured(x), HasControl(x), ~x.cancelled => ~Due(x) /\ Base(x), NEW c
    PROVE  Measured(StartNextOutgoingFile(x, c))
<1>0. x \in Session
  BY DEF Measured
<1>1. CASE x.cancelled
  BY <1>1 DEF StartNextOutgoingFile
<1>2. CASE ~x.cancelled /\ x.entry > N
  <2> DEFINE y == [x EXCEPT !.control = Ctl!Advance(@, "Transferring")]
             z == IF x.control.state = "Queued" THEN y ELSE x
  <2>1. "Transferring" \in Ctl!TransferState
    BY DEF Ctl!TransferState
  <2>2. y \in Session /\ Like(x, y) /\ HasControl(y)
    BY <1>0, <2>1, AdvanceWith, WithControl
  <2> HIDE DEF y
  <2>3. z \in Session /\ HasControl(z) /\ Measured(z)
    BY <1>0, <2>2, LikeKeeps
  <2>4. StartNextOutgoingFile(x, c) = CompleteOutgoing(z)
    BY <1>2 DEF StartNextOutgoingFile, y
  <2> HIDE DEF z
  <2> QED
    BY <2>3, <2>4, CompleteOutgoingLike, LikeKeeps
<1>3. CASE ~x.cancelled /\ ~(x.entry > N) /\ ~c
  <2>1. StartNextOutgoingFile(x, c) = FailOutgoing(x)
    BY <1>3 DEF StartNextOutgoingFile
  <2> QED
    BY <1>0, <2>1, FailOutgoingLike, LikeKeeps
<1>4. CASE ~x.cancelled /\ ~(x.entry > N) /\ c
  <2> DEFINE y == StartSender(x)
             z == UpdateOutgoingProgress(y)
  <2>1. Measured(y) /\ HasControl(y) /\ ~Due(y) /\ y \in Session
    <3>1. x.entry <= N
      BY <1>0, <1>4, OutgoingAssumption DEF Session
    <3> QED
      BY <1>4, <3>1, StartSenderMeasured DEF Measured
  <2> HIDE DEF y
  <2>2. Measured(z) /\ (~z.cancelled => ~Due(z))
    BY <2>1, UpdateOutgoingProgressLike, LikeKeeps DEF Like
  <2>3. StartNextOutgoingFile(x, c) = ScheduleSenderPump(z, c, "accept", TRUE)
    BY <1>4 DEF StartNextOutgoingFile, y
  <2> HIDE DEF z
  <2> QED
    BY <2>2, <2>3, ScheduleSenderPumpMeasured
<1> QED
  BY <1>1, <1>2, <1>3, <1>4

-----------------------------------------------------------------------------
(* Offers and resumption.                                                   *)
LEMMA SendOfferMeasured ==
    ASSUME NEW x, Measured(x), NEW sent
    PROVE  Measured(SendOffer(x, sent))
<1> DEFINE a == Ctl!Advance(x.control, "Offered")
           b == Ctl!Advance(a, "WaitingForAcceptance")
           v == [x EXCEPT !.control = b]
           y == [x EXCEPT !.offer = "awaiting", !.control = b]
<1>0. x \in Session
  BY DEF Measured
<1>1. CASE ~HasControl(x)
  BY <1>1 DEF SendOffer
<1>2. CASE HasControl(x)
  <2>1. {"Offered", "WaitingForAcceptance"} \subseteq Ctl!TransferState
    BY DEF Ctl!TransferState
  <2>2. a \in Control /\ (a.state \in Early => x.control.state \in Early)
    BY <1>0, <1>2, <2>1, AdvanceWith
  <2> HIDE DEF a
  <2>3. b \in Control /\ (b.state \in Early => x.control.state \in Early)
    BY <2>1, <2>2, MachineTyped, MachineEarly
  <2> HIDE DEF b
  <2>4. v \in Session /\ Like(x, v) /\ HasControl(v) /\ v.control = b
    BY <1>0, <2>3, WithControl
  <2>5. y = [v EXCEPT !.offer = "awaiting"]
    BY <1>0 DEF Session
  <2> HIDE DEF v, y
  <2>6. y \in Session /\ Like(v, y) /\ HasControl(y)
    BY <2>4, <2>5 DEF Session, Like, Due, Controlled, HasControl
  <2>7. Measured(y)
    BY <2>4, <2>6, LikeKeeps
  <2>8. Measured(FailOutgoing(x)) /\ Measured(FailOutgoing(y)) /\ Measured(Show(y))
    BY <1>0, <2>6, <2>7, FailOutgoingLike, ShowLike, LikeKeeps
  <2> QED
    BY <1>2, <2>8 DEF SendOffer, y, b, a
<1> QED
  BY <1>1, <1>2

LEMMA OfferPreparedTransfersMeasured ==
    ASSUME NEW x, Measured(x), NEW sent, NEW supported
    PROVE  Measured(OfferPreparedTransfers(x, sent, supported))
<1>0. x \in Session
  BY DEF Measured
<1> DEFINE p == [x EXCEPT !.poll = TRUE]
           c == Ctl!Resume(x.control)
           v == [x EXCEPT !.control = c]
           q == [x EXCEPT !.control = c, !.query = TRUE]
<1>1. p \in Session /\ Like(x, p)
  <2>1. p \in Session /\ Alike(x, p)
    BY <1>0 DEF Session, Alike
  <2> HIDE DEF p
  <2> QED
    BY <1>0, <2>1, AlikeIsLike
<1>2. Measured(p) /\ Measured(FailOutgoing(x))
  <2> HIDE DEF p
  <2> QED
    BY <1>0, <1>1, FailOutgoingLike, LikeKeeps
<1>3. ASSUME x.interrupted PROVE Measured(Show(q))
  <2>1. HasControl(x)
    BY <1>3 DEF Measured, Controlled
  <2>2. c \in Control /\ (c.state \in Early => x.control.state \in Early)
    BY <1>0, <2>1, ControlIsKnown, MachineTyped, MachineEarly
  <2> HIDE DEF c
  <2>3. v \in Session /\ Like(x, v) /\ HasControl(v)
    BY <1>0, <2>2, WithControl
  <2>4. q = [v EXCEPT !.query = TRUE]
    BY <1>0 DEF Session
  <2> HIDE DEF v, q
  <2>5. q \in Session /\ Like(v, q) /\ HasControl(q)
    <3> DEFINE k == [v EXCEPT !.query = TRUE]
    <3>1. k \in Session
      BY <2>3 DEF Session
    <3>2. /\ k.control = v.control /\ k.entry = v.entry /\ k.bytes = v.bytes
          /\ k.files = v.files /\ k.off = v.off /\ k.pos = v.pos /\ k.stage = v.stage
          /\ k.frame = v.frame /\ k.cancelled = v.cancelled /\ k.timer = v.timer
          /\ k.firstSave = v.firstSave
      BY <2>3 DEF Session
    <3> HIDE DEF k
    <3>3. Like(v, k) /\ HasControl(k)
      BY <2>3, <3>2 DEF Like, Due, Controlled, HasControl
    <3> QED
      BY <2>4, <3>1, <3>3 DEF k
  <2>6. Measured(q)
    BY <2>3, <2>5, LikeKeeps
  <2> QED
    BY <2>5, <2>6, ShowLike, LikeKeeps
<1>4. Measured(SendResumeQuery(x, sent, supported))
  <2> HIDE DEF p
  <2>1. SendResumeQuery(x, sent, supported) \in {x, FailOutgoing(x)}
        \/ (x.interrupted /\ SendResumeQuery(x, sent, supported) = Show(q))
    BY DEF SendResumeQuery
  <2> HIDE DEF q
  <2> QED
    BY <1>2, <1>3, <2>1
<1>5. OfferPreparedTransfers(x, sent, supported)
        \in {p, SendResumeQuery(x, sent, supported), SendOffer(x, sent), x}
  BY DEF OfferPreparedTransfers
<1> HIDE DEF p
<1> QED
  BY <1>2, <1>4, <1>5, SendOfferMeasured

Offsets ==
    {r \in [Files -> NotReported..Max({Size[f] : f \in Files})] :
       \A f \in Files : r[f] <= Size[f]}

LEMMA RestartAtMeasured ==
    ASSUME NEW x, Measured(x), HasControl(x), NEW reported \in Offsets
    PROVE  LET y == RestartAt(x, reported)
           IN Measured(y) /\ Base(y) /\ HasControl(y)
<1> DEFINE first == FirstOpen(reported)
           off == Reported(reported)
           bytes == Before[first] + (IF first > N THEN 0 ELSE off[first])
           y == [x EXCEPT !.off = off, !.entry = first, !.files = first - 1,
                          !.bytes = bytes, !.page = 0, !.stage = "none",
                          !.frame = "none", !.awaiting = FALSE, !.query = FALSE,
                          !.interrupted = FALSE]
<1>0. x \in Session /\ N \in Nat
  BY OutgoingAssumption DEF Measured
<1>1. first \in 1..N + 1
  BY FirstOpenEffect
<1>2. off \in [Files -> Nat] /\ \A f \in Files : off[f] <= Size[f]
  <2> SUFFICES ASSUME NEW f \in Files
               PROVE  off[f] \in Nat /\ off[f] <= Size[f]
    BY DEF Reported
  <2>1. PICK m : reported \in [Files -> NotReported..m]
    BY DEF Offsets
  <2>2. reported[f] \in Int /\ reported[f] >= -1 /\ reported[f] <= Size[f] /\ Size[f] \in Nat
    BY <2>1, OutgoingAssumption DEF Offsets, NotReported, Files
  <2>3. off[f] = IF reported[f] = -1 THEN 0 ELSE reported[f]
    BY DEF Reported, NotReported
  <2> QED
    BY <2>2, <2>3
<1>3. y = RestartAt(x, reported)
  BY DEF RestartAt
<1> HIDE DEF first, off
<1>4. bytes \in 0..TotalBytes
  <2>1. Before[first] \in Nat /\ Before[first] <= TotalBytes /\ TotalBytes \in Nat
    BY <1>1, BeforeGrows
  <2>2. ASSUME ~(first > N)
        PROVE  off[first] \in Nat /\ Before[first] + off[first] <= TotalBytes
    <3>1. first \in Files
      BY <1>0, <1>1, <2>2 DEF Files
    <3>2. first + 1 \in 1..N + 1 /\ Before[first + 1] = Before[first] + Size[first]
          /\ Before[first + 1] <= TotalBytes
      BY <3>1, BeforeGrows
    <3>3. off[first] \in Nat /\ off[first] <= Size[first] /\ Size[first] \in Nat
      BY <1>2, <3>1, OutgoingAssumption DEF Files
    <3> QED
      BY <2>1, <3>2, <3>3
  <2> QED
    BY <2>1, <2>2
<1>5. first - 1 \in 0..N
  BY <1>0, <1>1
<1> DEFINE files == first - 1
<1>6. y = [x EXCEPT !.off = off, !.entry = first, !.files = files,
                    !.bytes = bytes, !.page = 0, !.stage = "none",
                    !.frame = "none", !.awaiting = FALSE, !.query = FALSE,
                    !.interrupted = FALSE] /\ files \in 0..N /\ 0 \in 0..Pages
  BY <1>5, OutgoingAssumption
<1> HIDE DEF bytes, files, y
<1>a. /\ y.entry = first /\ y.files = files /\ y.bytes = bytes /\ y.off = off
      /\ y.stage = "none" /\ y.control = x.control
  BY <1>0, <1>6 DEF Session
<1>7. Base(y) /\ y.files = y.entry - 1 /\ HasControl(y)
  <2>1. bytes \in Nat /\ bytes <= bytes
    BY <1>4, BeforeGrows
  <2>2. bytes = Before[first] + (IF first > N THEN 0 ELSE off[first])
    BY DEF bytes
  <2>3. y.files = y.entry - 1
    BY <1>a DEF files
  <2> QED
    BY <1>a, <2>1, <2>2, <2>3 DEF Base, HasControl
<1>8. y \in Session
  <2> DEFINE u == [x EXCEPT !.off = off, !.entry = first, !.files = files, !.bytes = bytes]
             w == [u EXCEPT !.page = 0, !.stage = "none", !.frame = "none"]
             t == [w EXCEPT !.awaiting = FALSE, !.query = FALSE, !.interrupted = FALSE]
  <2>1. u \in Session
    BY <1>0, <1>1, <1>2, <1>4, <1>6 DEF Session
  <2>2. y = t
    BY <1>6
  <2> HIDE DEF u
  <2>3. w \in Session
    BY <1>6, <2>1 DEF Session
  <2> HIDE DEF w
  <2>4. t \in Session
    BY <2>3 DEF Session
  <2> QED
    BY <2>2, <2>4
<1>9. Measured(y)
  BY <1>2, <1>7, <1>8, <1>a DEF Measured, Paced, Controlled
<1> QED
  BY <1>3, <1>7, <1>9

LEMMA RehydratedLike ==
    ASSUME NEW x \in Session, HasControl(x)
    PROVE  Rehydrated(x) \in Session /\ Like(x, Rehydrated(x)) /\ HasControl(Rehydrated(x))
<1> DEFINE c == [state |-> "Resuming", bytes |-> x.bytes, files |-> x.files]
           v == [x EXCEPT !.control = c]
           y == [x EXCEPT !.hydrated = FALSE, !.control = c]
<1>1. c \in Control /\ c.state \notin Early
  BY DEF Control, Session, Ctl!TransferState, Early
<1> HIDE DEF c
<1>2. v \in Session /\ Like(x, v) /\ HasControl(v)
  BY <1>1, WithControl
<1>3. y = [v EXCEPT !.hydrated = FALSE]
  BY DEF Session
<1> HIDE DEF v, y
<1>4. y \in Session /\ Like(v, y) /\ HasControl(y)
  <2> DEFINE k == [v EXCEPT !.hydrated = FALSE]
  <2>1. k \in Session
    BY <1>2, WithHydrated
  <2>2. Alike(v, k)
    BY <1>2 DEF Session, Alike
  <2> HIDE DEF k
  <2>3. k \in Session /\ Like(v, k) /\ HasControl(k)
    BY <1>2, <2>1, <2>2, AlikeIsLike
  <2> QED
    BY <1>3, <2>3 DEF k
<1>5. Show(y) \in Session /\ Like(x, Show(y)) /\ HasControl(Show(y))
  <2>1. Show(y) \in Session /\ Like(y, Show(y))
    BY <1>4, ShowLike
  <2> QED
    BY <1>2, <1>4, <2>1, LikeChain DEF Like
<1>6. Like(x, x)
  BY DEF Like, Session
<1> QED
  BY <1>5, <1>6 DEF Rehydrated, y, c

LEMMA UnpauseLike ==
    ASSUME NEW x \in Session, HasControl(x)
    PROVE  Unpause(x) \in Session /\ Like(x, Unpause(x)) /\ HasControl(Unpause(x))
<1> DEFINE a == Ctl!Resume(x.control)
           b == Ctl!Advance(a, "Transferring")
           v == [x EXCEPT !.control = b]
           y == [x EXCEPT !.control = b, !.paused = FALSE]
<1>1. a \in Control /\ (a.state \in Early => x.control.state \in Early)
  BY ControlIsKnown, MachineTyped, MachineEarly
<1> HIDE DEF a
<1>2. b \in Control /\ (b.state \in Early => x.control.state \in Early)
  <2>1. "Transferring" \in Ctl!TransferState
    BY DEF Ctl!TransferState
  <2> QED
    BY <1>1, <2>1, MachineTyped, MachineEarly
<1> HIDE DEF b
<1>3. v \in Session /\ Like(x, v) /\ HasControl(v)
  BY <1>2, WithControl
<1>4. y = [v EXCEPT !.paused = FALSE]
  BY DEF Session
<1> HIDE DEF v, y
<1>5. y \in Session /\ Like(v, y) /\ HasControl(y)
  <2> DEFINE k == [v EXCEPT !.paused = FALSE]
  <2>1. k \in Session
    BY <1>3 DEF Session
  <2>2. Alike(v, k)
    BY <1>3 DEF Session, Alike
  <2> HIDE DEF k
  <2>3. k \in Session /\ Like(v, k) /\ HasControl(k)
    BY <1>3, <2>1, <2>2, AlikeIsLike
  <2> QED
    BY <1>4, <2>3 DEF k
<1>6. Show(y) \in Session /\ Like(y, Show(y))
  BY <1>5, ShowLike
<1>7. Like(x, Show(y)) /\ HasControl(Show(y))
  BY <1>3, <1>5, <1>6, LikeChain DEF Like
<1> QED
  BY <1>6, <1>7 DEF Unpause, y, b, a

LEMMA MarkOutgoingConnectionLostLike ==
    ASSUME NEW x \in Session
    PROVE  LET z == MarkOutgoingConnectionLost(x) IN z \in Session /\ Like(x, z)
<1> DEFINE y == [x EXCEPT !.paused = FALSE, !.query = FALSE, !.awaiting = FALSE,
                          !.task = IF @ = "none" THEN @ ELSE "stale",
                          !.stage = "none", !.frame = "none"]
           c == Ctl!Interrupt(y.control)
           v == [y EXCEPT !.control = c]
           i == [y EXCEPT !.control = Ctl!Interrupt(@), !.interrupted = TRUE]
           n == [y EXCEPT !.interrupted = FALSE]
           task == IF x.task = "none" THEN x.task ELSE "stale"
           u == [x EXCEPT !.paused = FALSE, !.query = FALSE, !.awaiting = FALSE]
           w == [u EXCEPT !.task = task, !.stage = "none"]
           t == [w EXCEPT !.frame = "none"]
<1>0. y = t
  BY DEF Session
<1>1. task \in {"none", "current", "stale"}
  BY DEF Session
<1>2. y \in Session /\ y.control = x.control
  <2>1. u \in Session
    BY DEF Session
  <2> HIDE DEF task, u
  <2> DEFINE r == [u EXCEPT !.task = task]
             k == [r EXCEPT !.stage = "none"]
  <2>b. r \in Session
    BY <1>1, <2>1 DEF Session
  <2>c. w = k /\ r.control = u.control
    BY <2>1 DEF Session
  <2> HIDE DEF r
  <2>d. k \in Session
    BY <2>b DEF Session
  <2>e. k.control = r.control
    BY <2>b DEF Session
  <2>a. w \in Session /\ w.control = u.control
    BY <2>c, <2>d, <2>e
  <2> HIDE DEF w
  <2>2. t \in Session
    BY <2>a DEF Session
  <2>3. t.control = u.control
    BY <2>a DEF Session
  <2>4. u.control = x.control
    BY DEF Session, u
  <2> QED
    BY <1>0, <2>2, <2>3, <2>4
<1> HIDE DEF task, u, w, t
<1>3. Like(x, y)
  BY <1>2 DEF Session, Like, Due, Controlled, HasControl
<1>4. ASSUME HasControl(x)
      PROVE  LET z == PersistOutgoing(Show(i)) IN z \in Session /\ Like(x, z)
  <2> HIDE DEF y
  <2>1. HasControl(y)
    BY <1>2, <1>4 DEF HasControl
  <2>2. c \in Control /\ (c.state \in Early => y.control.state \in Early)
    BY <1>2, <2>1, ControlIsKnown, MachineTyped, MachineEarly
  <2> HIDE DEF c
  <2>3. v \in Session /\ Like(y, v) /\ HasControl(v)
    BY <1>2, <2>2, WithControl
  <2>4. i = [v EXCEPT !.interrupted = TRUE]
    BY <1>2 DEF Session, c
  <2> HIDE DEF v, i
  <2>5. i \in Session /\ Like(v, i) /\ HasControl(i)
    <3> DEFINE k == [v EXCEPT !.interrupted = TRUE]
    <3>1. k \in Session
      BY <2>3 DEF Session
    <3>2. /\ k.control = v.control /\ k.entry = v.entry /\ k.bytes = v.bytes
          /\ k.files = v.files /\ k.off = v.off /\ k.pos = v.pos /\ k.stage = v.stage
          /\ k.frame = v.frame /\ k.cancelled = v.cancelled /\ k.timer = v.timer
          /\ k.firstSave = v.firstSave
      BY <2>3 DEF Session
    <3> HIDE DEF k
    <3>3. Like(v, k) /\ HasControl(k)
      BY <2>3, <3>2 DEF Like, Due, Controlled, HasControl
    <3> QED
      BY <2>4, <3>1, <3>3 DEF k
  <2>6. Show(i) \in Session /\ Like(i, Show(i))
    BY <2>5, ShowLike
  <2>7. PersistOutgoing(Show(i)) \in Session /\ Like(Show(i), PersistOutgoing(Show(i)))
    BY <2>6, PersistOutgoingLike
  <2> QED
    BY <1>3, <2>3, <2>5, <2>6, <2>7, LikeChain
<1>5. FailOutgoing(n) \in Session /\ Like(x, FailOutgoing(n))
  <2> HIDE DEF y
  <2>1. n \in Session
    BY <1>2 DEF Session
  <2>3. /\ n.control = y.control /\ n.entry = y.entry /\ n.bytes = y.bytes
        /\ n.files = y.files /\ n.off = y.off /\ n.pos = y.pos
        /\ n.stage = y.stage /\ n.frame = y.frame /\ n.cancelled = y.cancelled
        /\ n.timer = y.timer /\ n.firstSave = y.firstSave /\ n.awaiting = y.awaiting
        /\ n.query = y.query /\ ~n.interrupted /\ n.offer = y.offer
    BY <1>2 DEF Session
  <2> HIDE DEF n
  <2>4. Like(y, n)
    BY <1>2, <2>1, <2>3, FlagsLike
  <2>2. FailOutgoing(n) \in Session /\ Like(n, FailOutgoing(n))
    BY <2>1, FailOutgoingLike
  <2> QED
    BY <1>3, <2>2, <2>4, LikeChain
<1>6. Like(x, x)
  BY DEF Like, Session
<1>7. \/ MarkOutgoingConnectionLost(x) \in {x, FailOutgoing(n)}
      \/ HasControl(x) /\ MarkOutgoingConnectionLost(x) = PersistOutgoing(Show(i))
  BY DEF MarkOutgoingConnectionLost
<1> HIDE DEF i, n
<1> QED
  BY <1>4, <1>5, <1>6, <1>7

LEMMA ShowWith ==
    ASSUME NEW x \in Session, NEW c \in Control, c.state \in Early => x.control.state \in Early
    PROVE  LET y == Show([x EXCEPT !.control = c])
           IN y \in Session /\ Like(x, y) /\ HasControl(y)
<1> DEFINE v == [x EXCEPT !.control = c]
<1>1. v \in Session /\ Like(x, v) /\ HasControl(v) /\ v.control = c
  BY WithControl
<1> HIDE DEF v
<1>2. Show(v) \in Session /\ Like(v, Show(v)) /\ Show(v).control = v.control
  BY <1>1, ShowLike
<1>3. Like(x, Show(v)) /\ HasControl(Show(v))
  BY <1>1, <1>2, LikeChain DEF HasControl
<1> QED
  BY <1>2, <1>3 DEF v

LEMMA CompletionLike ==
    ASSUME NEW x \in Session, x.then # "none", NEW ok
    PROVE  Completion(x, ok) \in Session /\ Like(x, Completion(x, ok))
<1>0. {"Completed", "Cancelled"} \subseteq Ctl!TransferState
  BY DEF Ctl!TransferState, Ctl!Terminal
<1>1. FinishOutgoingFailure(x) \in Session /\ Like(x, FinishOutgoingFailure(x))
  BY FinishOutgoingFailureLike
<1>2. ASSUME HasControl(x)
      PROVE  /\ Show([x EXCEPT !.control = Ctl!Advance(@, "Completed")]) \in Session
             /\ Like(x, Show([x EXCEPT !.control = Ctl!Advance(@, "Completed")]))
             /\ Show([x EXCEPT !.control = Ctl!ConfirmCancelled(Ctl!Cancel(@))]) \in Session
             /\ Like(x, Show([x EXCEPT !.control = Ctl!ConfirmCancelled(Ctl!Cancel(@))]))
             /\ Show([x EXCEPT !.control = Ctl!ConfirmCancelled(@)]) \in Session
             /\ Like(x, Show([x EXCEPT !.control = Ctl!ConfirmCancelled(@)]))
  <2> DEFINE a == Ctl!Advance(x.control, "Completed")
             b == Ctl!Cancel(x.control)
             d == Ctl!ConfirmCancelled(b)
             e == Ctl!ConfirmCancelled(x.control)
  <2>1. a \in Control /\ (a.state \in Early => x.control.state \in Early)
    BY <1>0, <1>2, AdvanceWith
  <2>2. b \in Control /\ (b.state \in Early => x.control.state \in Early)
        /\ e \in Control /\ (e.state \in Early => x.control.state \in Early)
    BY <1>2, ControlIsKnown, MachineTyped, MachineEarly
  <2> HIDE DEF b
  <2>3. d \in Control /\ (d.state \in Early => x.control.state \in Early)
    BY <2>2, MachineTyped, MachineEarly
  <2> HIDE DEF a, d, e
  <2>4. /\ Show([x EXCEPT !.control = a]) \in Session
        /\ Like(x, Show([x EXCEPT !.control = a]))
        /\ Show([x EXCEPT !.control = d]) \in Session
        /\ Like(x, Show([x EXCEPT !.control = d]))
        /\ Show([x EXCEPT !.control = e]) \in Session
        /\ Like(x, Show([x EXCEPT !.control = e]))
    BY <2>1, <2>2, <2>3, ShowWith
  <2> QED
    BY <2>4 DEF a, b, d, e
<1>3. ~Ctl!AdvanceOk(NoControl, "Completed") /\ ~Ctl!ConfirmCancelledOk(NoControl)
  BY DEF NoControl, Ctl!AdvanceOk, Ctl!CanAdvance, Ctl!Edges, Ctl!ConfirmCancelledOk
<1> DEFINE n == [x EXCEPT !.snap = "Cancelled"]
<1>4. n \in Session /\ Like(x, n)
  <2>1. n \in Session
    BY <1>0 DEF Session
  <2>2. Alike(x, n)
    BY DEF Session, Alike
  <2> HIDE DEF n
  <2> QED
    BY <2>1, <2>2, AlikeIsLike
<1>5. x.then \in {"complete", "cancel", "remoteCancel", "fail"}
  BY DEF Session
<1>6. CASE x.then = "complete"
  <2>1. Ctl!AdvanceOk(x.control, "Completed") => HasControl(x)
    BY <1>3 DEF HasControl
  <2> QED
    BY <1>1, <1>2, <1>6, <2>1 DEF Completion
<1>7. CASE x.then = "cancel"
  BY <1>1, <1>2, <1>4, <1>7 DEF Completion
<1>8. CASE x.then = "remoteCancel"
  <2>1. Ctl!ConfirmCancelledOk(x.control) => HasControl(x)
    BY <1>3 DEF HasControl
  <2> QED
    BY <1>1, <1>2, <1>8, <2>1 DEF Completion
<1>9. CASE x.then = "fail"
  BY <1>1, <1>9 DEF Completion
<1> QED
  BY <1>5, <1>6, <1>7, <1>8, <1>9

-----------------------------------------------------------------------------
(* The actions.                                                             *)
Bounded == losses \in 0..MaxLosses /\ former \in Formers
TInv == IInv /\ Measured(s) /\ Bounded

LEMMA SenderIsNotDue ==
    ASSUME NEW x, NEW c, NEW done, NEW kept, Good(x, c, done, kept)
    PROVE  /\ ~x.cancelled /\ (x.stage # "none" \/ x.awaiting) => ~Due(x) /\ x.stage # "none"
           /\ ~x.cancelled /\ x.timer => ~x.firstSave /\ x.control.state \notin Early
  BY DEF Good, Places, Due, Idle

LEMMA LikeNotDue ==
    ASSUME NEW x, NEW y, Like(x, y), x.stage # "none" /\ ~x.cancelled => ~Due(x)
    PROVE  y.stage # "none" /\ ~y.cancelled => ~Due(y)
  BY DEF Like

LEMMA FreshMeasured ==
    /\ Measured(FreshSession)
    /\ LET c == [state |-> "Interrupted", bytes |-> 0, files |-> 0]
           y == [FreshSession EXCEPT !.control = c, !.snap = "Interrupted", !.manifest = TRUE,
                                     !.interrupted = TRUE, !.hydrated = TRUE]
       IN Measured(y)
<1> DEFINE x == FreshSession
           c == [state |-> "Interrupted", bytes |-> 0, files |-> 0]
           v == [x EXCEPT !.control = c]
           y == [x EXCEPT !.control = c, !.snap = "Interrupted", !.manifest = TRUE,
                          !.interrupted = TRUE, !.hydrated = TRUE]
           z == [v EXCEPT !.snap = "Interrupted", !.manifest = TRUE,
                          !.interrupted = TRUE, !.hydrated = TRUE]
           zero == [f \in Files |-> 0]
<1>1. /\ 0 \in 0..TotalBytes /\ 0 \in 0..N /\ 1 \in 1..N + 1 /\ 0 \in 0..Pages
      /\ Before[1] = 0 /\ \A f \in Files : 0 <= Size[f]
  BY BeforeGrows, OutgoingAssumption DEF Files
<1>2. {"Interrupted", "Preparing"} \subseteq Ctl!TransferState
  BY DEF Ctl!TransferState
<1>3. zero \in [Files -> Nat] /\ \A f \in Files : zero[f] = 0
  OBVIOUS
<1>4. x.off = zero
  BY DEF FreshSession
<1>5. x \in Session
  <2>1. x.control \in Control \cup {NoControl}
    BY DEF FreshSession
  <2>2. x.snap \in Ctl!TransferState /\ x.off \in [Files -> Nat]
    BY <1>2, <1>3, <1>4 DEF FreshSession
  <2> QED
    BY <1>1, <2>1, <2>2 DEF FreshSession, Session
<1> HIDE DEF zero
<1>6. /\ x.control = NoControl /\ x.entry = 1 /\ x.bytes = 0 /\ x.files = 0 /\ x.off = zero
      /\ x.stage = "none" /\ ~x.timer /\ ~x.awaiting /\ ~x.query /\ ~x.interrupted
      /\ ~x.firstSave /\ x.offer = "none"
  BY <1>4 DEF FreshSession
<1> HIDE DEF x
<1>7. 0 <= Before[1] + (IF 1 > N THEN 0 ELSE zero[1])
  BY <1>1, <1>3, OutgoingAssumption DEF Files
<1>8. Measured(x)
  BY <1>1, <1>3, <1>5, <1>6, <1>7 DEF Measured, Paced, Base, Controlled
<1>9. c \in Control /\ c.state \notin Early
  BY <1>1, <1>2 DEF Control, Early
<1> HIDE DEF c
<1>10. v \in Session /\ Like(x, v) /\ HasControl(v) /\ Measured(v)
  BY <1>5, <1>8, <1>9, WithControl, LikeKeeps
<1>11. y = z
  BY <1>5 DEF Session
<1> HIDE DEF v
<1>12. z \in Session
  BY <1>2, <1>10 DEF Session
<1>13. /\ z.control = v.control /\ z.entry = v.entry /\ z.bytes = v.bytes
       /\ z.files = v.files /\ z.off = v.off /\ z.pos = v.pos /\ z.stage = v.stage
       /\ z.frame = v.frame /\ z.cancelled = v.cancelled /\ z.timer = v.timer
       /\ z.firstSave = v.firstSave
  BY <1>10 DEF Session
<1> HIDE DEF z
<1>14. Like(v, z)
  BY <1>10, <1>13 DEF Like, Due, Controlled, HasControl
<1>15. Measured(z)
  BY <1>10, <1>12, <1>14, LikeKeeps
<1> QED
  BY <1>8, <1>11, <1>15 DEF x, c

LEMMA PreparationMeasured ==
    ASSUME TInv, NEW built, NEW reachable, NEW sent,
           FinishManifestPreparation(built, reachable, sent)
    PROVE  Measured(s')
<1> DEFINE c == [state |-> "Preparing", bytes |-> 0, files |-> 0]
           v == [s EXCEPT !.control = c]
           y == [s EXCEPT !.manifest = TRUE, !.control = c]
           z == [v EXCEPT !.manifest = TRUE]
<1>0. Measured(s) /\ s \in Session
  BY DEF TInv, Measured
<1>1. c \in Control /\ s.control.state \in Early
  <2>1. 0 \in 0..TotalBytes /\ 0 \in 0..N
    BY BeforeGrows, OutgoingAssumption
  <2>2. s.control.state = "None"
    BY DEF TInv, IInv, Good, Unprepared, FinishManifestPreparation
  <2> QED
    BY <2>1, <2>2 DEF Control, Ctl!TransferState, Early
<1>2. s' \in {FailOutgoing(s), SendOffer(y, sent), y, FailOutgoing(y)}
  BY DEF FinishManifestPreparation
<1> HIDE DEF c
<1>3. v \in Session /\ Like(s, v) /\ HasControl(v) /\ Measured(v)
  BY <1>0, <1>1, WithControl, LikeKeeps
<1>4. y = z
  BY <1>0 DEF Session
<1> HIDE DEF v, y
<1>5. z \in Session
  BY <1>3 DEF Session
<1>6. Alike(v, z)
  BY <1>3 DEF Session, Alike
<1> HIDE DEF z
<1>7. Measured(y) /\ y \in Session
  BY <1>3, <1>4, <1>5, <1>6, AlikeIsLike, LikeKeeps
<1>8. Measured(FailOutgoing(s)) /\ Measured(FailOutgoing(y)) /\ Measured(SendOffer(y, sent))
  BY <1>0, <1>7, FailOutgoingLike, LikeKeeps, SendOfferMeasured
<1> QED
  BY <1>2, <1>7, <1>8

LEMMA OffersMeasured ==
    ASSUME TInv, NEW sent, NEW supported,
           PeerReady(sent, supported) \/ OfferAgain(sent, supported)
             \/ DispatchStale(sent, supported)
    PROVE  Measured(s')
<1> DEFINE p == [s EXCEPT !.poll = FALSE]
           t == [s EXCEPT !.task = "none"]
<1>0. Measured(s) /\ s \in Session
  BY DEF TInv, Measured
<1>1. Measured(p) /\ Measured(t)
  <2>1. p \in Session
    BY <1>0 DEF Session
  <2>2. t \in Session
    BY <1>0 DEF Session
  <2>3. Alike(s, p)
    BY <1>0 DEF Session, Alike
  <2>4. Alike(s, t)
    BY <1>0 DEF Session, Alike
  <2> HIDE DEF p, t
  <2> QED
    BY <1>0, <2>1, <2>2, <2>3, <2>4, AlikeIsLike, LikeKeeps
<1>2. s' \in {OfferPreparedTransfers(s, sent, supported),
              OfferPreparedTransfers(p, sent, supported),
              OfferPreparedTransfers(t, sent, supported), t}
  BY DEF PeerReady, OfferAgain, DispatchStale
<1> HIDE DEF p, t
<1> QED
  BY <1>0, <1>1, <1>2, OfferPreparedTransfersMeasured

LEMMA AcceptMeasured ==
    ASSUME TInv, NEW good, HandleAccept(good)
    PROVE  Measured(s')
<1> DEFINE o == [s EXCEPT !.offer = "accepted"]
           c == Ctl!Advance(s.control, "Queued")
           v == [s EXCEPT !.control = c]
           w == [o EXCEPT !.control = Ctl!Advance(@, "Queued"), !.firstSave = TRUE]
           z == [v EXCEPT !.offer = "accepted", !.firstSave = TRUE]
<1>0. Measured(s) /\ s \in Session /\ HasControl(s)
  BY DEF TInv, Measured, HandleAccept
<1>1. Measured(o)
  <2>1. o \in Session
    BY <1>0 DEF Session
  <2>2. o.control = s.control
    BY <1>0 DEF Session
  <2>3. Like(s, o)
    BY <1>0, <2>1, <2>2 DEF Session, Like, Due, Controlled, HasControl
  <2> HIDE DEF o
  <2> QED
    BY <1>0, <2>1, <2>3, LikeKeeps
<1>2. ASSUME s.offer = "awaiting", Ctl!AdvanceOk(s.control, "Queued")
      PROVE  Measured(PersistOutgoing(Show(w)))
  <2>1. ~s.cancelled => s.control.state \in Early
    BY <1>2 DEF TInv, IInv, Good, Places, Ctl!AdvanceOk, Ctl!CanAdvance, Ctl!Edges, Early
  <2>2. c \in Control /\ (c.state \in Early => s.control.state \in Early)
    <3>1. "Queued" \in Ctl!TransferState
      BY DEF Ctl!TransferState
    <3> QED
      BY <1>0, <3>1, AdvanceWith
  <2>3. w = z
    BY <1>0 DEF Session
  <2> HIDE DEF w, c
  <2>4. v \in Session /\ Like(s, v) /\ HasControl(v) /\ Measured(v)
    BY <1>0, <2>2, WithControl, LikeKeeps
  <2> HIDE DEF v
  <2>5. z \in Session
    BY <2>4 DEF Session
  <2>6. /\ z.control = v.control /\ z.entry = v.entry /\ z.bytes = v.bytes
        /\ z.files = v.files /\ z.off = v.off /\ z.pos = v.pos /\ z.stage = v.stage
        /\ z.frame = v.frame /\ z.cancelled = v.cancelled
    BY <2>4 DEF Session
  <2> HIDE DEF z
  <2>7. Base(v) \/ v.cancelled
    BY <1>0, <2>1, <2>4 DEF Measured, Due, Like, Base
  <2>8. Measured(z) /\ HasControl(z)
    BY <2>4, <2>5, <2>6, <2>7 DEF Measured, Paced, Base, Controlled, HasControl
  <2>9. Show(w) \in Session /\ Measured(Show(w))
    BY <2>3, <2>5, <2>8, ShowLike, LikeKeeps
  <2> QED
    BY <2>9, PersistOutgoingLike, LikeKeeps
<1>3. Measured(FailOutgoing(s)) /\ Measured(FailOutgoing(o))
  <2>1. o \in Session
    BY <1>1 DEF Measured
  <2> HIDE DEF o
  <2> QED
    BY <1>0, <1>1, <2>1, FailOutgoingLike, LikeKeeps
<1>4. \/ s' \in {FailOutgoing(s), FailOutgoing(o)}
      \/ /\ s.offer = "awaiting" /\ Ctl!AdvanceOk(s.control, "Queued")
         /\ s' = PersistOutgoing(Show(w))
  BY DEF HandleAccept
<1> HIDE DEF o, w
<1> QED
  BY <1>2, <1>3, <1>4

LEMMA RejectMeasured ==
    ASSUME TInv, HandleReject
    PROVE  Measured(s')
<1> DEFINE offer == IF s.offer = "awaiting" THEN "rejected" ELSE s.offer
           o == [s EXCEPT !.offer = offer]
           c == Ctl!Advance(s.control, "Rejected")
           w == [s EXCEPT !.offer = offer, !.control = Ctl!Advance(@, "Rejected")]
           z == [o EXCEPT !.control = c]
<1>0. Measured(s) /\ s \in Session /\ HasControl(s)
  BY DEF TInv, Measured, HandleReject
<1>1. offer \in {"none", "awaiting", "accepted", "rejected"}
  BY <1>0 DEF Session
<1>2. s' = Show(w) /\ w = z
  BY <1>0 DEF HandleReject, Session
<1> HIDE DEF offer
<1>3. o \in Session /\ o.control = s.control
  BY <1>0, <1>1 DEF Session
<1>4. Like(s, o)
  BY <1>0, <1>3 DEF Session, Like, Due, Controlled, HasControl
<1> HIDE DEF o
<1>5. c \in Control /\ (c.state \in Early => o.control.state \in Early)
  <2>1. "Rejected" \in Ctl!TransferState
    BY DEF Ctl!TransferState, Ctl!Terminal
  <2> QED
    BY <1>0, <1>3, <2>1, AdvanceWith
<1> HIDE DEF c
<1>6. Show(z) \in Session /\ Like(o, Show(z))
  BY <1>3, <1>5, ShowWith
<1> QED
  BY <1>0, <1>2, <1>3, <1>4, <1>6, LikeKeeps

LEMMA PageMeasured ==
    ASSUME TInv, NEW sent, SendNextManifestPage(sent)
    PROVE  Measured(s')
<1> DEFINE y == [s EXCEPT !.timer = FALSE]
           page == s.page + 1
           w == [s EXCEPT !.page = page]
           z == [y EXCEPT !.page = @ + 1, !.timer = TRUE]
<1>0. Measured(s) /\ s \in Session /\ s.timer /\ HasControl(s)
  BY DEF TInv, Measured, Controlled, SendNextManifestPage
<1>1. y \in Session
  BY <1>0 DEF Session
<1>2. Alike(s, [y EXCEPT !.timer = TRUE]) /\ ~y.timer
  BY <1>0 DEF Alike, Session
<1>3. /\ y.control = s.control /\ y.entry = s.entry /\ y.bytes = s.bytes
      /\ y.files = s.files /\ y.off = s.off /\ y.pos = s.pos /\ y.stage = s.stage
      /\ y.frame = s.frame /\ y.cancelled = s.cancelled /\ y.firstSave = s.firstSave
      /\ y.awaiting = s.awaiting /\ y.query = s.query /\ y.interrupted = s.interrupted
      /\ y.offer = s.offer
  BY <1>0 DEF Session
<1>4. ~s.cancelled => Base(s) /\ ~s.firstSave /\ s.control.state \notin Early
  BY <1>0, SenderIsNotDue DEF TInv, IInv, Measured, Due
<1>5. ASSUME s.page < Pages
      PROVE  Measured(z)
  <2>1. page \in 0..Pages
    BY <1>0, <1>5, OutgoingAssumption DEF Session
  <2>2. z = w
    BY <1>0 DEF Session
  <2> HIDE DEF page, z, y
  <2>3. w \in Session
    BY <1>0, <2>1 DEF Session
  <2>4. Alike(s, w)
    BY <1>0 DEF Session, Alike
  <2> HIDE DEF w
  <2> QED
    BY <1>0, <2>2, <2>3, <2>4, AlikeIsLike, LikeKeeps
<1>6. \/ s' = y \/ s' = FailOutgoing(y) \/ s' = StartNextOutgoingFile(y, conn)
      \/ (s.page < Pages /\ s' = z)
  <2>1. y.page = s.page
    BY <1>0 DEF Session
  <2>2. s' = IF s.cancelled THEN y
             ELSE IF ~sent THEN FailOutgoing(y)
             ELSE IF s.page < Pages THEN z
             ELSE StartNextOutgoingFile(y, conn)
    BY DEF SendNextManifestPage
  <2> HIDE DEF y, z
  <2> QED
    BY <2>2
<1> HIDE DEF y, z
<1>7. Like(s, y)
  BY <1>0, <1>1, <1>2, <1>3, FlagsLike
<1>8. Measured(y) /\ HasControl(y) /\ (~y.cancelled => ~Due(y) /\ Base(y))
  BY <1>0, <1>1, <1>2, <1>3, <1>4, <1>7, LikeKeeps DEF Due, Base, HasControl
<1>9. Measured(FailOutgoing(y)) /\ Measured(StartNextOutgoingFile(y, conn))
  BY <1>1, <1>8, FailOutgoingLike, LikeKeeps, StartNextOutgoingFileMeasured
<1> QED
  BY <1>5, <1>6, <1>8, <1>9

LEMMA PumpMeasured ==
    ASSUME TInv,
           \/ \E drained, sink, room : WriteCapacityAvailable(drained, sink, room)
           \/ \E pulled, sink, room : DispatchSenderPumpResult(pulled, sink, room)
    PROVE  Measured(s')
<1> DEFINE y == [s EXCEPT !.task = "none"]
<1>0. Measured(s) /\ s \in Session
  BY DEF TInv, Measured
<1>1. s.stage # "none" /\ ~s.cancelled => ~Due(s)
  BY SenderIsNotDue DEF TInv, IInv
<1>2. \E z \in {s, y, NextFrame(y)} : \E sink, room :
        s' \in {y, FailOutgoing(y), ScheduleSenderPump(z, conn, sink, room)}
  <2>1. CASE \E drained, sink, room : WriteCapacityAvailable(drained, sink, room)
    BY <2>1 DEF WriteCapacityAvailable
  <2>2. CASE \E pulled, sink, room : DispatchSenderPumpResult(pulled, sink, room)
    BY <2>2 DEF DispatchSenderPumpResult
  <2> QED
    BY <2>1, <2>2
<1>3. y \in Session
  BY <1>0 DEF Session
<1>4. Alike(s, y)
  BY <1>0 DEF Session, Alike
<1> HIDE DEF y
<1>5. Like(s, y) /\ Measured(y)
  BY <1>0, <1>3, <1>4, AlikeIsLike, LikeKeeps
<1>6. y.stage # "none" /\ ~y.cancelled => ~Due(y)
  BY <1>1, <1>5, LikeNotDue
<1>7. \A z \in {s, y, NextFrame(y)} :
        Measured(z) /\ (z.stage # "none" /\ ~z.cancelled => ~Due(z))
  BY <1>0, <1>1, <1>5, <1>6, NextFrameMeasured
<1>8. Measured(FailOutgoing(y))
  BY <1>3, <1>5, FailOutgoingLike, LikeKeeps
<1>9. \A z \in {s, y, NextFrame(y)} : \A sink, room :
        Measured(ScheduleSenderPump(z, conn, sink, room))
  BY <1>7, ScheduleSenderPumpMeasured
<1> QED
  BY <1>2, <1>5, <1>8, <1>9

LEMMA FileResultMeasured ==
    ASSUME TInv, NEW f \in Files, NEW ok, HandleFileResult(f, ok)
    PROVE  Measured(s')
<1> DEFINE entry == s.entry + 1
           files == s.files + 1
           y == [s EXCEPT !.files = @ + 1, !.entry = @ + 1, !.stage = "none",
                          !.frame = "none", !.awaiting = FALSE]
           u == [s EXCEPT !.files = files, !.entry = entry]
           v == [u EXCEPT !.stage = "none", !.frame = "none", !.awaiting = FALSE]
<1>0. Measured(s) /\ s \in Session /\ s.awaiting /\ HasControl(s) /\ s.entry = f
  BY DEF TInv, Measured, Controlled, HandleFileResult
<1>1. /\ N \in Nat /\ entry \in 1..N + 1 /\ files \in 0..N /\ files = entry - 1
      /\ Before[entry] = Before[f] + Size[f]
      /\ Before[f] \in Nat /\ Before[entry] \in Nat /\ Size[f] \in Nat
  <2>1. N \in Nat /\ f \in 1..N /\ Size[f] \in Nat
    BY OutgoingAssumption DEF Files
  <2>2. entry \in 1..N + 1 /\ f \in 1..N + 1
    BY <1>0, <2>1
  <2>3. s.files = s.entry - 1
    BY <1>0 DEF Measured
  <2> QED
    BY <1>0, <2>1, <2>2, <2>3, BeforeGrows
<1>2. ~s.cancelled => s.bytes <= Before[entry]
  <2> SUFFICES ASSUME ~s.cancelled
               PROVE  s.bytes <= Before[entry]
    OBVIOUS
  <2>1. s.stage # "none"
    BY <1>0, SenderIsNotDue DEF TInv, IInv
  <2>2. /\ s.bytes + (IF s.frame = "chunk" THEN 1 ELSE 0) <= Before[f] + s.pos
        /\ s.pos <= Size[f]
    BY <1>0, <2>1 DEF Measured, Paced
  <2>3. s.bytes \in Nat /\ s.pos \in Nat
    BY <1>0, BeforeGrows DEF Session
  <2> QED
    BY <1>1, <2>2, <2>3
<1>3. y = v
  BY <1>0 DEF Session
<1>4. s' \in {FailOutgoing(s), StartNextOutgoingFile(UpdateOutgoingProgress(y), conn)}
  BY DEF HandleFileResult
<1>5. ~s.cancelled => ~Due(s)
  BY <1>0, SenderIsNotDue DEF TInv, IInv
<1> HIDE DEF y, files, entry
<1>6. u \in Session
  <2>1. s \in Session /\ entry \in 1..N + 1 /\ files \in 0..N
    BY <1>0, <1>1
  <2> QED
    BY <2>1 DEF Session
<1>7. /\ u.files = files /\ u.entry = entry /\ u.bytes = s.bytes /\ u.off = s.off
      /\ u.control = s.control /\ u.cancelled = s.cancelled /\ u.timer = s.timer
      /\ u.firstSave = s.firstSave
  BY <1>0 DEF Session
<1> HIDE DEF u
<1>8. v \in Session
  BY <1>6 DEF Session
<1>9. /\ v.files = u.files /\ v.entry = u.entry /\ v.bytes = u.bytes /\ v.off = u.off
      /\ v.control = u.control /\ v.cancelled = u.cancelled /\ v.timer = u.timer
      /\ v.firstSave = u.firstSave /\ v.stage = "none"
  BY <1>6 DEF Session
<1> HIDE DEF v
<1>10. HasControl(v) /\ (~v.cancelled => ~Due(v) /\ Base(v))
  <2>1. HasControl(v) /\ (~v.cancelled => ~Due(v))
    BY <1>0, <1>5, <1>7, <1>9 DEF HasControl, Due
  <2>2. entry \in 1..N + 1 /\ ~(entry > N) => s.off[entry] \in Nat
    BY <1>0, <1>1 DEF Session, Files
  <2>3. s.bytes \in Nat
    BY <1>0, BeforeGrows DEF Session
  <2>4. ~s.cancelled => s.bytes <= Before[entry] + (IF entry > N THEN 0 ELSE s.off[entry])
    BY <1>1, <1>2, <2>2, <2>3
  <2> QED
    BY <1>7, <1>9, <2>1, <2>4 DEF Base
<1>11. Measured(v)
  BY <1>0, <1>1, <1>7, <1>8, <1>9, <1>10 DEF Measured, Paced, Controlled
<1> DEFINE w == UpdateOutgoingProgress(v)
<1>12. w \in Session /\ Like(v, w) /\ HasControl(w) /\ Measured(w)
  BY <1>8, <1>10, <1>11, UpdateOutgoingProgressLike, LikeKeeps
<1> HIDE DEF w
<1>13. ~w.cancelled => ~Due(w) /\ Base(w)
  BY <1>10, <1>12 DEF Like, Base
<1>14. Measured(StartNextOutgoingFile(w, conn))
  BY <1>12, <1>13, StartNextOutgoingFileMeasured
<1>15. Measured(FailOutgoing(s))
  BY <1>0, FailOutgoingLike, LikeKeeps
<1> QED
  BY <1>3, <1>4, <1>14, <1>15 DEF w

LEMMA ResumeResponseMeasured ==
    ASSUME TInv,
           \/ HandleBadResumeResponse
           \/ \E reported \in Offsets : HandleResumeResponse(reported)
    PROVE  Measured(s')
<1>0. Measured(s) /\ s \in Session
  BY DEF TInv, Measured
<1>1. CASE HandleBadResumeResponse
  BY <1>0, <1>1, FailOutgoingLike, LikeKeeps DEF HandleBadResumeResponse
<1>2. ASSUME NEW reported \in Offsets, HandleResumeResponse(reported)
      PROVE  Measured(s')
  <2> DEFINE a == RestartAt(s, reported)
             b == Rehydrated(a)
             d == UpdateOutgoingProgress(b)
             e == PersistOutgoing(d)
             z == [e EXCEPT !.timer = TRUE]
  <2>1. HasControl(s) /\ s' = z
    BY <1>0, <1>2 DEF HandleResumeResponse, Measured, Controlled
  <2>2. Measured(a) /\ a \in Session /\ Base(a) /\ HasControl(a)
    BY <1>0, <2>1, RestartAtMeasured DEF Measured
  <2> HIDE DEF a
  <2>3. b \in Session /\ Like(a, b) /\ HasControl(b) /\ Measured(b)
    BY <2>2, RehydratedLike, LikeKeeps
  <2> HIDE DEF b
  <2>4. d \in Session /\ Like(b, d) /\ HasControl(d) /\ Measured(d)
    BY <2>3, UpdateOutgoingProgressLike, LikeKeeps
  <2> HIDE DEF d
  <2>5. e \in Session /\ Like(d, e) /\ HasControl(e) /\ Measured(e)
    BY <2>4, PersistOutgoingLike, LikeKeeps DEF Like
  <2> HIDE DEF e
  <2>6. Base(e)
    BY <2>2, <2>3, <2>4, <2>5 DEF Like, Base
  <2>7. z \in Session
    BY <2>5 DEF Session
  <2>8. /\ z.control = e.control /\ z.entry = e.entry /\ z.bytes = e.bytes
        /\ z.files = e.files /\ z.off = e.off /\ z.pos = e.pos /\ z.stage = e.stage
        /\ z.frame = e.frame /\ z.cancelled = e.cancelled
    BY <2>5 DEF Session
  <2> HIDE DEF z
  <2>9. HasControl(z) /\ Base(z) /\ Paced(z)
    BY <2>5, <2>6, <2>8 DEF HasControl, Base, Paced, Measured
  <2>10. Measured(z)
    BY <2>5, <2>7, <2>8, <2>9 DEF Measured, Controlled
  <2> QED
    BY <2>1, <2>10
<1> QED
  BY <1>1, <1>2

LEMMA PauseMeasured ==
    ASSUME TInv, RemotePause \/ \E sent : PauseOutgoing(sent)
    PROVE  Measured(s')
<1> DEFINE c == Ctl!Pause(s.control)
           v == [s EXCEPT !.paused = TRUE]
           y == Show([s EXCEPT !.control = Ctl!Pause(@), !.paused = TRUE])
           z == Show([v EXCEPT !.control = c])
<1>0. Measured(s) /\ s \in Session /\ HasControl(s)
  BY DEF TInv, Measured, PauseOutgoing, RemotePause
<1>1. s' = y \/ s' = FailOutgoing(y)
  BY DEF PauseOutgoing, RemotePause
<1>2. y = z /\ v.control = s.control
  BY <1>0 DEF Session
<1>3. v \in Session
  BY <1>0 DEF Session
<1>4. Alike(s, v)
  BY <1>0 DEF Session, Alike
<1>5. c \in Control /\ (c.state \in Early => s.control.state \in Early)
  BY <1>0, ControlIsKnown, MachineTyped, MachineEarly
<1> HIDE DEF y, v, c
<1>6. Measured(v)
  BY <1>0, <1>3, <1>4, AlikeIsLike, LikeKeeps
<1>7. z \in Session /\ Measured(z)
  BY <1>2, <1>3, <1>5, <1>6, ShowWith, LikeKeeps
<1> HIDE DEF z
<1>8. Measured(FailOutgoing(z))
  BY <1>7, FailOutgoingLike, LikeKeeps
<1> QED
  BY <1>1, <1>2, <1>7, <1>8

LEMMA ResumeMeasured ==
    ASSUME TInv,
           \/ \E sink, room : RemoteResume(sink, room)
           \/ \E sent, sink, room : ResumeOutgoing(sent, sink, room)
    PROVE  Measured(s')
<1> DEFINE y == Unpause(s)
           z(sink, room) == ScheduleSenderPump(y, conn, sink, room)
<1>0. Measured(s) /\ s \in Session /\ HasControl(s)
  BY DEF TInv, Measured, ResumeOutgoing, RemoteResume
<1>1. \E sink, room : s' \in {FailOutgoing(y), z(sink, room), Show(z(sink, room))}
  <2>1. CASE \E sink, room : RemoteResume(sink, room)
    BY <2>1 DEF RemoteResume
  <2>2. CASE \E sent, sink, room : ResumeOutgoing(sent, sink, room)
    BY <2>2 DEF ResumeOutgoing
  <2> QED
    BY <2>1, <2>2
<1>2. s.stage # "none" /\ ~s.cancelled => ~Due(s)
  BY SenderIsNotDue DEF TInv, IInv
<1>3. y \in Session /\ Like(s, y) /\ HasControl(y) /\ Measured(y)
  BY <1>0, UnpauseLike, LikeKeeps
<1> HIDE DEF y
<1>4. y.stage # "none" /\ ~y.cancelled => ~Due(y)
  BY <1>2, <1>3, LikeNotDue
<1>5. Measured(FailOutgoing(y))
  BY <1>3, FailOutgoingLike, LikeKeeps
<1>6. \A sink, room : Measured(z(sink, room)) /\ HasControl(z(sink, room))
  BY <1>3, <1>4, ScheduleSenderPumpMeasured
<1> HIDE DEF z
<1>7. \A sink, room : Measured(Show(z(sink, room)))
  <2> SUFFICES ASSUME NEW sink, NEW room
               PROVE  Measured(Show(z(sink, room)))
    OBVIOUS
  <2>1. z(sink, room) \in Session
    BY <1>6 DEF Measured
  <2> QED
    BY <1>6, <2>1, ShowLike, LikeKeeps
<1> QED
  BY <1>1, <1>5, <1>6, <1>7

LEMMA CancelMeasured ==
    ASSUME TInv, CancelOutgoing \/ RemoteCancel
    PROVE  Measured(s')
<1> DEFINE c == Ctl!Cancel(s.control)
           v == [s EXCEPT !.cancelled = TRUE, !.ending = TRUE]
           y == Show([s EXCEPT !.control = Ctl!Cancel(@), !.cancelled = TRUE,
                               !.ending = TRUE])
           z == Show([v EXCEPT !.control = c])
<1>0. Measured(s) /\ s \in Session
  BY DEF TInv, Measured
<1>1. \/ s' = RemoveOutgoingRecovery(v, "cancel")
      \/ HasControl(s) /\ s' = RemoveOutgoingRecovery(y, "remoteCancel")
  BY DEF CancelOutgoing, RemoteCancel
<1>2. y = z /\ v.control = s.control
  BY <1>0 DEF Session
<1>3. v \in Session
  BY <1>0 DEF Session
<1>4. /\ v.entry = s.entry /\ v.bytes = s.bytes /\ v.files = s.files /\ v.off = s.off
      /\ v.pos = s.pos /\ v.stage = s.stage /\ v.frame = s.frame /\ v.cancelled
      /\ v.timer = s.timer /\ v.firstSave = s.firstSave /\ v.awaiting = s.awaiting
      /\ v.query = s.query /\ v.interrupted = s.interrupted /\ v.offer = s.offer
  BY <1>0 DEF Session
<1> HIDE DEF v, y
<1>5. Measured(v)
  BY <1>0, <1>2, <1>3, <1>4, FlagsLike, LikeKeeps
<1>6. Measured(RemoveOutgoingRecovery(v, "cancel"))
  BY <1>3, <1>5, RemoveOutgoingRecoveryLike, LikeKeeps
<1>7. ASSUME HasControl(s)
      PROVE  Measured(RemoveOutgoingRecovery(z, "remoteCancel"))
  <2>1. c \in Control /\ (c.state \in Early => v.control.state \in Early)
    BY <1>0, <1>2, <1>7, ControlIsKnown, MachineTyped, MachineEarly
  <2> HIDE DEF c
  <2>2. z \in Session /\ Measured(z)
    BY <1>3, <1>5, <2>1, ShowWith, LikeKeeps
  <2> HIDE DEF z
  <2> QED
    BY <2>2, RemoveOutgoingRecoveryLike, LikeKeeps
<1> HIDE DEF z
<1> QED
  BY <1>1, <1>2, <1>6, <1>7

LEMMA SaveMeasured ==
    ASSUME TInv, NEW ok, SaveFinished(ok)
    PROVE  Measured(s')
<1> DEFINE timer == s.timer \/ (s.firstSave /\ ~s.cancelled /\ ~s.interrupted /\ ~s.ending)
           y == [s EXCEPT !.saving = FALSE]
           w == [y EXCEPT !.firstSave = FALSE]
           z == [w EXCEPT !.timer = timer]
           k == [y EXCEPT !.wantRemove = FALSE, !.removing = TRUE]
           t == [y EXCEPT !.firstSave = FALSE,
                          !.timer = @ \/ (s.firstSave /\ ~s.cancelled /\
                                          ~s.interrupted /\ ~s.ending)]
<1>0. Measured(s) /\ s \in Session
  BY DEF TInv, Measured
<1>1. s' \in {k, StartSave(y), FailOutgoing(w), t}
  BY DEF SaveFinished, StartRemoval
<1>2. t = z /\ timer \in BOOLEAN /\ (timer => s.timer \/ s.firstSave)
  BY <1>0 DEF Session
<1>3. y \in Session
  BY <1>0 DEF Session
<1>4. Alike(s, y)
  BY <1>0 DEF Session, Alike
<1> HIDE DEF y, timer
<1>5. Measured(y) /\ y.timer = s.timer /\ y.firstSave = s.firstSave
  BY <1>0, <1>3, <1>4, AlikeIsLike, LikeKeeps DEF Alike
<1>6. Measured(k)
  <2>1. k \in Session
    BY <1>3 DEF Session
  <2>2. Alike(y, k)
    BY <1>3 DEF Session, Alike
  <2> HIDE DEF k
  <2> QED
    BY <1>3, <1>5, <2>1, <2>2, AlikeIsLike, LikeKeeps
<1>7. w \in Session
  BY <1>3 DEF Session
<1>8. Alike(y, [w EXCEPT !.firstSave = y.firstSave]) /\ ~w.firstSave
  BY <1>3 DEF Session, Alike
<1>9. /\ w.control = y.control /\ w.entry = y.entry /\ w.bytes = y.bytes
      /\ w.files = y.files /\ w.off = y.off /\ w.pos = y.pos /\ w.stage = y.stage
      /\ w.frame = y.frame /\ w.cancelled = y.cancelled /\ w.timer = y.timer
      /\ w.awaiting = y.awaiting /\ w.query = y.query /\ w.interrupted = y.interrupted
      /\ w.offer = y.offer
  BY <1>3 DEF Session
<1> HIDE DEF w
<1>10. Measured(w)
  BY <1>3, <1>5, <1>7, <1>8, <1>9, FlagsLike, LikeKeeps
<1>11. z \in Session
  BY <1>2, <1>7 DEF Session
<1>12. /\ z.control = w.control /\ z.entry = w.entry /\ z.bytes = w.bytes
       /\ z.files = w.files /\ z.off = w.off /\ z.pos = w.pos /\ z.stage = w.stage
       /\ z.frame = w.frame /\ z.cancelled = w.cancelled /\ z.timer = timer
       /\ z.awaiting = w.awaiting /\ z.query = w.query /\ z.interrupted = w.interrupted
       /\ z.offer = w.offer /\ z.firstSave = w.firstSave
  BY <1>7 DEF Session
<1> HIDE DEF z
<1>13. Measured(z)
  <2>1. ~z.cancelled /\ (z.timer \/ z.firstSave) => y.timer \/ y.firstSave
    BY <1>2, <1>5, <1>8, <1>12
  <2>2. z.timer => y.timer \/ y.firstSave \/ y.query \/ y.stage # "none"
    BY <1>2, <1>5, <1>12
  <2>3. Like(y, z)
    BY <1>3, <1>8, <1>9, <1>11, <1>12, <2>1, <2>2, FlagsLike
  <2> QED
    BY <1>3, <1>5, <1>11, <2>3, LikeKeeps
<1>14. Measured(StartSave(y)) /\ Measured(FailOutgoing(w))
  BY <1>3, <1>5, <1>7, <1>10, StartSaveLike, FailOutgoingLike, LikeKeeps
<1> QED
  BY <1>1, <1>2, <1>6, <1>13, <1>14

LEMMA RemovalMeasured ==
    ASSUME TInv, NEW ok, RemovalFinished(ok)
    PROVE  Measured(s')
<1> DEFINE y == [s EXCEPT !.removing = FALSE, !.ending = FALSE]
           k == Completion(y, ok)
           z == [k EXCEPT !.then = "none"]
<1>0. Measured(s) /\ s \in Session /\ s' = z
  BY DEF TInv, Measured, RemovalFinished
<1>1. y \in Session
  BY <1>0 DEF Session
<1>2. Alike(s, y)
  BY <1>0 DEF Session, Alike
<1>3. y.then = s.then /\ s.then # "none"
  <2>1. s.then # "none"
    BY DEF TInv, IInv, Good, Removal, RemovalFinished
  <2> QED
    BY <1>0, <2>1 DEF Session
<1> HIDE DEF y
<1>4. Measured(y)
  BY <1>0, <1>1, <1>2, AlikeIsLike, LikeKeeps
<1>5. k \in Session /\ Measured(k)
  BY <1>1, <1>3, <1>4, CompletionLike, LikeKeeps
<1> HIDE DEF k
<1>6. z \in Session
  BY <1>5 DEF Session
<1>7. Alike(k, z)
  BY <1>5 DEF Session, Alike
<1> HIDE DEF z
<1> QED
  BY <1>0, <1>5, <1>6, <1>7, AlikeIsLike, LikeKeeps

LEMMA NextMeasured == TInv /\ [Next]_vars => Measured(s)' /\ Bounded'
<1> SUFFICES ASSUME TInv, [Next]_vars
             PROVE  Measured(s') /\ Bounded'
  OBVIOUS
<1>0. Measured(s) /\ s \in Session /\ Bounded /\ MaxLosses \in Nat
  BY OutgoingAssumption DEF TInv, Measured
<1>1. ASSUME Revoke \/ UNCHANGED vars
      PROVE  Measured(s') /\ Bounded'
  BY <1>0, <1>1 DEF Revoke, vars, Bounded
<1>2. ASSUME ConnectionLost
      PROVE  Measured(s') /\ Bounded'
  <2>1. Bounded'
    BY <1>0, <1>2 DEF ConnectionLost, Bounded, Formers
  <2> QED
    BY <1>0, <1>2, <2>1, MarkOutgoingConnectionLostLike, LikeKeeps DEF ConnectionLost
<1>3. ASSUME Crash
      PROVE  Measured(s') /\ Bounded'
  <2>1. Bounded'
    BY <1>0, <1>3 DEF Crash, Bounded, Formers
  <2> QED
    BY <1>3, <2>1, FreshMeasured DEF Crash
<1>4. ASSUME Hydrate
      PROVE  Measured(s') /\ Bounded'
  BY <1>0, <1>4, FreshMeasured DEF Hydrate, Bounded
<1>5. ASSUME Unheard
      PROVE  Measured(s') /\ Bounded'
  BY <1>0, <1>5 DEF Unheard, ReplaceConnection, FormerClosed, SuccessorChanges, Alive,
       Bounded, Formers
<1>19. ASSUME Next, ~Revoke, ~ConnectionLost, ~Unheard, ~Crash, ~Hydrate
       PROVE  Bounded'
  <2>1. losses' = losses /\ former' = former
    BY <1>19 DEF Next, Unheard, Alive, FinishManifestPreparation, PeerReady, OfferAgain,
       DispatchStale, SendNextManifestPage, PauseOutgoing, HandleAccept, HandleReject,
       WriteCapacityAvailable, DispatchSenderPumpResult, ResumeOutgoing, RemoteResume,
       HandleFileResult, HandleResumeResponse, HandleBadResumeResponse, CancelOutgoing,
       RemotePause, RemoteCancel, SaveFinished, RemovalFinished
  <2> QED
    BY <1>0, <2>1 DEF Bounded
<1>6. ASSUME \E sent, built, reachable : FinishManifestPreparation(built, reachable, sent)
      PROVE  Measured(s')
  BY <1>6, PreparationMeasured
<1>7. ASSUME \E sent, supported : \/ PeerReady(sent, supported)
                                  \/ OfferAgain(sent, supported)
                                  \/ DispatchStale(sent, supported)
      PROVE  Measured(s')
  BY <1>7, OffersMeasured
<1>8. ASSUME \E sent : SendNextManifestPage(sent)
      PROVE  Measured(s')
  BY <1>8, PageMeasured
<1>9. ASSUME RemotePause \/ \E sent : PauseOutgoing(sent)
      PROVE  Measured(s')
  BY <1>9, PauseMeasured
<1>10. ASSUME HandleReject \/ \E good : HandleAccept(good)
       PROVE  Measured(s')
  BY <1>10, AcceptMeasured, RejectMeasured
<1>11. ASSUME \/ \E drained, sink, room : WriteCapacityAvailable(drained, sink, room)
              \/ \E pulled, sink, room : DispatchSenderPumpResult(pulled, sink, room)
       PROVE  Measured(s')
  BY <1>11, PumpMeasured
<1>12. ASSUME \/ \E sink, room : RemoteResume(sink, room)
              \/ \E sent, sink, room : ResumeOutgoing(sent, sink, room)
       PROVE  Measured(s')
  BY <1>12, ResumeMeasured
<1>13. ASSUME \E f \in Files : \E ok : HandleFileResult(f, ok)
       PROVE  Measured(s')
  BY <1>13, FileResultMeasured
<1>14. ASSUME \/ HandleBadResumeResponse
              \/ \E reported \in Offsets : HandleResumeResponse(reported)
       PROVE  Measured(s')
  BY <1>14, ResumeResponseMeasured
<1>15. ASSUME CancelOutgoing \/ RemoteCancel
       PROVE  Measured(s')
  BY <1>15, CancelMeasured
<1>16. ASSUME \E ok : SaveFinished(ok) \/ RemovalFinished(ok)
       PROVE  Measured(s')
  BY <1>16, SaveMeasured, RemovalMeasured
<1>17. ASSUME \E reported \in [Files -> NotReported..Max({Size[f] : f \in Files})] :
                /\ \A f \in Files : reported[f] <= Size[f]
                /\ HandleResumeResponse(reported)
       PROVE  \E reported \in Offsets : HandleResumeResponse(reported)
  BY <1>17 DEF Offsets
<1>18. Measured(s')
  BY <1>1, <1>2, <1>3, <1>4, <1>5, <1>6, <1>7, <1>8, <1>9, <1>10, <1>11, <1>12, <1>13,
     <1>14, <1>15, <1>16, <1>17 DEF Next, Unheard
<1> QED
  BY <1>1, <1>2, <1>3, <1>4, <1>5, <1>18, <1>19

LEMMA InitMeasured == Init => TInv
  BY InitGood, FreshMeasured, OutgoingAssumption DEF Init, TInv, Bounded, Formers

LEMMA TypeInvariant == Spec => []TInv
<1>1. TInv /\ [Next]_vars => TInv'
  BY NextKeeps, NextMeasured DEF TInv
<1> QED
  BY InitMeasured, <1>1, PTL DEF Spec

(***************************************************************************)
(* Every field keeps its type.  The counters are the hard part: a session   *)
(* never counts more chunks than the manifest has, through resumed offsets, *)
(* stale tasks and restarts (completedBytes, completedFiles, currentEntry). *)
(***************************************************************************)
THEOREM SessionTyped == Spec => []TypeOK
<1>1. TInv => TypeOK
  BY DEF TInv, Bounded, IInv, Measured, Session, Control, TypeOK, Ctl!Snapshot
<1> QED
  BY TypeInvariant, <1>1, PTL

(***************************************************************************)
(* What the user is shown never passes the end of the manifest: the bytes   *)
(* and files published in the control snapshot are at most its totals, and  *)
(* the files counted are always the ones before the current file            *)
(* (updateProgress, handleFileResult, handleResumeResponse).                *)
(***************************************************************************)
THEOREM ProgressWithinTotals ==
    Spec => [](/\ s.files = s.entry - 1
               /\ HasControl(s) => /\ s.control.bytes \in 0..TotalBytes
                                   /\ s.control.files \in 0..N)
<1>1. TInv => /\ s.files = s.entry - 1
              /\ HasControl(s) => /\ s.control.bytes \in 0..TotalBytes
                                  /\ s.control.files \in 0..N
  BY DEF TInv, Measured, Session, Control, HasControl
<1> QED
  BY TypeInvariant, <1>1, PTL
=============================================================================
