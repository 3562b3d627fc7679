----------------------------- MODULE FileReceive -----------------------------
(***************************************************************************)
(* The disk worker of one incoming transfer: ReceivePipeline::process       *)
(* (app/IncomingTransferRuntime.cpp) driving IncomingFileReceiverWorker and *)
(* FileReceiver, together with everything they leave on disk: the ".part"   *)
(* staging files, the resume state (ResumeStore), the recovery descriptor   *)
(* (TransferRecoveryStore) and the committed target files.                  *)
(*                                                                          *)
(* Frames come from an arbitrary peer: any FILE_BEGIN, FILE_CHUNK or        *)
(* FILE_END may arrive at any time.  Every disk operation is a step of its  *)
(* own, so the process may die between any two of them, and every one may   *)
(* fail.  A file is a number of chunks; a chunk is "intact" when its bytes  *)
(* are those the manifest's SHA-256 was computed from, and equality of      *)
(* hashes is equality of contents.  The conflict policy is the default      *)
(* AutoRename, so a commit always creates a new target name.                *)
(***************************************************************************)
EXTENDS Integers, FiniteSets

CONSTANTS
    N,          \* number of files of the manifest, in manifest order
    Size,       \* Size[f]: length of file f, in chunks
    MaxStarts   \* bound: how often a pipeline is built for this transfer

ASSUME NAssumption == N \in Nat
ASSUME SizeAssumption == Size \in [1..N -> Nat]
ASSUME MaxStartsAssumption == MaxStarts \in Nat

Files == 1..N
NoFile == 0
NoPart == -1

VARIABLES
    \* --- on disk ---
    partLen,    \* partLen[f]: chunks of the staging file, NoPart if absent
    partOk,     \* partOk[f]: all of them are intact
    resume,     \* the stored ResumeState, NoState if there is none
    desc,       \* the IncomingRecoveryState descriptor exists
    copies,     \* copies[f]: committed target files of f
    allIntact,  \* allIntact[f]: every committed copy of f equals the source
    \* --- memory of the pipeline ---
    pc,         \* what the worker does next
    mem,        \* m_resumeState
    ready,      \* m_manifestReady
    active,     \* file of m_receiver, NoFile if there is none
    recvd,      \* m_snapshot.receivedBytes of the active receiver
    bufOk,      \* the bytes of the open staging file, buffered ones
                \* included, are intact
    hashOk,     \* m_hash has digested exactly the source's bytes so far
    done,       \* m_completedFiles
    published,  \* publishCompleted has announced the completion
    starts      \* pipelines built so far

diskVars == <<partLen, partOk, resume, desc, copies, allIntact>>
pipeVars == <<pc, mem, ready, active, recvd, bufOk, hashOk, done, published>>
vars == <<diskVars, pipeVars, starts>>

\* ResumeState: the files not yet resolved with their durable offsets, and
\* the resolved targets.  A saved state always names every file.
ResumeStates == [open : SUBSET Files, off : [Files -> Nat], res : SUBSET Files]
NoState == [open |-> {}, off |-> [f \in Files |-> 0], res |-> {}]
FreshState == [open |-> Files, off |-> [f \in Files |-> 0], res |-> {}]

PC == {"down",        \* the process is not running
       "none",        \* the session has no pipeline
       "idle",        \* waiting for the next frame
       "refusing",    \* the manifest was refused; the next frame ends run()
       "describe",    \* resume state saved, descriptor not yet
       "checkpoint",  \* a chunk was appended, its checkpoint not yet taken
       "persist",     \* a file was committed, its record not yet saved
       "purge",       \* every file is recorded, resume state not yet removed
       "purgeDesc",   \* resume state removed, descriptor not yet
       "stopped"}     \* run() has ended

Init ==
    /\ partLen = [f \in Files |-> NoPart]
    /\ partOk = [f \in Files |-> TRUE]
    /\ resume = NoState
    /\ desc = FALSE
    /\ copies = [f \in Files |-> 0]
    /\ allIntact = [f \in Files |-> TRUE]
    /\ pc = "idle"
    /\ mem = NoState
    /\ ready = FALSE
    /\ active = NoFile
    /\ recvd = 0
    /\ bufOk = TRUE
    /\ hashOk = TRUE
    /\ done = 0
    /\ published = FALSE
    /\ starts = 1

-----------------------------------------------------------------------------
(* Closing the staging file writes out whatever QFile still buffers.        *)
CloseStaging ==
    /\ partLen' = IF active = NoFile THEN partLen
                  ELSE [partLen EXCEPT ![active] = recvd]
    /\ partOk' = IF active = NoFile THEN partOk
                 ELSE [partOk EXCEPT ![active] = bufOk]
    /\ active' = NoFile

\* fail(): the receiver is closed and run() ends.
Stop ==
    /\ CloseStaging
    /\ pc' = "stopped"
    /\ UNCHANGED <<resume, desc, copies, allIntact, mem, ready, recvd, bufOk,
                   hashOk, done, published, starts>>

-----------------------------------------------------------------------------
(* MANIFEST_COMPLETE: prepareResumeState stores a fresh state, or adopts    *)
(* the loaded one and counts the files that need no more data.  A transfer  *)
(* of directories only is complete with its manifest.                       *)
FinishedInLax(state) ==    \* mutant: one received chunk suffices
    state.res \cup {f \in state.open : state.off[f] \in {1, Size[f]}}

FinishedIn(state) ==
    state.res \cup {f \in state.open : state.off[f] = Size[f]}

\* At most the first unfinished file, in manifest order, has an offset.
Adoptable(state) ==
    \A f \in state.open :
      /\ state.off[f] <= Size[f]
      /\ state.off[f] # 0 =>
           \A g \in state.open : g < f => state.off[g] = Size[g]

AfterManifest == IF N = 0 THEN "purge" ELSE "idle"

ManifestFresh ==
    /\ pc = "idle"
    /\ ~ready
    /\ mem = NoState
    /\ mem' = FreshState
    /\ resume' = FreshState
    /\ pc' = "describe"
    /\ UNCHANGED <<partLen, partOk, desc, copies, allIntact, ready, active,
                   recvd, bufOk, hashOk, done, published, starts>>

\* A resumed pipeline carries no descriptor to save.
ManifestAdopt ==
    /\ pc = "idle"
    /\ ~ready
    /\ mem # NoState
    /\ Adoptable(mem)
    /\ ready' = TRUE
    /\ done' = Cardinality(FinishedIn(mem))
    /\ pc' = AfterManifest
    /\ UNCHANGED <<diskVars, mem, active, recvd, bufOk, hashOk, published,
                   starts>>

\* prepareDirectories or prepareResumeState fails: the failure is reported,
\* but process() returns true and the worker takes one more frame, which
\* finds m_manifestReady false.
ManifestFails ==
    /\ pc = "idle"
    /\ ~ready
    /\ pc' = "refusing"
    /\ UNCHANGED <<diskVars, mem, ready, active, recvd, bufOk, hashOk, done,
                   published, starts>>

\* A second MANIFEST_COMPLETE: the reassembler answers AlreadyComplete.
ManifestRepeated == pc = "idle" /\ ready /\ Stop

\* persistRecoveryDescriptor
Describe ==
    /\ pc = "describe"
    /\ desc' = TRUE
    /\ ready' = TRUE
    /\ pc' = AfterManifest
    /\ UNCHANGED <<partLen, partOk, resume, copies, allIntact, mem, active,
                   recvd, bufOk, hashOk, done, published, starts>>

DescribeFails ==
    /\ pc = "describe"
    /\ pc' = "refusing"
    /\ UNCHANGED <<diskVars, mem, ready, active, recvd, bufOk, hashOk, done,
                   published, starts>>

\* "file frame arrived before complete manifest"
FrameRefused == pc = "refusing" /\ Stop

-----------------------------------------------------------------------------
(* FILE_BEGIN                                                               *)
ReusePart(f) == f \in mem.open /\ partLen[f] # NoPart

BeginOk(f, off) ==
    /\ ready
    /\ active = NoFile
    /\ off <= Size[f]
    /\ IF ReusePart(f)
       THEN mem.off[f] = off /\ partLen[f] = off
       ELSE off = 0 /\ partLen[f] = NoPart

\* m_hash is reset and digests the whole prefix found on disk.
HashOfNothing(f) == TRUE    \* mutant: the prefix is not read again

HashOfPrefix(f) == partOk[f]

FileBegin(f, off) ==
    /\ pc = "idle"
    /\ BeginOk(f, off)
    /\ active' = f
    /\ recvd' = off
    /\ bufOk' = partOk[f]
    /\ hashOk' = HashOfPrefix(f)
    /\ partLen' = [partLen EXCEPT ![f] = off]
    /\ UNCHANGED <<partOk, resume, desc, copies, allIntact, pc, mem, ready,
                   done, published, starts>>

BeginRefused(f, off) == pc = "idle" /\ ~BeginOk(f, off) /\ Stop

-----------------------------------------------------------------------------
(* FILE_CHUNK: append, then a durable checkpoint unless it was the last     *)
(* chunk of the file.                                                       *)
ChunkOk(f, off) ==
    /\ ready
    /\ active = f
    /\ off = recvd
    /\ recvd < Size[f]

NeedsCheckpoint(f, received) == received < Size[f]

FileChunk(f, off, good) ==
    /\ pc = "idle"
    /\ ChunkOk(f, off)
    /\ recvd' = recvd + 1
    /\ bufOk' = (bufOk /\ good)
    /\ hashOk' = (hashOk /\ good)
    /\ pc' = IF NeedsCheckpoint(f, recvd + 1) THEN "checkpoint" ELSE "idle"
    /\ UNCHANGED <<diskVars, mem, ready, active, done, published, starts>>

ChunkRefused(f, off) == pc = "idle" /\ ~ChunkOk(f, off) /\ Stop

\* The staging file cannot take the payload.
WriteFails(f, off) == pc = "idle" /\ ChunkOk(f, off) /\ Stop

CheckpointableAnyOffset == active \in mem.open    \* mutant

Checkpointable == active \in mem.open /\ mem.off[active] <= recvd

CheckpointUnflushed ==    \* mutant: the state is saved before the data
    /\ pc = "checkpoint"
    /\ Checkpointable
    /\ mem' = [mem EXCEPT !.off = [mem.off EXCEPT ![active] = recvd]]
    /\ resume' = mem'
    /\ pc' = "idle"
    /\ UNCHANGED <<partLen, partOk, desc, copies, allIntact, ready, active,
                   recvd, bufOk, hashOk, done, published, starts>>

\* FileReceiver::checkpoint: flush and sync the data, then the state.
Checkpoint ==
    /\ pc = "checkpoint"
    /\ Checkpointable
    /\ partLen' = [partLen EXCEPT ![active] = recvd]
    /\ partOk' = [partOk EXCEPT ![active] = bufOk]
    /\ mem' = [mem EXCEPT !.off = [mem.off EXCEPT ![active] = recvd]]
    /\ resume' = mem'
    /\ pc' = "idle"
    /\ UNCHANGED <<desc, copies, allIntact, ready, active, recvd, bufOk,
                   hashOk, done, published, starts>>

\* Flush, sync or save fails, or the state does not fit the receiver.
CheckpointFails == pc = "checkpoint" /\ Stop

-----------------------------------------------------------------------------
(* FILE_END: finishStaging compares size and hash, commitStagedFile renames *)
(* the staging file onto a free target name, persistCompletedFile records   *)
(* it, and the last file triggers publishCompleted.                         *)
EndOk(f) ==
    /\ ready
    /\ active = f
    /\ recvd = Size[f]
    /\ hashOk

FileEnd(f) ==
    /\ pc = "idle"
    /\ EndOk(f)
    /\ copies' = [copies EXCEPT ![f] = @ + 1]
    /\ allIntact' = [allIntact EXCEPT ![f] = @ /\ bufOk /\ recvd = Size[f]]
    /\ partLen' = [partLen EXCEPT ![f] = NoPart]
    /\ partOk' = [partOk EXCEPT ![f] = TRUE]
    /\ pc' = "persist"
    /\ UNCHANGED <<resume, desc, mem, ready, active, recvd, bufOk, hashOk,
                   done, published, starts>>

EndRefused(f) == pc = "idle" /\ ~EndOk(f) /\ Stop

CommitIgnored(f) ==    \* mutant: the result of the rename is not looked at
    /\ pc = "idle"
    /\ EndOk(f)
    /\ pc' = "persist"
    /\ UNCHANGED <<diskVars, mem, ready, active, recvd, bufOk, hashOk, done,
                   published, starts>>

CommitFails(f) == pc = "idle" /\ EndOk(f) /\ Stop

RecordedUnset(state, f) ==    \* mutant: -1 marks a resolved file
    [open |-> state.open \ {f},
     off |-> [state.off EXCEPT ![f] = NoPart],
     res |-> state.res \cup {f}]

Recorded(state, f) ==
    [open |-> state.open \ {f},
     off |-> [state.off EXCEPT ![f] = 0],
     res |-> state.res \cup {f}]

PersistCompletedFile ==
    /\ pc = "persist"
    /\ active \in mem.open
    /\ mem' = Recorded(mem, active)
    /\ resume' = mem'
    /\ done' = done + 1
    /\ active' = NoFile
    /\ pc' = IF done + 1 = N THEN "purge" ELSE "idle"
    /\ UNCHANGED <<partLen, partOk, desc, copies, allIntact, ready, recvd,
                   bufOk, hashOk, published, starts>>

\* The record cannot be saved, or the file is not in the state.  The part
\* file is gone: only the pipeline stops.
PersistFails ==
    /\ pc = "persist"
    /\ active' = NoFile
    /\ pc' = "stopped"
    /\ UNCHANGED <<diskVars, mem, ready, recvd, bufOk, hashOk, done,
                   published, starts>>

\* publishCompleted: the resume state goes first, then the descriptor, and
\* only then is the completion announced to the owner thread.
PurgeResume ==
    /\ pc = "purge"
    /\ resume' = NoState
    /\ pc' = "purgeDesc"
    /\ UNCHANGED <<partLen, partOk, desc, copies, allIntact, mem, ready,
                   active, recvd, bufOk, hashOk, done, published, starts>>

PurgeDesc ==
    /\ pc = "purgeDesc"
    /\ desc' = FALSE
    /\ published' = TRUE
    /\ pc' = "stopped"
    /\ UNCHANGED <<partLen, partOk, resume, copies, allIntact, mem, ready,
                   active, recvd, bufOk, hashOk, done, starts>>

PurgeFails == pc \in {"purge", "purgeDesc"} /\ Stop

-----------------------------------------------------------------------------
(* The pipeline object is destroyed between two frames (disconnect): the    *)
(* destructor waits for the worker, so never inside a frame.                *)
ClosePipeline ==
    /\ pc \in {"idle", "refusing", "stopped"}
    /\ CloseStaging
    /\ pc' = "none"
    /\ UNCHANGED <<resume, desc, copies, allIntact, mem, ready, recvd, bufOk,
                   hashOk, done, published, starts>>

\* receiveResumeQuery builds a new pipeline from the stored state.
ResumePipeline ==
    /\ pc = "none"
    /\ resume # NoState
    /\ starts < MaxStarts
    /\ starts' = starts + 1
    /\ mem' = resume
    /\ ready' = FALSE
    /\ active' = NoFile
    /\ recvd' = 0
    /\ bufOk' = TRUE
    /\ hashOk' = TRUE
    /\ done' = 0
    /\ pc' = "idle"
    /\ UNCHANGED <<diskVars, published>>

\* The process dies: memory is lost, and of the chunks QFile still buffers
\* any prefix may have reached the file.
Crash ==
    /\ pc # "down"
    /\ pc' = "down"
    /\ IF active = NoFile \/ pc = "persist"
       THEN UNCHANGED <<partLen, partOk>>
       ELSE \E kept \in partLen[active]..recvd :
              /\ partLen' = [partLen EXCEPT ![active] = kept]
              /\ partOk' = [partOk EXCEPT ![active] =
                              IF kept = partLen[active] THEN @ ELSE bufOk]
    /\ active' = NoFile
    /\ mem' = NoState
    /\ ready' = FALSE
    /\ recvd' = 0
    /\ bufOk' = TRUE
    /\ hashOk' = TRUE
    /\ done' = 0
    /\ published' = FALSE
    /\ UNCHANGED <<resume, desc, copies, allIntact, starts>>

\* hydrateNextRecoveryState: the session comes back as Interrupted only if
\* the descriptor, the resume state and the files on disk agree.
HydrateOk ==
    /\ desc
    /\ resume # NoState
    /\ \A f \in resume.res : copies[f] > 0 /\ allIntact[f]
    /\ \A f \in resume.open :
         /\ resume.off[f] <= Size[f]
         /\ resume.off[f] # 0 => 
              /\ \A g \in resume.open : f <= g
              /\ partLen[f] = resume.off[f]

Hydrate ==
    /\ pc = "down"
    /\ HydrateOk
    /\ pc' = "none"
    /\ UNCHANGED <<diskVars, mem, ready, active, recvd, bufOk, hashOk, done,
                   published, starts>>

-----------------------------------------------------------------------------
Next ==
    \/ ManifestFresh \/ ManifestAdopt \/ ManifestFails \/ ManifestRepeated
    \/ Describe \/ DescribeFails \/ FrameRefused
    \/ \E f \in Files : \E off \in 0..Size[f] :
         \/ FileBegin(f, off) \/ BeginRefused(f, off)
         \/ \E good \in BOOLEAN : FileChunk(f, off, good)
         \/ ChunkRefused(f, off) \/ WriteFails(f, off)
    \/ Checkpoint \/ CheckpointFails
    \/ \E f \in Files : FileEnd(f) \/ EndRefused(f) \/ CommitFails(f)
    \/ PersistCompletedFile \/ PersistFails
    \/ PurgeResume \/ PurgeDesc \/ PurgeFails
    \/ ClosePipeline \/ ResumePipeline \/ Crash \/ Hydrate

Spec == Init /\ [][Next]_vars

-----------------------------------------------------------------------------
EmptyFiles == {f \in Files : Size[f] = 0}
MissingFiles == {f \in Files : copies[f] = 0}

\* How far the count of a resumed pipeline may be ahead of the disk.
CountedTwice == IF starts = 1 THEN 0 ELSE Cardinality(EmptyFiles)

\* Every variable keeps its type; the state a pipeline works from is always a
\* well-formed ResumeState (ResumeStore validateState).
TypeOK ==
    /\ partLen \in [Files -> Nat \cup {NoPart}]
    /\ partOk \in [Files -> BOOLEAN]
    /\ resume \in ResumeStates
    /\ desc \in BOOLEAN
    /\ copies \in [Files -> Nat]
    /\ allIntact \in [Files -> BOOLEAN]
    /\ pc \in PC
    /\ mem \in ResumeStates
    /\ ready \in BOOLEAN
    /\ active \in Files \cup {NoFile}
    /\ recvd \in Nat
    /\ bufOk \in BOOLEAN
    /\ hashOk \in BOOLEAN
    /\ done \in Nat
    /\ published \in BOOLEAN
    /\ starts \in Nat

\* No file with wrong or missing bytes is ever renamed to its target name,
\* whatever the peer sends and however often the transfer is interrupted,
\* killed and resumed from a partial file (finishStaging, commitStagedFile).
CommittedIntact == \A f \in Files : allIntact[f]

\* A file the resume state calls resolved has been committed: no crash
\* between commit and record makes the record run ahead of the disk.
ResolvedCommitted ==
    \A f \in resume.res \cup mem.res : copies[f] > 0

\* A stored durable offset never promises more than the staging file holds
\* (checkpoint syncs the data before it saves the state), unless the file
\* was committed and only its record is missing.
DurableOnDisk ==
    \A f \in resume.open :
      copies[f] = 0 => resume.off[f] = 0 \/ resume.off[f] <= partLen[f]

\* A transfer is announced as Completed with every file of the manifest at
\* its target (publishCompleted after m_completedFiles reached
\* m_offer.fileCount), with one exception: a pipeline that adopts a stored
\* state counts the empty files which are still open, and each of them again
\* when it is received (prepareResumeState).  As many files may be missing as
\* the manifest has empty ones, none if it has no empty file or the transfer
\* was never resumed.
CompletedMeansAllCommitted ==
    published => Cardinality(MissingFiles) <= CountedTwice

\* What the store has recorded is never taken back while the state exists:
\* no offset shrinks, no resolved file is reopened.
DurableNeverRegresses ==
    [][resume # NoState /\ resume' # NoState =>
         /\ resume.res \subseteq resume'.res
         /\ \A f \in resume.open \cap resume'.open :
              resume.off[f] <= resume'.off[f]]_vars
=============================================================================
