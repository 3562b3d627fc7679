------------------------- MODULE FileReceive_proofs -------------------------
(***************************************************************************)
(* What FileReceive guarantees for every number of files, every file size   *)
(* and every number of interruptions.                                       *)
(***************************************************************************)
EXTENDS FileReceive, FiniteSetTheorems, TLAPS

\* The files of a manifest are finitely many, so counting them is a number.
LEMMA FilesFinite ==
    /\ IsFiniteSet(Files)
    /\ Cardinality(Files) = N
    /\ \A S \in SUBSET Files : IsFiniteSet(S) /\ Cardinality(S) \in Nat
<1>1. IsFiniteSet(1..N) /\ Cardinality(1..N) = IF 1 > N THEN 0 ELSE N - 1 + 1
  BY FS_Interval, NAssumption
<1>2. IsFiniteSet(Files) /\ Cardinality(Files) = N
  BY <1>1, NAssumption DEF Files
<1>3. \A S \in SUBSET Files : IsFiniteSet(S) /\ Cardinality(S) \in Nat
  BY <1>2, FS_Subset, FS_CardinalityType
<1> QED
  BY <1>2, <1>3

-----------------------------------------------------------------------------
(* Type correctness.                                                        *)

\* The two constant states are well-formed.
LEMMA StatesTyped == NoState \in ResumeStates /\ FreshState \in ResumeStates
  BY DEF NoState, FreshState, ResumeStates

\* Ending a pipeline (fail) keeps the types.
LEMMA StopTyped == TypeOK /\ Stop => TypeOK'
  BY DEF TypeOK, Stop, CloseStaging, PC, Files, NoFile

\* Every step keeps the types: one case per action.
LEMMA TypeStep == TypeOK /\ [Next]_vars => TypeOK'
<1> SUFFICES ASSUME TypeOK, [Next]_vars PROVE TypeOK'
  OBVIOUS
<1> USE NAssumption, SizeAssumption
<1>1. CASE ManifestFresh
  BY <1>1, StatesTyped DEF TypeOK, ManifestFresh, PC
<1>2. CASE ManifestAdopt
  <2>1. FinishedIn(mem) \in SUBSET Files
    BY DEF TypeOK, FinishedIn, ResumeStates
  <2>2. Cardinality(FinishedIn(mem)) \in Nat
    BY <2>1, FilesFinite
  <2> QED
    BY <1>2, <2>2 DEF TypeOK, ManifestAdopt, AfterManifest, PC, diskVars
<1>3. CASE ManifestFails \/ Describe \/ DescribeFails
  BY <1>3 DEF TypeOK, ManifestFails, Describe, DescribeFails, AfterManifest,
              PC, diskVars
<1>4. CASE \E f \in Files : \E off \in 0..Size[f] : FileBegin(f, off)
  BY <1>4 DEF TypeOK, FileBegin, HashOfPrefix, Files
<1>5. CASE \E f \in Files : \E off \in 0..Size[f] : \E good \in BOOLEAN :
             FileChunk(f, off, good)
  BY <1>5 DEF TypeOK, FileChunk, PC, diskVars
<1>6. CASE Checkpoint
  BY <1>6 DEF TypeOK, Checkpoint, Checkpointable, ResumeStates, PC
<1>7. CASE \E f \in Files : FileEnd(f)
  BY <1>7 DEF TypeOK, FileEnd, PC, NoPart
<1>8. CASE PersistCompletedFile
  <2>1. active \in Files
    BY <1>8 DEF TypeOK, PersistCompletedFile, ResumeStates
  <2>2. Recorded(mem, active) \in ResumeStates
    BY <2>1 DEF TypeOK, Recorded, ResumeStates
  <2> QED
    BY <1>8, <2>2 DEF TypeOK, PersistCompletedFile, PC
<1>9. CASE PersistFails \/ PurgeResume \/ PurgeDesc
  BY <1>9, StatesTyped
     DEF TypeOK, PersistFails, PurgeResume, PurgeDesc, PC, diskVars
<1>10. CASE ClosePipeline
  BY <1>10 DEF TypeOK, ClosePipeline, CloseStaging, PC, Files, NoFile
<1>11. CASE ResumePipeline
  <2>1. /\ recvd' \in Nat /\ done' \in Nat /\ starts' \in Nat
    BY <1>11, SMT DEF TypeOK, ResumePipeline
  <2> QED
    BY <1>11, <2>1, Zenon DEF TypeOK, ResumePipeline, PC, diskVars
<1>12. CASE Crash
  <2>1. /\ partLen' \in [Files -> Nat \cup {NoPart}]
        /\ partOk' \in [Files -> BOOLEAN]
    <3>1. CASE active = NoFile \/ pc = "persist"
      BY <1>12, <3>1 DEF TypeOK, Crash
    <3>2. CASE ~(active = NoFile \/ pc = "persist")
      <4>1. active \in Files
        BY <3>2 DEF TypeOK
      <4>2. PICK kept \in partLen[active]..recvd :
              /\ partLen' = [partLen EXCEPT ![active] = kept]
              /\ partOk' = [partOk EXCEPT ![active] =
                              IF kept = partLen[active] THEN @ ELSE bufOk]
        BY <1>12, <3>2 DEF Crash
      <4>3. kept \in Nat \cup {NoPart}
        <5>1. partLen[active] \in Nat \cup {NoPart} /\ recvd \in Nat
          BY <4>1 DEF TypeOK
        <5>2. kept \in partLen[active]..recvd
          OBVIOUS
        <5> QED
          BY ONLY <5>1, <5>2 DEF NoPart
      <4>4. /\ partLen \in [Files -> Nat \cup {NoPart}]
            /\ partOk \in [Files -> BOOLEAN] /\ bufOk \in BOOLEAN
        BY DEF TypeOK
      <4>5. partLen' \in [Files -> Nat \cup {NoPart}]
        BY <4>1, <4>2, <4>3, <4>4
      <4>6. partOk' \in [Files -> BOOLEAN]
        <5>1. PICK good \in BOOLEAN : partOk' = [partOk EXCEPT ![active] = good]
          BY <4>1, <4>2, <4>4
        <5> QED
          BY <4>1, <4>4, <5>1
      <4> QED
        BY <4>5, <4>6
    <3> QED
      BY <3>1, <3>2
  <2> QED
    BY <1>12, <2>1, StatesTyped DEF TypeOK, Crash, PC, NoFile
<1>13. CASE Hydrate
  BY <1>13 DEF TypeOK, Hydrate, PC, diskVars
<1>14. CASE Stop
  BY <1>14, StopTyped
<1>15. CASE UNCHANGED vars
  BY <1>15 DEF TypeOK, vars, diskVars, pipeVars
<1> QED
  BY <1>1, <1>2, <1>3, <1>4, <1>5, <1>6, <1>7, <1>8, <1>9, <1>10, <1>11,
     <1>12, <1>13, <1>14, <1>15
     DEF Next, ManifestRepeated, FrameRefused, BeginRefused, ChunkRefused,
         WriteFails, CheckpointFails, EndRefused, CommitFails, PurgeFails

\* A new pipeline has the types.
LEMMA InitTyped == Init => TypeOK
<1> HAVE Init
<1>1. /\ desc \in BOOLEAN /\ ready \in BOOLEAN /\ published \in BOOLEAN
      /\ bufOk \in BOOLEAN /\ hashOk \in BOOLEAN
      /\ active \in Files \cup {NoFile} /\ pc \in PC
      /\ resume \in ResumeStates /\ mem \in ResumeStates
  BY StatesTyped, Zenon DEF Init, PC
<1>2. /\ partLen \in [Files -> Nat \cup {NoPart}]
      /\ partOk \in [Files -> BOOLEAN]
      /\ copies \in [Files -> Nat]
      /\ allIntact \in [Files -> BOOLEAN]
      /\ recvd \in Nat /\ done \in Nat /\ starts \in Nat
  BY SMT DEF Init, NoPart
<1> QED
  BY <1>1, <1>2, Zenon DEF TypeOK

\* Type correctness of the receive pipeline and of what it keeps on disk, for
\* every manifest.
THEOREM Typed == Spec => []TypeOK
  BY InitTyped, TypeStep, PTL DEF Spec

-----------------------------------------------------------------------------
(* The inductive invariant behind the safety theorems: what the store says  *)
(* about committed files, that the worker's state is the stored one while   *)
(* it runs, and how the open staging file relates to the receiver.          *)
Working == {"idle", "describe", "checkpoint", "persist", "purge"}

StoreSound ==
    /\ mem.open \cap mem.res = {}
    /\ resume.open \cap resume.res = {}
    /\ ResolvedCommitted

MemIsStored == pc \in Working => mem = resume

Receiving ==
    /\ bufOk = hashOk
    /\ active # NoFile =>
         /\ ready
         /\ pc # "persist" => partLen[active] \in 0..recvd
    /\ pc = "checkpoint" => active \in Files /\ recvd < Size[active]
    /\ pc = "persist" => active \in Files /\ copies[active] > 0

IInv ==
    /\ TypeOK
    /\ StoreSound
    /\ MemIsStored
    /\ Receiving
    /\ CommittedIntact
    /\ DurableOnDisk

\* The inductive invariant holds of a new pipeline.
LEMMA InitIInv == Init => IInv
<1> HAVE Init
<1>1. TypeOK
  BY InitTyped
<1>2. StoreSound /\ MemIsStored /\ DurableOnDisk
  BY DEF Init, NoState, StoreSound, ResolvedCommitted, MemIsStored, DurableOnDisk
<1>3. Receiving
  BY DEF Init, Receiving
<1>4. CommittedIntact
  BY DEF Init, CommittedIntact
<1> QED
  BY <1>1, <1>2, <1>3, <1>4 DEF IInv

\* Closing the staging file only adds chunks to it.
LEMMA CloseKeeps ==
    ASSUME IInv, CloseStaging, pc # "persist",
           pc' \in {"stopped", "none"},
           UNCHANGED <<resume, copies, allIntact, mem, bufOk, hashOk>>
    PROVE  /\ StoreSound' /\ MemIsStored' /\ Receiving'
           /\ CommittedIntact' /\ DurableOnDisk'
<1> USE SizeAssumption, NAssumption
<1>1. StoreSound' /\ CommittedIntact' /\ MemIsStored'
  BY DEF IInv, StoreSound, ResolvedCommitted, CommittedIntact, MemIsStored,
         Working
<1>2. Receiving'
  BY DEF IInv, Receiving, CloseStaging
<1>3. DurableOnDisk'
  <2>1. CASE active = NoFile
    BY <2>1 DEF IInv, DurableOnDisk, CloseStaging
  <2>2. CASE active # NoFile
    <3>1. active \in Files /\ partLen[active] \in 0..recvd
      BY <2>2 DEF IInv, TypeOK, Receiving
    <3>2. partLen' = [partLen EXCEPT ![active] = recvd]
      BY <2>2 DEF CloseStaging
    <3>3. \A f \in Files : partLen'[f] >= partLen[f]
      BY <3>1, <3>2 DEF IInv, TypeOK, NoPart
    <3>4. /\ resume.off \in [Files -> Nat] /\ resume.open \subseteq Files
          /\ \A f \in Files : partLen[f] \in Int /\ partLen'[f] \in Int
      BY <3>1, <3>2 DEF IInv, TypeOK, ResumeStates, NoPart
    <3> QED
      BY <3>3, <3>4 DEF IInv, DurableOnDisk
  <2> QED
    BY <2>1, <2>2
<1> QED
  BY <1>1, <1>2, <1>3

\* The inductive invariant is kept by every step: one case per action.
LEMMA IInvStep == IInv /\ [Next]_vars => IInv'
<1> SUFFICES ASSUME IInv, [Next]_vars PROVE IInv'
  OBVIOUS
<1> USE NAssumption, SizeAssumption
<1>0. TypeOK /\ TypeOK'
  BY TypeStep DEF IInv
<1>1. CASE ManifestFresh
  <2>1. StoreSound' /\ MemIsStored' /\ CommittedIntact' /\ DurableOnDisk'
    BY <1>1 DEF IInv, ManifestFresh, FreshState, StoreSound, MemIsStored,
       ResolvedCommitted, CommittedIntact, DurableOnDisk
  <2>2. Receiving'
    BY <1>1 DEF IInv, ManifestFresh, Receiving
  <2> QED
    BY <1>0, <2>1, <2>2 DEF IInv
<1>2. CASE ManifestAdopt \/ ManifestFails \/ Describe \/ DescribeFails
  <2>1. StoreSound' /\ CommittedIntact' /\ DurableOnDisk'
    BY <1>2 DEF IInv, ManifestAdopt, ManifestFails, Describe, DescribeFails,
       StoreSound, ResolvedCommitted, CommittedIntact, DurableOnDisk, diskVars
  <2>2. MemIsStored'
    BY <1>2 DEF IInv, ManifestAdopt, ManifestFails, Describe, DescribeFails,
       MemIsStored, Working, diskVars
  <2>3. Receiving'
    BY <1>2 DEF IInv, ManifestAdopt, ManifestFails, Describe, DescribeFails,
       AfterManifest, Receiving, diskVars
  <2> QED
    BY <1>0, <2>1, <2>2, <2>3 DEF IInv
<1>3. CASE \E f \in Files : \E off \in 0..Size[f] : FileBegin(f, off)
  <2> PICK f \in Files : \E off \in 0..Size[f] : FileBegin(f, off)
    BY <1>3
  <2> PICK off \in 0..Size[f] : FileBegin(f, off)
    OBVIOUS
  <2>1. StoreSound' /\ CommittedIntact' /\ MemIsStored'
    BY DEF IInv, FileBegin, StoreSound, ResolvedCommitted, CommittedIntact,
       MemIsStored
  <2>2. Receiving'
    BY <1>0 DEF IInv, TypeOK, FileBegin, BeginOk, HashOfPrefix, Receiving
  <2>3. DurableOnDisk'
    <3>1. mem = resume /\ resume' = resume /\ copies' = copies
      BY DEF IInv, MemIsStored, Working, FileBegin
    <3>2. partLen' = [partLen EXCEPT ![f] = off]
      BY DEF FileBegin
    <3>3. f \in resume.open /\ copies[f] = 0 =>
            resume.off[f] = 0 \/ resume.off[f] <= off
      BY <1>0, <3>1 DEF IInv, TypeOK, DurableOnDisk, FileBegin, BeginOk,
         ReusePart, NoPart, ResumeStates
    <3> QED
      BY <1>0, <3>1, <3>2, <3>3 DEF IInv, TypeOK, DurableOnDisk, ResumeStates
  <2> QED
    BY <1>0, <2>1, <2>2, <2>3 DEF IInv
<1>4. CASE \E f \in Files : \E off \in 0..Size[f] : \E good \in BOOLEAN :
             FileChunk(f, off, good)
  <2> PICK f \in Files : \E off \in 0..Size[f] : \E good \in BOOLEAN :
                            FileChunk(f, off, good)
    BY <1>4
  <2> PICK off \in 0..Size[f], good \in BOOLEAN : FileChunk(f, off, good)
    OBVIOUS
  <2>1. /\ StoreSound' /\ CommittedIntact' /\ MemIsStored'
        /\ DurableOnDisk'
    BY DEF IInv, FileChunk, StoreSound, ResolvedCommitted, CommittedIntact,
       MemIsStored, Working, DurableOnDisk, diskVars
  <2>2. Receiving'
    <3>1. bufOk' = hashOk'
      BY DEF IInv, Receiving, FileChunk
    <3>2. active' = f /\ ready' /\ f # NoFile /\ pc' # "persist"
      BY DEF FileChunk, ChunkOk, Files, NoFile
    <3>3. partLen'[f] \in 0..recvd'
      BY <1>0, <3>2 DEF IInv, TypeOK, Receiving, FileChunk, ChunkOk, diskVars
    <3>4. pc' = "checkpoint" => recvd' < Size[f]
      BY DEF FileChunk, NeedsCheckpoint
    <3> QED
      BY <3>1, <3>2, <3>3, <3>4 DEF Receiving
  <2> QED
    BY <1>0, <2>1, <2>2 DEF IInv
<1>5. CASE Checkpoint
  <2>1. /\ mem = resume /\ active \in Files /\ active \in mem.open
        /\ partLen' = [partLen EXCEPT ![active] = recvd]
        /\ mem'.open = mem.open /\ mem'.res = mem.res
        /\ mem'.off = [mem.off EXCEPT ![active] = recvd]
        /\ resume' = mem' /\ copies' = copies /\ allIntact' = allIntact
    BY <1>0, <1>5 DEF IInv, TypeOK, MemIsStored, Working, ResumeStates,
       Checkpoint, Checkpointable
  <2>2. StoreSound' /\ CommittedIntact' /\ MemIsStored'
    BY <2>1 DEF IInv, StoreSound, ResolvedCommitted, CommittedIntact,
       MemIsStored
  <2>3. DurableOnDisk'
    BY <1>0, <2>1 DEF IInv, TypeOK, DurableOnDisk, ResumeStates
  <2>4. Receiving'
    <3>1. partLen'[active] = recvd /\ recvd \in Nat
      BY <1>0, <2>1 DEF TypeOK
    <3> QED
      BY <1>5, <3>1 DEF IInv, Receiving, Checkpoint
  <2> QED
    BY <1>0, <2>2, <2>3, <2>4 DEF IInv
<1>6. CASE \E f \in Files : FileEnd(f)
  <2> PICK f \in Files : FileEnd(f)
    BY <1>6
  <2>1. /\ copies' = [copies EXCEPT ![f] = @ + 1]
        /\ partLen' = [partLen EXCEPT ![f] = NoPart]
        /\ mem' = mem /\ resume' = resume /\ pc' = "persist" /\ pc = "idle"
    BY DEF FileEnd
  <2>2. \A g \in Files : copies'[g] >= copies[g] /\ copies'[f] > 0
    BY <1>0, <2>1 DEF TypeOK
  <2>3. StoreSound'
    BY <1>0, <2>1, <2>2 DEF IInv, TypeOK, StoreSound, ResolvedCommitted,
       ResumeStates
  <2>4. MemIsStored'
    BY <2>1 DEF IInv, MemIsStored, Working
  <2>5. CommittedIntact'
    BY <1>0 DEF IInv, TypeOK, CommittedIntact, Receiving, FileEnd, EndOk
  <2>6. DurableOnDisk'
    BY <1>0, <2>1, <2>2 DEF IInv, TypeOK, DurableOnDisk, ResumeStates
  <2>7. Receiving'
    BY <2>1, <2>2 DEF IInv, Receiving, FileEnd, EndOk
  <2> QED
    BY <1>0, <2>3, <2>4, <2>5, <2>6, <2>7 DEF IInv
<1>7. CASE PersistCompletedFile
  <2>1. /\ mem = resume /\ active \in Files /\ active \in mem.open
        /\ copies[active] > 0
        /\ mem' = Recorded(mem, active) /\ resume' = mem'
        /\ copies' = copies /\ allIntact' = allIntact /\ partLen' = partLen
    BY <1>7 DEF IInv, MemIsStored, Working, Receiving, PersistCompletedFile
  <2>2. StoreSound' /\ CommittedIntact' /\ MemIsStored'
    BY <2>1 DEF IInv, StoreSound, ResolvedCommitted, CommittedIntact,
       MemIsStored, Recorded
  <2>3. DurableOnDisk'
    BY <1>0, <2>1 DEF IInv, TypeOK, DurableOnDisk, ResumeStates, Recorded
  <2>4. Receiving'
    BY <1>7 DEF IInv, Receiving, PersistCompletedFile
  <2> QED
    BY <1>0, <2>2, <2>3, <2>4 DEF IInv
<1>8. CASE PersistFails \/ PurgeResume \/ PurgeDesc \/ Hydrate
  <2>1. StoreSound' /\ CommittedIntact' /\ DurableOnDisk'
    BY <1>8 DEF IInv, PersistFails, PurgeResume, PurgeDesc, Hydrate, NoState,
       StoreSound, ResolvedCommitted, CommittedIntact, DurableOnDisk, diskVars
  <2>2. MemIsStored'
    BY <1>8 DEF PersistFails, PurgeResume, PurgeDesc, Hydrate, MemIsStored,
       Working
  <2>3. Receiving'
    BY <1>8 DEF IInv, PersistFails, PurgeResume, PurgeDesc, Hydrate,
       Receiving, diskVars
  <2> QED
    BY <1>0, <2>1, <2>2, <2>3 DEF IInv
<1>9. CASE ResumePipeline
  <2>1. /\ StoreSound' /\ CommittedIntact' /\ DurableOnDisk' /\ MemIsStored'
    BY <1>9 DEF IInv, ResumePipeline, StoreSound, ResolvedCommitted,
       CommittedIntact, DurableOnDisk, MemIsStored, diskVars
  <2>2. Receiving'
    BY <1>9 DEF ResumePipeline, Receiving
  <2> QED
    BY <1>0, <2>1, <2>2 DEF IInv
<1>10. CASE Crash
  <2>1. StoreSound' /\ CommittedIntact' /\ MemIsStored' /\ Receiving'
    BY <1>10 DEF IInv, Crash, NoState, StoreSound, ResolvedCommitted,
       CommittedIntact, MemIsStored, Working, Receiving
  <2>2. /\ partLen \in [Files -> Int] /\ partLen' \in [Files -> Int]
        /\ recvd \in Int
    BY <1>0 DEF TypeOK, NoPart
  <2>3. \A f \in Files : partLen'[f] >= partLen[f]
    <3>1. CASE active = NoFile \/ pc = "persist"
      <4>1. partLen' = partLen
        BY <1>10, <3>1 DEF Crash
      <4> QED
        BY <2>2, <4>1
    <3>2. CASE ~(active = NoFile \/ pc = "persist")
      <4>1. active \in Files
        BY <1>0, <3>2 DEF TypeOK
      <4>2. PICK kept \in partLen[active]..recvd :
              partLen' = [partLen EXCEPT ![active] = kept]
        BY <1>10, <3>2 DEF Crash
      <4> QED
        BY <2>2, <4>1, <4>2
    <3> QED
      BY <3>1, <3>2
  <2>4. /\ resume' = resume /\ copies' = copies
        /\ resume.off \in [Files -> Nat] /\ resume.open \subseteq Files
    BY <1>0, <1>10 DEF Crash, TypeOK, ResumeStates
  <2>5. DurableOnDisk'
    BY <2>2, <2>3, <2>4 DEF IInv, DurableOnDisk
  <2> QED
    BY <1>0, <2>1, <2>5 DEF IInv
<1>11. CASE ClosePipeline
  BY <1>0, <1>11, CloseKeeps DEF IInv, ClosePipeline
<1>12. CASE Stop /\ pc # "persist"
  BY <1>0, <1>12, CloseKeeps DEF IInv, Stop
<1>13. CASE UNCHANGED vars
  BY <1>0, <1>13 DEF IInv, StoreSound, ResolvedCommitted, MemIsStored,
     Receiving, CommittedIntact, DurableOnDisk, vars, diskVars, pipeVars
<1> QED
  BY <1>1, <1>2, <1>3, <1>4, <1>5, <1>6, <1>7, <1>8, <1>9, <1>10, <1>11,
     <1>12, <1>13
     DEF Next, ManifestRepeated, FrameRefused, BeginRefused, ChunkRefused,
         WriteFails, CheckpointFails, EndRefused, CommitFails, PurgeFails

\* The inductive invariant holds throughout.
LEMMA IInvAlways == Spec => []IInv
  BY InitIInv, IInvStep, PTL DEF Spec

\* No file with wrong or missing bytes is ever committed to its target name.
THEOREM OnlyIntactFilesCommitted == Spec => []CommittedIntact
<1>1. IInv => CommittedIntact
  BY DEF IInv
<1> QED
  BY <1>1, IInvAlways, PTL

\* Every file recorded as resolved is at its target.
THEOREM RecordsAreTrue == Spec => []ResolvedCommitted
<1>1. IInv => ResolvedCommitted
  BY DEF IInv, StoreSound
<1> QED
  BY <1>1, IInvAlways, PTL

\* A durable offset promised to the sender is backed by bytes on disk.
THEOREM OffsetsAreDurable == Spec => []DurableOnDisk
<1>1. IInv => DurableOnDisk
  BY DEF IInv
<1> QED
  BY <1>1, IInvAlways, PTL

-----------------------------------------------------------------------------
(* The store never takes back what it recorded: a step that keeps a resume  *)
(* state extends it.  Only ManifestFresh, Checkpoint, PersistCompletedFile  *)
(* and PurgeResume write it.                                                *)
Extends(old, new) ==
    /\ old.res \subseteq new.res
    /\ \A f \in old.open \cap new.open : old.off[f] <= new.off[f]

\* No step saves a resume state that takes back an earlier one.
LEMMA StoreStep ==
    ASSUME IInv, [Next]_vars, resume # NoState, resume' # NoState
    PROVE  Extends(resume, resume')
<1> USE NAssumption, SizeAssumption
<1>1. CASE ManifestFresh
  BY <1>1 DEF ManifestFresh, IInv, MemIsStored, Working
<1>2. CASE Checkpoint
  <2>1. /\ mem = resume /\ active \in Files /\ mem.off[active] <= recvd
        /\ resume'.res = resume.res /\ resume'.open = resume.open
        /\ resume'.off = [resume.off EXCEPT ![active] = recvd]
    BY <1>2 DEF IInv, TypeOK, MemIsStored, Working, ResumeStates,
       Checkpoint, Checkpointable
  <2>2. resume.off \in [Files -> Nat] /\ resume.open \subseteq Files
    BY DEF IInv, TypeOK, ResumeStates
  <2> QED
    BY <2>1, <2>2 DEF Extends
<1>3. CASE PersistCompletedFile
  <2>1. /\ resume'.open = resume.open \ {active}
        /\ resume'.res = resume.res \cup {active}
        /\ resume'.off = [resume.off EXCEPT ![active] = 0]
    BY <1>3 DEF IInv, MemIsStored, Working, PersistCompletedFile, Recorded
  <2>2. resume.off \in [Files -> Nat] /\ resume.open \subseteq Files
    BY DEF IInv, TypeOK, ResumeStates
  <2> QED
    BY <2>1, <2>2 DEF Extends
<1>4. CASE resume' = NoState
  BY <1>4
<1>5. CASE resume' = resume
  <2>1. resume.off \in [Files -> Nat] /\ resume.open \subseteq Files
    BY DEF IInv, TypeOK, ResumeStates
  <2> QED
    BY <1>5, <2>1 DEF Extends
<1>6. ManifestFresh \/ Checkpoint \/ PersistCompletedFile
      \/ resume' = NoState \/ resume' = resume
  BY DEF Next, ManifestAdopt, ManifestFails, ManifestRepeated, Describe,
     DescribeFails, FrameRefused, FileBegin, BeginRefused, FileChunk,
     ChunkRefused, WriteFails, CheckpointFails, FileEnd, EndRefused,
     CommitFails, PersistFails, PurgeResume, PurgeDesc, PurgeFails,
     ClosePipeline, ResumePipeline, Crash, Hydrate, Stop, vars, diskVars
<1> QED
  BY <1>1, <1>2, <1>3, <1>4, <1>5, <1>6

\* No offset shrinks and no resolved file is reopened while the transfer's
\* resume state exists, across interruptions, crashes and restarts.
THEOREM StoreIsMonotone == Spec => DurableNeverRegresses
<1>1. IInv /\ [Next]_vars =>
        [resume # NoState /\ resume' # NoState =>
           /\ resume.res \subseteq resume'.res
           /\ \A f \in resume.open \cap resume'.open :
                resume.off[f] <= resume'.off[f]]_vars
  BY StoreStep DEF Extends
<1> QED
  BY <1>1, IInvAlways, PTL DEF Spec, DurableNeverRegresses

-----------------------------------------------------------------------------
(* Completion.  m_completedFiles counts the resolved files.  The pipeline   *)
(* that adopts a stored state also counts the files whose stored offset is  *)
(* their size; a stored offset is short of the size unless the file is      *)
(* empty, so the count is ahead by the empty files at most, and it is exact *)
(* in a pipeline that has adopted nothing.                                  *)
Short(state) ==
    \A f \in state.open : state.off[f] < Size[f] \/ f \in EmptyFiles

Counted ==
    /\ ready => done <= Cardinality(mem.res) + CountedTwice
    /\ ~ready => done = 0
    /\ pc = "describe" => mem.res = {} /\ ~ready
    /\ starts = 1 /\ pc = "idle" /\ ~ready => mem = NoState
    /\ starts # 0

FewMissing == Cardinality(MissingFiles) <= CountedTwice

CInv ==
    /\ Short(mem)
    /\ Short(resume)
    /\ Counted
    /\ pc \in {"purge", "purgeDesc"} => FewMissing
    /\ CompletedMeansAllCommitted

\* The numbers that the invariant compares.
LEMMA Numbers ==
    ASSUME TypeOK
    PROVE  /\ CountedTwice \in Nat
           /\ Cardinality(MissingFiles) \in Nat
           /\ Cardinality(mem.res) \in Nat
<1>1. /\ EmptyFiles \in SUBSET Files
      /\ MissingFiles \in SUBSET Files
      /\ mem.res \in SUBSET Files
  BY DEF EmptyFiles, MissingFiles, TypeOK, ResumeStates
<1> QED
  BY <1>1, FilesFinite DEF CountedTwice

\* Files that are committed are not missing: so many resolved files leave at
\* most the others.
LEMMA MissingAreOthers ==
    ASSUME TypeOK, ResolvedCommitted
    PROVE  Cardinality(MissingFiles) + Cardinality(mem.res) <= N
<1>1. /\ MissingFiles \in SUBSET Files /\ mem.res \in SUBSET Files
      /\ MissingFiles \cap mem.res = {}
      /\ MissingFiles \cup mem.res \in SUBSET Files
  BY DEF MissingFiles, TypeOK, ResumeStates, ResolvedCommitted
<1>2. IsFiniteSet(MissingFiles) /\ IsFiniteSet(mem.res)
  BY <1>1, FilesFinite
<1>3. Cardinality(MissingFiles \cup mem.res)
        = Cardinality(MissingFiles) + Cardinality(mem.res) - Cardinality({})
  BY <1>1, <1>2, FS_Union
<1>4. Cardinality(MissingFiles \cup mem.res) <= N
  BY <1>1, FilesFinite, FS_Subset
<1> QED
  BY <1>1, <1>2, <1>3, <1>4, FilesFinite, FS_EmptySet, NAssumption

\* A step that takes no committed file away leaves no more files missing.
LEMMA MissingShrinks ==
    ASSUME MissingFiles' \subseteq MissingFiles
    PROVE  Cardinality(MissingFiles') <= Cardinality(MissingFiles)
<1>1. MissingFiles \in SUBSET Files
  BY DEF MissingFiles
<1> QED
  BY <1>1, FilesFinite, FS_Subset

\* The counting invariant holds of a new pipeline.
LEMMA CInvInit == Init => CInv
  BY DEF Init, CInv, Short, NoState, Counted, CompletedMeansAllCommitted

\* A manifest without files is complete.
LEMMA NothingMissing == TypeOK /\ N = 0 => FewMissing
<1> SUFFICES ASSUME TypeOK, N = 0 PROVE FewMissing
  OBVIOUS
<1>1. MissingFiles = {}
  BY DEF MissingFiles, Files
<1> QED
  BY <1>1, Numbers, FS_EmptySet DEF FewMissing

\* The counting invariant is kept by every step.
LEMMA CInvStep ==
    ASSUME IInv, IInv', CInv, [Next]_vars
    PROVE  CInv'
<1> USE NAssumption, SizeAssumption
<1>0. TypeOK /\ TypeOK'
  BY DEF IInv
<1>s. ~ResumePipeline => starts' = starts /\ starts' # 0
  <2>1. ~ResumePipeline => starts' = starts
    BY DEF Next, ManifestFresh, ManifestAdopt, ManifestFails,
       ManifestRepeated, Describe, DescribeFails, FrameRefused, FileBegin,
       BeginRefused, FileChunk, ChunkRefused, WriteFails, Checkpoint,
       CheckpointFails, FileEnd, EndRefused, CommitFails,
       PersistCompletedFile, PersistFails, PurgeResume, PurgeDesc, PurgeFails,
       ClosePipeline, Crash, Hydrate, Stop, vars
  <2> QED
    BY <2>1 DEF CInv, Counted
<1>a. ~ResumePipeline => CountedTwice' = CountedTwice
  BY <1>s DEF CountedTwice
<1>b. copies' = copies => (FewMissing' <=>
        Cardinality(MissingFiles) <= CountedTwice')
  <2>1. copies' = copies => MissingFiles' = MissingFiles
    BY DEF MissingFiles
  <2> QED
    BY <2>1 DEF FewMissing
<1>c. /\ CountedTwice \in Nat /\ CountedTwice' \in Nat
      /\ Cardinality(MissingFiles) \in Nat
      /\ Cardinality(MissingFiles') \in Nat
      /\ Cardinality(mem.res) \in Nat
  <2>1. TypeOK' => CountedTwice' \in Nat /\ Cardinality(MissingFiles') \in Nat
    <3>1. MissingFiles' \in SUBSET Files
      BY DEF MissingFiles
    <3>2. EmptyFiles \in SUBSET Files
      BY DEF EmptyFiles
    <3> QED
      BY <3>1, <3>2, FilesFinite DEF CountedTwice
  <2> QED
    BY <1>0, <2>1, Numbers
<1>d. CompletedMeansAllCommitted <=> (published => FewMissing)
  BY DEF CompletedMeansAllCommitted, FewMissing
<1>e. CompletedMeansAllCommitted' <=> (published' => FewMissing')
  BY DEF CompletedMeansAllCommitted, FewMissing
<1>f. ~ResumePipeline /\ copies' = copies => (FewMissing' <=> FewMissing)
  BY <1>a, <1>b DEF FewMissing
<1>1. CASE ManifestFresh
  <2>1. ~ResumePipeline /\ copies' = copies
    BY <1>1 DEF ManifestFresh, ResumePipeline
  <2>2. Short(mem') /\ Short(resume')
    <3>1. \A f \in Files : 0 < Size[f] \/ f \in EmptyFiles
      BY DEF EmptyFiles, Files
    <3> QED
      BY <1>1, <3>1 DEF ManifestFresh, FreshState, Short
  <2>3. Counted'
    BY <1>s, <1>1 DEF ManifestFresh, FreshState, CInv, Counted
  <2> QED
    BY <1>1, <1>d, <1>e, <1>f, <2>1, <2>2, <2>3
       DEF ManifestFresh, CInv, Short
<1>2. CASE ManifestAdopt
  <2>1. ~ResumePipeline /\ copies' = copies /\ starts' = starts
    BY <1>2 DEF ManifestAdopt, ResumePipeline, diskVars
  <2>2. starts # 1
    BY <1>2 DEF ManifestAdopt, CInv, Counted
  <2>3. FinishedIn(mem) \subseteq mem.res \cup EmptyFiles
    BY <1>0 DEF CInv, Short, FinishedIn, TypeOK, ResumeStates
  <2>4. Cardinality(FinishedIn(mem)) <= Cardinality(mem.res) + CountedTwice
    <3>1. /\ mem.res \in SUBSET Files /\ EmptyFiles \in SUBSET Files
          /\ mem.res \cup EmptyFiles \in SUBSET Files
          /\ FinishedIn(mem) \in SUBSET (mem.res \cup EmptyFiles)
          /\ mem.res \cap EmptyFiles \in SUBSET Files
      BY <1>0, <2>3 DEF TypeOK, ResumeStates, EmptyFiles
    <3>2. IsFiniteSet(mem.res) /\ IsFiniteSet(EmptyFiles)
          /\ IsFiniteSet(mem.res \cup EmptyFiles)
          /\ Cardinality(mem.res \cap EmptyFiles) \in Nat
          /\ Cardinality(EmptyFiles) \in Nat
          /\ Cardinality(mem.res \cup EmptyFiles) \in Nat
      BY <3>1, FilesFinite
    <3>3. Cardinality(FinishedIn(mem)) <= Cardinality(mem.res \cup EmptyFiles)
      BY <3>1, <3>2, FS_Subset
    <3>4. Cardinality(mem.res \cup EmptyFiles) =
            Cardinality(mem.res) + Cardinality(EmptyFiles)
              - Cardinality(mem.res \cap EmptyFiles)
      BY <3>2, FS_Union
    <3>5. Cardinality(FinishedIn(mem)) \in Nat
      <4>1. FinishedIn(mem) \in SUBSET Files
        BY <3>1
      <4> QED
        BY <4>1, FilesFinite
    <3> QED
      BY <1>c, <2>2, <3>2, <3>3, <3>4, <3>5 DEF CountedTwice
  <2>5. Counted'
    BY <1>s, <1>2, <1>a, <2>1, <2>2, <2>4 DEF ManifestAdopt, Counted, AfterManifest
  <2>6. N = 0 => FewMissing
    BY <1>0, NothingMissing
  <2> QED
    BY <1>2, <1>d, <1>e, <1>f, <2>1, <2>5, <2>6
       DEF ManifestAdopt, AfterManifest, CInv, diskVars, Short
<1>3. CASE Describe
  <2>1. ~ResumePipeline /\ copies' = copies /\ starts' = starts
        /\ mem' = mem /\ resume' = resume /\ done' = done /\ done = 0
        /\ published' = published /\ ready' /\ pc' \in {"purge", "idle"}
    BY <1>3 DEF Describe, ResumePipeline, CInv, Counted, AfterManifest
  <2>2. N = 0 => FewMissing
    BY <1>0, NothingMissing
  <2>3. Counted'
    BY <1>s, <1>c, <1>a, <2>1 DEF Counted
  <2>4. pc' = "purge" => FewMissing'
    BY <1>3, <1>f, <2>1, <2>2 DEF Describe, AfterManifest
  <2> QED
    BY <1>d, <1>e, <1>f, <2>1, <2>3, <2>4 DEF CInv, Short
<1>4. CASE ManifestFails \/ DescribeFails \/ Hydrate
  <2>1. ~ResumePipeline /\ copies' = copies
    BY <1>4 DEF ManifestFails, DescribeFails, Hydrate, ResumePipeline, diskVars
  <2>2. Counted'
    BY <1>s, <1>4, <1>a, <2>1
       DEF ManifestFails, DescribeFails, Hydrate, CInv, Counted
  <2> QED
    BY <1>4, <1>d, <1>e, <1>f, <2>1, <2>2
       DEF ManifestFails, DescribeFails, Hydrate, CInv, Short, diskVars
<1>5. CASE \E f \in Files : \E off \in 0..Size[f] :
             FileBegin(f, off) \/ \E good \in BOOLEAN : FileChunk(f, off, good)
  <2>1. /\ ~ResumePipeline /\ copies' = copies /\ mem' = mem
        /\ resume' = resume /\ published' = published /\ done' = done
        /\ ready /\ ready' /\ pc' \in {"idle", "checkpoint"}
    BY <1>5 DEF FileBegin, BeginOk, FileChunk, ChunkOk, ResumePipeline, diskVars
  <2>2. Counted'
    BY <1>s, <1>a, <2>1 DEF CInv, Counted
  <2> QED
    BY <1>d, <1>e, <1>f, <2>1, <2>2 DEF CInv, Short
<1>6. CASE Checkpoint
  <2>1. /\ active \in Files /\ recvd < Size[active]
        /\ mem'.open = mem.open /\ mem'.res = mem.res
        /\ mem'.off = [mem.off EXCEPT ![active] = recvd]
        /\ resume' = mem' /\ copies' = copies /\ ready' = ready /\ ready
        /\ done' = done /\ published' = published /\ pc' = "idle"
        /\ ~ResumePipeline
    BY <1>0, <1>6 DEF IInv, TypeOK, Receiving, ResumeStates, Checkpoint,
       ResumePipeline, Files, NoFile
  <2>2. mem.off \in [Files -> Nat] /\ mem.open \subseteq Files
    BY <1>0 DEF TypeOK, ResumeStates
  <2>3. Short(mem')
    BY <2>1, <2>2 DEF CInv, Short
  <2>4. Counted'
    BY <1>s, <1>a, <2>1 DEF CInv, Counted
  <2> QED
    BY <1>d, <1>e, <1>f, <2>1, <2>3, <2>4 DEF CInv, Short
<1>7. CASE \E f \in Files : FileEnd(f)
  <2>1. PICK f \in Files : FileEnd(f)
    BY <1>7
  <2>2. /\ ~ResumePipeline /\ mem' = mem /\ resume' = resume
        /\ published' = published /\ done' = done /\ ready /\ ready'
        /\ pc' = "persist"
    BY <2>1 DEF FileEnd, EndOk, ResumePipeline
  <2>3. MissingFiles' \subseteq MissingFiles
    BY <1>0, <2>1 DEF TypeOK, FileEnd, MissingFiles
  <2>4. FewMissing => FewMissing'
    BY <1>a, <1>c, <2>2, <2>3, MissingShrinks DEF FewMissing
  <2>5. Counted'
    BY <1>s, <1>a, <2>2 DEF CInv, Counted
  <2> QED
    BY <1>d, <1>e, <2>2, <2>4, <2>5 DEF CInv, Short
<1>8. CASE PersistCompletedFile
  <2>1. /\ active \in Files /\ active \in mem.open /\ active \notin mem.res
        /\ ready /\ done <= Cardinality(mem.res) + CountedTwice
    BY <1>8 DEF IInv, StoreSound, Receiving, NoFile, Files, CInv, Counted,
       PersistCompletedFile
  <2>2. mem' = Recorded(mem, active)
        /\ resume' = mem' /\ copies' = copies /\ ready' = ready
        /\ done' = done + 1 /\ published' = published
        /\ pc' = IF done + 1 = N THEN "purge" ELSE "idle"
    BY <1>8 DEF PersistCompletedFile
  <2>0. ~ResumePipeline
    BY <1>8 DEF PersistCompletedFile, ResumePipeline
  <2>3. /\ mem'.open = mem.open \ {active}
        /\ mem'.off = [mem.off EXCEPT ![active] = 0]
        /\ mem'.res = mem.res \cup {active}
    BY <2>2 DEF Recorded
  <2>4. Cardinality(mem'.res) = Cardinality(mem.res) + 1
    <3>1. IsFiniteSet(mem.res)
      BY <1>0, FilesFinite DEF TypeOK, ResumeStates
    <3> QED
      BY <2>1, <2>3, <3>1, FS_AddElement
  <2>5. Short(mem')
    <3>1. mem.off \in [Files -> Nat] /\ mem.open \subseteq Files
      BY <1>0 DEF TypeOK, ResumeStates
    <3> QED
      BY <2>3, <3>1 DEF CInv, Short
  <2>6. done' <= Cardinality(mem'.res) + CountedTwice'
    BY <1>0, <1>a, <1>c, <2>0, <2>1, <2>2, <2>4 DEF TypeOK
  <2>7. done + 1 = N => FewMissing'
    <3>1. (Cardinality(MissingFiles) + Cardinality(mem.res) <= N)'
      <4>1. TypeOK' /\ ResolvedCommitted'
        BY <1>0 DEF IInv, StoreSound
      <4>2. (TypeOK /\ ResolvedCommitted =>
               Cardinality(MissingFiles) + Cardinality(mem.res) <= N)'
        BY MissingAreOthers, PTL
      <4> QED
        BY <4>1, <4>2
    <3>2. Cardinality(mem'.res) \in Nat
      BY <1>c, <2>4
    <3> QED
      BY <1>0, <1>a, <1>c, <2>0, <2>1, <2>2, <2>6, <3>1, <3>2
         DEF FewMissing, TypeOK
  <2>8. Counted'
    BY <1>s, <2>0, <2>1, <2>2, <2>6 DEF Counted
  <2> QED
    BY <1>d, <1>e, <1>f, <2>0, <2>2, <2>5, <2>7, <2>8 DEF CInv, Short
<1>9. CASE PersistFails
  <2>1. ~ResumePipeline /\ copies' = copies
    BY <1>9 DEF PersistFails, ResumePipeline, diskVars
  <2>2. Counted'
    BY <1>s, <1>9, <1>a, <2>1 DEF PersistFails, CInv, Counted
  <2> QED
    BY <1>9, <1>d, <1>e, <1>f, <2>1, <2>2
       DEF PersistFails, CInv, Short, diskVars
<1>10. CASE PurgeResume \/ PurgeDesc
  <2>1. ~ResumePipeline /\ copies' = copies
    BY <1>10 DEF PurgeResume, PurgeDesc, ResumePipeline
  <2>2. Counted'
    BY <1>s, <1>10, <1>a, <2>1 DEF PurgeResume, PurgeDesc, CInv, Counted
  <2>3. Short(mem') /\ Short(resume')
    BY <1>10 DEF PurgeResume, PurgeDesc, NoState, CInv, Short
  <2> QED
    BY <1>10, <1>d, <1>e, <1>f, <2>1, <2>2, <2>3
       DEF PurgeResume, PurgeDesc, CInv, Short
<1>11. CASE ResumePipeline
  <2>1. /\ starts' = starts + 1 /\ copies' = copies /\ resume' = resume
        /\ mem' = resume /\ published' = published
        /\ ~ready' /\ done' = 0 /\ pc' = "idle"
    BY <1>11 DEF ResumePipeline, diskVars
  <2>2. CountedTwice <= CountedTwice'
    <3>1. EmptyFiles \in SUBSET Files
      BY DEF EmptyFiles
    <3>2. Cardinality(EmptyFiles) \in Nat
      BY <3>1, FilesFinite
    <3>3. CountedTwice' = Cardinality(EmptyFiles) \/ starts' = 1
      BY DEF CountedTwice
    <3>4. starts' = 1 => starts = 0
      BY <1>0, <2>1 DEF TypeOK
    <3>5. starts # 0
      BY DEF CInv, Counted
    <3> QED
      BY <1>c, <3>2, <3>3, <3>4, <3>5 DEF CountedTwice
  <2>3. FewMissing => FewMissing'
    BY <1>b, <1>c, <2>1, <2>2 DEF FewMissing
  <2>4. Counted'
    BY <1>s, <1>0, <2>1 DEF CInv, Counted, TypeOK
  <2> QED
    BY <1>d, <1>e, <2>1, <2>3, <2>4 DEF CInv, Short
<1>12. CASE Crash
  <2>1. ~ResumePipeline /\ copies' = copies
    BY <1>12 DEF Crash, ResumePipeline
  <2>2. Counted' /\ Short(mem')
    BY <1>s, <1>12, <1>a, <2>1 DEF Crash, NoState, CInv, Counted, Short
  <2> QED
    BY <1>12, <1>d, <1>e, <1>f, <2>1, <2>2 DEF Crash, CInv, Short
<1>13. CASE Stop \/ ClosePipeline
  <2>1. ~ResumePipeline /\ copies' = copies
    BY <1>13 DEF Stop, ClosePipeline, ResumePipeline
  <2>2. Counted'
    BY <1>s, <1>13, <1>a, <2>1 DEF Stop, ClosePipeline, CInv, Counted
  <2> QED
    BY <1>13, <1>d, <1>e, <1>f, <2>1, <2>2 DEF Stop, ClosePipeline, CInv, Short
<1>14. CASE UNCHANGED vars
  <2>1. ~ResumePipeline /\ copies' = copies
    BY <1>0, <1>14 DEF vars, diskVars, ResumePipeline, TypeOK
  <2>2. Counted'
    BY <1>s, <1>14, <1>a, <2>1 DEF vars, pipeVars, CInv, Counted
  <2> QED
    BY <1>14, <1>d, <1>e, <1>f, <2>1, <2>2
       DEF vars, diskVars, pipeVars, CInv, Short
<1> QED
  BY <1>1, <1>2, <1>3, <1>4, <1>5, <1>6, <1>7, <1>8, <1>9, <1>10, <1>11,
     <1>12, <1>13, <1>14
     DEF Next, ManifestRepeated, FrameRefused, BeginRefused, ChunkRefused,
         WriteFails, CheckpointFails, EndRefused, CommitFails, PurgeFails

\* A transfer is announced as Completed with all its files, empty ones or
\* not, if it was never resumed; after a resume at most as many are missing
\* as the manifest has empty files (publishCompleted, prepareResumeState).
THEOREM CompletionIsHonest == Spec => []CompletedMeansAllCommitted
<1>1. Init => CInv
  BY CInvInit
<1>2. IInv /\ IInv' /\ CInv /\ [Next]_vars => CInv'
  BY CInvStep
<1>3. CInv => CompletedMeansAllCommitted
  BY DEF CInv
<1> QED
  BY <1>1, <1>2, <1>3, IInvAlways, PTL DEF Spec
=============================================================================
