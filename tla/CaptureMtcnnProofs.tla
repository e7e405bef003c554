------------------------- MODULE CaptureMtcnnProofs -------------------------
(***************************************************************************)
(* MtcnnDetectionViewController for any number of frames and faces.        *)
(***************************************************************************)
EXTENDS CaptureMtcnn, CameraSessionProofs

USE DEF AllMade, Drawn, PoolAfter

\* While its frame is handled, every array that reached the pool is in it.
PooledAlive ==
  pc \in {"convert", "draw"} =>
    \A i \in DOMAIN landmarks : landmarks[i] = "pooled" => <<cur, i>> \in pool

LandmarksInv == /\ landmarks \in Seq({"pooled", "stolen"}) /\ it \in Nat \ {0}
                /\ pc \in {"draw", "undefined"} /\ it <= Len(landmarks) => it \in DOMAIN landmarks
                /\ PooledAlive /\ DrawsFreedOnlyIfStolen

LEMMA LandmarksInit == Init => LandmarksInv
BY DEF Init, SessionInit, LandmarksInv, PooledAlive, DrawsFreedOnlyIfStolen

\* The main thread and the camera: they leave the arrays alone and the camera
\* starts a handler only when none is under way.
LEMMA LandmarksSession ==
  ASSUME LandmarksInv, Session
  PROVE  LandmarksInv'
<1>1. UNCHANGED own /\ (UNCHANGED <<pc, cur>> \/ pc' = "begin")
  BY DEF Session, Main, LoadView, ConfigureSession, SetFormat, StartRunning, ReturnToRunLoop,
         ShowFrame, SetUp, handlerVars, Produce
<1> QED
  BY <1>1 DEF LandmarksInv, PooledAlive, DrawsFreedOnlyIfStolen, own

LEMMA LandmarksMakeFace ==
  ASSUME LandmarksInv, MakeFace
  PROVE  LandmarksInv'
<1> DEFINE n == Len(landmarks)
<1>1. PICK o \in Ownership :
        /\ landmarks' = Append(landmarks, o)
        /\ pool' = IF o = "pooled" THEN pool \cup {<<cur, Len(landmarks')>>} ELSE pool
  BY DEF MakeFace
<1>2. /\ pc = "convert" /\ pc' = "convert" /\ cur' = cur /\ it' = it /\ n \in Nat
      /\ o \in {"pooled", "stolen"} /\ landmarks \in Seq({"pooled", "stolen"})
  BY OwnershipAssumption DEF LandmarksInv, MakeFace, sessionVars, handlerVars
<1>3. /\ landmarks' \in Seq({"pooled", "stolen"}) /\ Len(landmarks') = n + 1
      /\ DOMAIN landmarks = 1..n /\ DOMAIN landmarks' = 1..(n + 1)
      /\ landmarks'[n + 1] = o /\ \A i \in 1..n : landmarks'[i] = landmarks[i]
  BY <1>1, <1>2
<1>4. PooledAlive'
  <2> SUFFICES ASSUME NEW i \in 1..(n + 1), landmarks'[i] = "pooled"
               PROVE  <<cur, i>> \in pool'
    BY <1>2, <1>3 DEF PooledAlive
  <2>1. CASE i = n + 1
    BY <2>1, <1>1, <1>3
  <2>2. CASE i # n + 1
    <3>1. i \in 1..n
      BY <2>2, <1>2
    <3>2. landmarks[i] = "pooled" /\ <<cur, i>> \in pool
      BY <3>1, <1>2, <1>3 DEF LandmarksInv, PooledAlive
    <3> QED
      BY <3>2, <1>1
  <2> QED
    BY <2>1, <2>2
<1> QED
  BY <1>2, <1>3, <1>4 DEF LandmarksInv, DrawsFreedOnlyIfStolen

LEMMA LandmarksStep == LandmarksInv /\ [Next]_vars => LandmarksInv'
<1> SUFFICES ASSUME LandmarksInv, [Next]_vars PROVE LandmarksInv'
  OBVIOUS
<1>1. CASE Copy
  BY <1>1 DEF Copy, CopyFrame, Handler, own, LandmarksInv, PooledAlive, DrawsFreedOnlyIfStolen
<1>2. CASE Detect
  BY <1>2 DEF Detect, Detected, Handler, LandmarksInv, PooledAlive, DrawsFreedOnlyIfStolen
<1>3. CASE ReturnFaces
  BY <1>3 DEF ReturnFaces, Handler, LandmarksInv, PooledAlive, DrawsFreedOnlyIfStolen
<1>4. CASE DrawFace
  BY <1>4 DEF DrawFace, DrawMark, Handler, LandmarksInv, PooledAlive, DrawsFreedOnlyIfStolen
<1>5. CASE DrawFreed
  <2>1. /\ pc = "draw" /\ pc' = "undefined" /\ UNCHANGED own
        /\ ~(it > Len(landmarks)) /\ <<cur, it>> \notin pool
    BY <1>5 DEF DrawFreed, Handler
  <2>2. it \in DOMAIN landmarks /\ landmarks[it] \in {"pooled", "stolen"}
    BY <2>1 DEF LandmarksInv
  <2>3. landmarks[it] = "stolen"
    BY <2>1, <2>2 DEF LandmarksInv, PooledAlive
  <2> QED
    BY <2>1, <2>2, <2>3 DEF LandmarksInv, PooledAlive, DrawsFreedOnlyIfStolen, own
<1>6. CASE Finish
  BY <1>6 DEF Finish, Dispatch, Handler, own, LandmarksInv, PooledAlive, DrawsFreedOnlyIfStolen
<1>7. CASE DrainPool
  BY <1>7 DEF DrainPool, sessionVars, handlerVars, LandmarksInv, PooledAlive, DrawsFreedOnlyIfStolen
<1>8. CASE UNCHANGED vars
  BY <1>8 DEF vars, sessionVars, handlerVars, own, LandmarksInv, PooledAlive, DrawsFreedOnlyIfStolen
<1> QED
  BY <1>1, <1>2, <1>3, <1>4, <1>5, <1>6, <1>7, <1>8, LandmarksSession, LandmarksMakeFace
     DEF Next, Sample

LEMMA SetUpStep == SetUpInOrder /\ [Next]_vars => SetUpInOrder'
<1> SUFFICES ASSUME SetUpInOrder, [Next]_vars PROVE SetUpInOrder'
  OBVIOUS
<1>1. CASE Session
  BY <1>1, SetUpMain, SetUpProduce DEF Session
<1>2. CASE Sample \/ DrainPool \/ UNCHANGED vars
  <2>1. UNCHANGED mainVars /\ (pc # "idle" \/ pc' = pc)
    BY <1>2 DEF Sample, Copy, CopyFrame, Detect, Detected, MakeFace, ReturnFaces, DrawFace, DrawMark,
                DrawFreed, Finish, Dispatch, DrainPool, Handler, sessionVars, handlerVars, vars
  <2> QED
    BY <2>1, SetUpOthers
<1> QED
  BY <1>1, <1>2 DEF Next

\* The handler never runs on a controller that is not ready for it.
THEOREM CaptureReadyBeforeFrames == Spec => []ReadyBeforeFrames
<1>1. Init => SetUpInOrder
  BY SetUpInit DEF Init
<1> QED
  BY <1>1, SetUpStep, SetUpImplies, PTL DEF Spec

\* Only an array without a reference beside the wrapper's local is read after
\* it was freed.
THEOREM CaptureDrawsFreedOnlyIfStolen == Spec => []DrawsFreedOnlyIfStolen
<1>1. LandmarksInv => DrawsFreedOnlyIfStolen
  BY DEF LandmarksInv
<1> QED
  BY <1>1, LandmarksInit, LandmarksStep, PTL DEF Spec
-----------------------------------------------------------------------------
\* The handler draws the marks found, one by one, into a Mat that had none.
MarksInv ==
  /\ pc \in {"idle", "begin", "detect", "convert", "draw", "undefined"}
  /\ landmarks \in Seq(Ownership) /\ Len(landmarks) <= MaxMarks /\ it \in 1..(MaxMarks + 1)
  /\ pool \subseteq (1..MaxFrames) \X (1..MaxMarks)
  /\ pc = "detect" => mats[cur] = 0
  /\ pc = "convert" => mats[cur] = 0 /\ Len(landmarks) <= Last
  /\ pc = "draw" => /\ it \in 1..(Len(landmarks) + 1) /\ Len(landmarks) = Last
                    /\ mats[cur] = it - 1

LEMMA MarksInit == Init => MarksInv
BY SessionAssumption DEF Init, SessionInit, MarksInv

\* The main thread leaves the handler alone; the camera starts one only when
\* none is under way.
LEMMA MarksSession ==
  ASSUME MarksInv, Session
  PROVE  MarksInv'
<1>1. UNCHANGED own /\ (UNCHANGED <<pc, cur, mats, taken>> \/ pc' = "begin")
  BY DEF Session, Main, LoadView, ConfigureSession, SetFormat, StartRunning, ReturnToRunLoop,
         ShowFrame, SetUp, handlerVars, Produce
<1>2. CASE UNCHANGED <<pc, cur, mats, taken>>
  BY <1>1, <1>2 DEF MarksInv, Last, own
<1>3. CASE pc' = "begin"
  BY <1>1, <1>3 DEF MarksInv, own
<1> QED
  BY <1>1, <1>2, <1>3

LEMMA PictureSession ==
  ASSUME PictureInv, Session
  PROVE  PictureInv' /\ (UNCHANGED Pipeline!vars \/ Pipeline!Next)
<1>1. CASE LoadView \/ ConfigureSession \/ SetFormat \/ StartRunning \/ ReturnToRunLoop
  BY <1>1, PictureSetUp DEF LoadView, ConfigureSession, SetFormat, StartRunning, ReturnToRunLoop
<1>2. CASE ShowFrame
  BY <1>2, PictureShow DEF Pipeline!Next
<1>3. CASE Produce
  BY <1>3, PictureProduce
<1> QED
  BY <1>1, <1>2, <1>3 DEF Session, Main

\* Every step keeps both invariants and is a step of the pipeline, or none.
LEMMA PipelineStep ==
  ASSUME PictureInv, MarksInv, [Next]_vars
  PROVE  PictureInv' /\ MarksInv' /\ (UNCHANGED Pipeline!vars \/ Pipeline!Next)
<1>0. /\ landmarks \in Seq(Ownership) /\ it \in 1..(MaxMarks + 1) /\ Len(landmarks) \in Nat
      /\ pc # "idle" => cur \in 1..MaxFrames /\ mats \in [1..MaxFrames -> 0..MaxMarks]
      /\ pc \in {"convert", "draw"} => Last \in 0..MaxMarks
      /\ MaxMarks \in Nat /\ Len(landmarks) <= MaxMarks
      /\ pool \subseteq (1..MaxFrames) \X (1..MaxMarks)
  BY LastTaken, SessionAssumption DEF MarksInv, Late
<1>1. CASE Copy
  <2>1. pc = "begin" /\ pc' = "detect" /\ cur' = cur /\ UNCHANGED own
        /\ mats' = [mats EXCEPT ![cur] = 0]
    BY <1>1 DEF Copy, CopyFrame, Handler
  <2>2. MarksInv'
    BY <2>1, <1>0 DEF MarksInv, own
  <2> QED
    BY <1>1, <2>2, PictureCopy DEF Copy, Early
<1>2. CASE Detect
  <2>1. PICK n \in 0..MaxMarks : Detected(n, "convert")
    BY <1>2 DEF Detect
  <2>2. PictureInv' /\ Pipeline!Take
    BY <2>1, PictureDetected DEF Late
  <2>3. /\ pc = "detect" /\ pc' = "convert" /\ UNCHANGED <<cur, mats, it, pool>>
        /\ landmarks' = <<>> /\ Len(landmarks') = 0
    BY <1>2, <2>1 DEF Detect, Detected, Handler
  <2>4. Last' = n
    <3> DEFINE p == [frame |-> cur, marks |-> n]
    <3>1. taken \in Seq(Picture) /\ taken' = Append(taken, p)
      BY <2>1 DEF PictureInv, PictureTypes, Detected
    <3>2. taken'[Len(taken')] = p
      <4> HIDE DEF p
      <4> QED
        BY <3>1
    <3> QED
      BY <3>2 DEF Last
  <2> QED
    BY <2>2, <2>3, <2>4, <1>0 DEF MarksInv, Pipeline!Next
<1>3. CASE MakeFace
  <2>1. PICK o \in Ownership :
          /\ landmarks' = Append(landmarks, o)
          /\ pool' = IF o = "pooled" THEN pool \cup {<<cur, Len(landmarks')>>} ELSE pool
    BY <1>3 DEF MakeFace
  <2>2. /\ pc = "convert" /\ pc' = "convert" /\ ~(Last <= Len(landmarks))
        /\ UNCHANGED <<loading, ready, clock, cur, mats, taken, mainQueue, shown, it>>
    BY <1>3 DEF MakeFace, sessionVars, mainVars, handlerVars, Last
  <2>3. landmarks' \in Seq(Ownership) /\ Len(landmarks') = Len(landmarks) + 1
    BY <2>1, <1>0
  <2>4. Last' = Last /\ Len(landmarks') <= Last /\ Len(landmarks') \in 1..MaxMarks
    BY <2>2, <2>3, <1>0 DEF Last
  <2>5. pool' \subseteq (1..MaxFrames) \X (1..MaxMarks)
    BY <2>1, <2>2, <2>4, <1>0
  <2> QED
    BY <2>2, <2>3, <2>4, <2>5, <1>0, PictureOthers DEF MarksInv, Early, Late
<1>4. CASE ReturnFaces
  <2>1. /\ pc = "convert" /\ pc' = "draw" /\ Last <= Len(landmarks) /\ it' = 1
        /\ UNCHANGED <<loading, ready, clock, cur, mats, taken, mainQueue, shown, landmarks, pool>>
    BY <1>4 DEF ReturnFaces, Handler, Last, mainVars
  <2>2. Last' = Last /\ Len(landmarks) = Last /\ mats[cur] = 0
    BY <2>1, <1>0 DEF MarksInv, Last
  <2>3. MarksInv'
    BY <2>1, <2>2, <1>0 DEF MarksInv
  <2> QED
    BY <2>1, <2>3, PictureOthers DEF Early, Late
<1>5. CASE DrawFace
  <2>1. /\ pc = "draw" /\ pc' = "draw" /\ ~(it > Len(landmarks)) /\ it' = it + 1
        /\ mats' = [mats EXCEPT ![cur] = mats[cur] + 1] /\ UNCHANGED <<cur, landmarks, taken, pool>>
    BY <1>5 DEF DrawFace, DrawMark, Handler
  <2>2. Last' = Last /\ it \in 1..(Len(landmarks) + 1) /\ Len(landmarks) = Last /\ mats[cur] = it - 1
    BY <2>1 DEF MarksInv, Last
  <2>3. mats'[cur] = it' - 1 /\ it' \in 1..(Len(landmarks) + 1) /\ mats[cur] < MaxMarks
    BY <2>1, <2>2, <1>0
  <2>4. MarksInv'
    BY <2>1, <2>2, <2>3, <1>0 DEF MarksInv
  <2> QED
    BY <1>5, <2>3, <2>4, PictureDraw DEF DrawFace
<1>6. CASE DrawFreed
  <2>1. /\ pc = "draw" /\ pc' = "undefined" /\ UNCHANGED own
        /\ UNCHANGED <<loading, ready, clock, cur, mats, taken, mainQueue, shown>>
    BY <1>6 DEF DrawFreed, Handler, mainVars
  <2>2. MarksInv'
    BY <2>1 DEF MarksInv, own
  <2> QED
    BY <2>1, <2>2, PictureOthers DEF Early, Late
<1>7. CASE Finish
  <2>1. pc = "draw" /\ pc' = "idle" /\ it > Len(landmarks) /\ UNCHANGED own
    BY <1>7 DEF Finish, Dispatch, Handler
  <2>2. mats[cur] = Last
    BY <2>1, <1>0 DEF MarksInv
  <2>3. MarksInv'
    BY <2>1 DEF MarksInv, own
  <2> QED
    BY <1>7, <2>2, <2>3, PictureDispatch DEF Finish, Last
<1>8. CASE DrainPool \/ UNCHANGED vars
  <2>1. /\ UNCHANGED <<loading, ready, clock, pc, cur, mats, taken, mainQueue, shown>>
        /\ UNCHANGED <<landmarks, it>> /\ (pool' = pool \/ pool' = {})
    BY <1>8 DEF DrainPool, vars, own, sessionVars, mainVars, handlerVars
  <2>2. MarksInv'
    BY <2>1 DEF MarksInv, Last
  <2> QED
    BY <2>1, <2>2, PictureOthers
<1> QED
  BY <1>1, <1>2, <1>3, <1>4, <1>5, <1>6, <1>7, <1>8, MarksSession, PictureSession DEF Next, Sample

\* All variables stay in their types; no Face is made beyond the boxes found.
THEOREM CaptureTypeOK == Spec => []TypeOK
<1>1. Init => SetUpInOrder /\ PictureInv /\ MarksInv
  BY SetUpInit, PictureInit, MarksInit DEF Init
<1>2. SetUpInOrder /\ PictureInv /\ MarksInv /\ [Next]_vars => SetUpInOrder' /\ PictureInv' /\ MarksInv'
  BY SetUpStep, PipelineStep
<1>3. SetUpInOrder /\ PictureInv /\ MarksInv => TypeOK
  BY SessionTypes DEF TypeOK, MarksInv
<1> QED
  BY <1>1, <1>2, <1>3, PTL DEF Spec

\* Frames are shown once each, in order, with the marks found in them and no
\* others: every step is a step of FramePipeline.
THEOREM CaptureImplementsPipeline == Spec => Pipeline!Init /\ [][Pipeline!Next]_(Pipeline!vars)
<1>1. Init => PictureInv /\ MarksInv /\ Pipeline!Init
  BY PictureInit, MarksInit DEF Init
<1>2. PictureInv /\ MarksInv /\ [Next]_vars => PictureInv' /\ MarksInv' /\ [Pipeline!Next]_(Pipeline!vars)
  BY PipelineStep
<1> QED
  BY <1>1, <1>2, PTL DEF Spec

\* What the MTCNN controller shows is what it took, in order: no frame twice, none
\* late, none with the marks of another.
COROLLARY CaptureShowsInOrder == Spec => []ShownInOrder
BY CaptureImplementsPipeline, PipelineShowsInOrder, PTL
=============================================================================
