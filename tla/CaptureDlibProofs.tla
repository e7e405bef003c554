------------------------- MODULE CaptureDlibProofs -------------------------
(***************************************************************************)
(* ViewController for any number of frames, metadata arrays and faces.     *)
(***************************************************************************)
EXTENDS CaptureDlib, CameraSessionProofs, Integers

USE DEF Getter, Retained, Released, Drawn

One(condition) == IF condition THEN 1 ELSE 0

\* Who refers to array a: the ivar, AVFoundation during the callback, the
\* callback with the array it replaced, and the handler in its loop.
Owners(a) == One(a = current) + One(a = made /\ wpc \in {"store", "release", "return"})
               + One(a = old /\ wpc = "release") + One(a = held /\ pc = "bounds")

ArrayTypes == /\ wpc \in {"idle", "store", "release", "return"}
              /\ made \in Arrays /\ current \in Arrays /\ old \in Arrays
              /\ held \in Arrays /\ since \in Arrays
              /\ faces \in [Arrays -> 0..MaxFaces] /\ refs \in [Arrays -> Int]

\* Arrays are replaced in the order they are made, the handler's and the one
\* being released are not later than the current one, and references balance.
ArraysInv ==
  /\ ArrayTypes
  /\ wpc # "store" => current = made
  /\ wpc = "store" => current < made
  /\ wpc = "release" => old < current
  /\ held <= current /\ since <= current
  /\ pc \notin {"idle", "begin"} => since <= held
  /\ pc = "undefined" => held < current
  /\ \A a \in Arrays : refs[a] = Owners(a)

LEMMA ArraysInit == Init => ArraysInv
BY MetadataAssumption DEF Init, SessionInit, Arrays, ArraysInv, ArrayTypes, Owners, One

LEMMA ArraysImplies == ArraysInv => FreedOnlyIfReplaced /\ NothingLeaks /\ FacesAreCurrent
<1> SUFFICES ASSUME ArraysInv PROVE FreedOnlyIfReplaced /\ NothingLeaks /\ FacesAreCurrent
  OBVIOUS
<1>1. /\ made \in Nat /\ current \in Nat /\ held \in Nat /\ since \in Nat /\ 0..made \subseteq Arrays
  BY MetadataAssumption DEF Arrays, ArraysInv, ArrayTypes
<1>2. FreedOnlyIfReplaced
  BY DEF ArraysInv, FreedOnlyIfReplaced
<1>3. NothingLeaks
  BY <1>1 DEF ArraysInv, NothingLeaks, Owners, One
<1>4. FacesAreCurrent
  BY <1>1 DEF ArraysInv, FacesAreCurrent
<1> QED
  BY <1>2, <1>3, <1>4

\* Steps that touch no array.
LEMMA ArraysOthers ==
  ASSUME ArraysInv, UNCHANGED <<faceVars, refs, held>>,
         pc = "bounds" <=> pc' = "bounds", pc' # "undefined" \/ pc = "undefined",
         \/ since' = since /\ (pc' \notin {"idle", "begin"} => pc \notin {"idle", "begin"})
         \/ since' = current /\ pc' = "begin"
  PROVE  ArraysInv'
<1>1. \A a \in Arrays : Owners(a)' = Owners(a)
  BY DEF Owners, faceVars
<1>2. ArrayTypes'
  BY DEF ArraysInv, ArrayTypes, faceVars
<1>3. current <= current
  BY MetadataAssumption DEF Arrays, ArraysInv, ArrayTypes
<1> QED
  BY <1>1, <1>2, <1>3 DEF ArraysInv, faceVars

LEMMA ArraysStep == ArraysInv /\ [Next]_vars => ArraysInv'
<1> SUFFICES ASSUME ArraysInv, [Next]_vars PROVE ArraysInv'
  OBVIOUS
<1>0. /\ MaxArrays \in Nat /\ made \in Nat /\ current \in Nat /\ old \in Nat
      /\ held \in Nat /\ since \in Nat
      /\ made \in Arrays /\ current \in Arrays /\ old \in Arrays
      /\ held \in Arrays /\ since \in Arrays
      /\ wpc \in {"idle", "store", "release", "return"}
      /\ faces \in [Arrays -> 0..MaxFaces] /\ refs \in [Arrays -> Int]
      /\ held <= current /\ since <= current /\ current <= made
      /\ \A a \in Arrays : a \in Nat /\ refs[a] \in Int /\ refs[a] = Owners(a)
  <2>1. /\ MaxArrays \in Nat /\ Arrays \subseteq Nat /\ ArrayTypes
        /\ held <= current /\ since <= current
    BY MetadataAssumption DEF Arrays, ArraysInv
  <2>2. /\ made \in Nat /\ current \in Nat /\ old \in Nat /\ held \in Nat /\ since \in Nat
    BY <2>1 DEF ArrayTypes
  <2>3. current <= made
    BY <2>2 DEF ArraysInv
  <2> QED
    BY <2>1, <2>2, <2>3 DEF ArraysInv, ArrayTypes
<1>1. CASE MainThread
  <2>1. UNCHANGED <<pc, faceVars, refs, sampleVars>>
    BY <1>1 DEF MainThread, Main, LoadView, ConfigureSession, SetFormat, StartRunning,
                ReturnToRunLoop, ShowFrame, SetUp, handlerVars
  <2> QED
    BY <2>1, ArraysOthers DEF sampleVars
<1>2. CASE Callback
  <2>1. PICK n \in 0..MaxFaces : faces' = [faces EXCEPT ![made'] = n]
    BY <1>2 DEF Callback
  <2>2. /\ wpc = "idle" /\ wpc' = "store" /\ made < MaxArrays /\ made' = made + 1
        /\ refs' = [refs EXCEPT ![made + 1] = 1]
        /\ UNCHANGED <<pc, current, old, held, since>>
    BY <1>2 DEF Callback, sessionVars, handlerVars, sampleVars
  <2>3. made + 1 \in Arrays
    BY <2>2, <1>0 DEF Arrays
  <2>4. ArrayTypes'
    BY <2>1, <2>2, <2>3, <1>0 DEF ArrayTypes
  <2>5. ASSUME NEW a \in Arrays PROVE refs'[a] = Owners(a)'
    BY <2>2, <1>0 DEF Owners, One
  <2> QED
    BY <2>2, <2>4, <2>5, <1>0 DEF ArraysInv
<1>3. CASE Store
  <2>1. /\ wpc = "store" /\ wpc' = "release" /\ refs' = [refs EXCEPT ![made] = refs[made] + 1]
        /\ old' = current /\ current' = made /\ current < made
        /\ UNCHANGED <<pc, made, faces, held, since>>
    BY <1>3 DEF Store, ArraysInv, sessionVars, handlerVars, sampleVars
  <2>2. ArrayTypes'
    BY <2>1, <1>0 DEF ArrayTypes
  <2>3. ASSUME NEW a \in Arrays PROVE refs'[a] = Owners(a)'
    BY <2>1, <1>0 DEF Owners, One
  <2>4. pc = "undefined" => held < made
    BY <2>1, <1>0
  <2>5. pc \notin {"idle", "begin"} => since <= held
    BY DEF ArraysInv
  <2> QED
    BY <2>1, <2>2, <2>3, <2>4, <2>5, <1>0 DEF ArraysInv
<1>4. CASE ReleaseOld
  <2>1. /\ wpc = "release" /\ wpc' = "return" /\ refs' = [refs EXCEPT ![old] = refs[old] - 1]
        /\ UNCHANGED <<pc, made, faces, current, old, held, since>>
    BY <1>4 DEF ReleaseOld, sessionVars, handlerVars, sampleVars
  <2>2. ArrayTypes'
    BY <2>1, <1>0 DEF ArrayTypes
  <2>3. ASSUME NEW a \in Arrays PROVE refs'[a] = Owners(a)'
    BY <2>1, <1>0 DEF Owners, One
  <2> QED
    BY <2>1, <2>2, <2>3, <1>0 DEF ArraysInv
<1>5. CASE CallbackReturns
  <2>1. /\ wpc = "return" /\ wpc' = "idle" /\ refs' = [refs EXCEPT ![made] = refs[made] - 1]
        /\ UNCHANGED <<pc, made, faces, current, old, held, since>>
    BY <1>5 DEF CallbackReturns, sessionVars, handlerVars, sampleVars
  <2>2. ArrayTypes'
    BY <2>1, <1>0 DEF ArrayTypes
  <2>3. ASSUME NEW a \in Arrays PROVE refs'[a] = Owners(a)'
    BY <2>1, <1>0 DEF Owners, One
  <2> QED
    BY <2>1, <2>2, <2>3, <1>0 DEF ArraysInv
<1>6. CASE Arrive
  <2>1. /\ UNCHANGED <<faceVars, refs, held>>
        /\ \/ pc = "idle" /\ pc' = "begin" /\ since' = current
           \/ pc # "idle" /\ pc' = pc /\ since' = since
    BY <1>6 DEF Arrive, Produce
  <2> QED
    BY <2>1, ArraysOthers
<1>7. CASE Load
  <2>1. /\ pc = "begin" /\ pc' = "retain" /\ held' = current
        /\ UNCHANGED <<made, faces, current, wpc, old, refs, since>>
    BY <1>7 DEF Load, Handler, faceVars
  <2>2. ArrayTypes'
    BY <2>1 DEF ArraysInv, ArrayTypes
  <2>3. ASSUME NEW a \in Arrays PROVE Owners(a)' = Owners(a)
    BY <2>1 DEF Owners
  <2> QED
    BY <2>1, <2>2, <2>3, <1>0 DEF ArraysInv
<1>8. CASE Retain
  <2>1. /\ pc = "retain" /\ pc' = "bounds" /\ refs' = [refs EXCEPT ![held] = refs[held] + 1]
        /\ UNCHANGED <<made, faces, current, wpc, old, held, since>>
    BY <1>8 DEF Retain, Handler, faceVars, sampleVars
  <2>2. ArrayTypes'
    BY <2>1, <1>0 DEF ArraysInv, ArrayTypes
  <2>3. ASSUME NEW a \in Arrays PROVE refs'[a] = Owners(a)'
    BY <2>1, <1>0 DEF Owners, One
  <2> QED
    BY <2>1, <2>2, <2>3, <1>0 DEF ArraysInv
<1>9. CASE RetainFreed
  <2>1. /\ pc = "retain" /\ pc' = "undefined" /\ refs[held] = 0
        /\ UNCHANGED <<made, faces, current, wpc, old, refs, held, since>>
    BY <1>9 DEF RetainFreed, Handler, faceVars, sampleVars
  <2>2. held < current
    BY <2>1, <1>0 DEF Owners, One
  <2>3. ASSUME NEW a \in Arrays PROVE Owners(a)' = Owners(a)
    BY <2>1 DEF Owners
  <2> QED
    BY <2>1, <2>2, <2>3 DEF ArraysInv, ArrayTypes
<1>10. CASE ReadBounds
  <2>1. /\ pc = "bounds" /\ pc' = "copy" /\ refs' = [refs EXCEPT ![held] = refs[held] - 1]
        /\ UNCHANGED <<made, faces, current, wpc, old, held, since>>
    BY <1>10 DEF ReadBounds, Handler, faceVars
  <2>2. ArrayTypes'
    BY <2>1, <1>0 DEF ArraysInv, ArrayTypes
  <2>3. ASSUME NEW a \in Arrays PROVE refs'[a] = Owners(a)'
    BY <2>1, <1>0 DEF Owners, One
  <2> QED
    BY <2>1, <2>2, <2>3, <1>0 DEF ArraysInv
<1>11. CASE Copy \/ Detect \/ Draw \/ Finish
  <2>1. /\ UNCHANGED <<faceVars, refs, held, since>>
        /\ pc \in {"copy", "detect", "draw"} /\ pc' \in {"detect", "draw", "idle"}
    BY <1>11 DEF Copy, CopyFrame, Detect, Detected, Draw, DrawMark, Finish, Dispatch, Handler,
                 sampleVars
  <2> QED
    BY <2>1, ArraysOthers
<1>12. CASE UNCHANGED vars
  <2>1. UNCHANGED <<pc, faceVars, refs, held, since>>
    BY <1>12 DEF vars, sessionVars, handlerVars, sampleVars
  <2> QED
    BY <2>1, ArraysOthers
<1> QED
  BY <1>1, <1>2, <1>3, <1>4, <1>5, <1>6, <1>7, <1>8, <1>9, <1>10, <1>11, <1>12
     DEF Next, FaceQueue, Sample

LEMMA SetUpStep == SetUpInOrder /\ [Next]_vars => SetUpInOrder'
<1> SUFFICES ASSUME SetUpInOrder, [Next]_vars PROVE SetUpInOrder'
  OBVIOUS
<1>1. CASE MainThread \/ Arrive
  BY <1>1, SetUpMain, SetUpProduce DEF MainThread, Arrive
<1>2. CASE Callback \/ FaceQueue \/ Sample \/ UNCHANGED vars
  <2>1. UNCHANGED mainVars /\ (pc # "idle" \/ pc' = pc)
    BY <1>2 DEF Callback, FaceQueue, Store, ReleaseOld, CallbackReturns, Sample, Load, Retain,
                RetainFreed, ReadBounds, Copy, CopyFrame, Detect, Detected, Draw, DrawMark, Finish,
                Dispatch, Handler, sessionVars, handlerVars, vars
  <2> QED
    BY <2>1, SetUpOthers
<1> QED
  BY <1>1, <1>2 DEF Next

\* The handler never runs on a controller that is not ready for it.
THEOREM DlibReadyBeforeFrames == Spec => []ReadyBeforeFrames
<1>1. Init => SetUpInOrder
  BY SetUpInit DEF Init
<1> QED
  BY <1>1, SetUpStep, SetUpImplies, PTL DEF Spec

\* A freed array is retained only if the callback has replaced it between the
\* handler's load and its retain.
THEOREM DlibFreedOnlyIfReplaced == Spec => []FreedOnlyIfReplaced
BY ArraysInit, ArraysStep, ArraysImplies, PTL DEF Spec

\* References balance: once no thread is in the middle of an array, only the
\* current one is alive.
THEOREM DlibNothingLeaks == Spec => []NothingLeaks
BY ArraysInit, ArraysStep, ArraysImplies, PTL DEF Spec

\* The faces drawn into a frame are not older than those that were current
\* when it arrived.
THEOREM DlibFacesAreCurrent == Spec => []FacesAreCurrent
BY ArraysInit, ArraysStep, ArraysImplies, PTL DEF Spec
-----------------------------------------------------------------------------
\* The handler draws two marks for each face copied into a Mat that had none.
MarksInv ==
  /\ pc \in {"idle", "begin", "retain", "bounds", "copy", "detect", "draw", "undefined"}
  /\ bounds \in 0..MaxFaces /\ it \in 0..MaxMarks
  /\ pc = "detect" => mats[cur] = 0
  /\ pc = "draw" => it <= 2 * bounds /\ Last = 2 * bounds /\ mats[cur] = it

LEMMA MarksInit == Init => MarksInv
BY SessionAssumption, MetadataAssumption DEF Init, SessionInit, MarksInv

\* Steps of the other threads, and of a handler that is not drawing.
LEMMA MarksOthers ==
  ASSUME MarksInv, UNCHANGED <<bounds, it>>,
         \/ UNCHANGED <<pc, cur, mats, taken>>
         \/ pc' \in {"idle", "begin", "retain", "bounds", "copy", "undefined"}
  PROVE  MarksInv'
<1>1. CASE UNCHANGED <<pc, cur, mats, taken>>
  BY <1>1 DEF MarksInv, Last
<1>2. CASE pc' \in {"idle", "begin", "retain", "bounds", "copy", "undefined"}
  BY <1>2 DEF MarksInv
<1> QED
  BY <1>1, <1>2

\* Every step keeps both invariants and is a step of the pipeline, or none.
LEMMA PipelineStep ==
  ASSUME ArraysInv, PictureInv, MarksInv, [Next]_vars
  PROVE  PictureInv' /\ MarksInv' /\ (UNCHANGED Pipeline!vars \/ Pipeline!Next)
<1>0. /\ MaxFaces \in Nat /\ MaxMarks = 2 * MaxFaces /\ bounds \in 0..MaxFaces /\ it \in 0..MaxMarks
      /\ faces[held] \in 0..MaxFaces /\ 2 * bounds \in 0..MaxMarks
      /\ pc # "idle" => cur \in 1..MaxFrames /\ mats \in [1..MaxFrames -> 0..MaxMarks]
  BY LastTaken, MetadataAssumption DEF MarksInv, ArraysInv, ArrayTypes
<1>1. CASE MainThread
  <2>1. UNCHANGED <<bounds, it, pc, cur, mats, taken>>
    BY <1>1 DEF MainThread, Main, LoadView, ConfigureSession, SetFormat, StartRunning,
                ReturnToRunLoop, ShowFrame, SetUp, handlerVars, sampleVars
  <2>2. CASE LoadView \/ ConfigureSession \/ SetFormat \/ StartRunning \/ ReturnToRunLoop
    BY <2>1, <2>2, MarksOthers, PictureSetUp
       DEF LoadView, ConfigureSession, SetFormat, StartRunning, ReturnToRunLoop
  <2>3. CASE ShowFrame
    BY <2>1, <2>3, MarksOthers, PictureShow DEF Pipeline!Next
  <2> QED
    BY <1>1, <2>2, <2>3 DEF MainThread, Main
<1>2. CASE Callback \/ FaceQueue \/ UNCHANGED vars
  <2>1. /\ UNCHANGED <<loading, ready, clock, pc, cur, mats, taken, mainQueue, shown>>
        /\ UNCHANGED <<bounds, it>>
    BY <1>2 DEF Callback, FaceQueue, Store, ReleaseOld, CallbackReturns, vars, sessionVars,
                mainVars, handlerVars, sampleVars
  <2> QED
    BY <2>1, MarksOthers, PictureOthers
<1>3. CASE Arrive
  <2>1. Produce /\ UNCHANGED <<bounds, it>>
    BY <1>3 DEF Arrive
  <2>2. UNCHANGED <<pc, cur, mats, taken>> \/ pc' = "begin"
    BY <2>1 DEF Produce
  <2> QED
    BY <2>1, <2>2, MarksOthers, PictureProduce
<1>4. CASE Load \/ Retain \/ RetainFreed
  <2>1. /\ pc \in {"begin", "retain"} /\ pc' \in {"retain", "bounds", "undefined"}
        /\ UNCHANGED <<loading, ready, clock, cur, mats, taken, mainQueue, shown>>
        /\ UNCHANGED <<bounds, it>>
    BY <1>4 DEF Load, Retain, RetainFreed, Handler, mainVars, sampleVars
  <2> QED
    BY <2>1, MarksOthers, PictureOthers DEF Early, Late
<1>5. CASE ReadBounds
  <2>1. /\ pc = "bounds" /\ pc' = "copy" /\ bounds' = faces[held] /\ it' = it
        /\ UNCHANGED <<loading, ready, clock, cur, mats, taken, mainQueue, shown>>
    BY <1>5 DEF ReadBounds, Handler, mainVars
  <2>2. MarksInv'
    BY <2>1, <1>0 DEF MarksInv
  <2> QED
    BY <2>1, <2>2, PictureOthers DEF Early, Late
<1>6. CASE Copy
  <2>1. /\ pc = "copy" /\ pc' = "detect" /\ cur' = cur /\ UNCHANGED <<bounds, it>>
        /\ mats' = [mats EXCEPT ![cur] = 0]
    BY <1>6 DEF Copy, CopyFrame, Handler, sampleVars
  <2>2. MarksInv'
    BY <2>1, <1>0 DEF MarksInv
  <2> QED
    BY <1>6, <2>2, PictureCopy DEF Copy, Early
<1>7. CASE Detect
  <2>1. Detected(2 * bounds, "draw") /\ it' = 0 /\ bounds' = bounds
    BY <1>7 DEF Detect
  <2>2. PictureInv' /\ Pipeline!Take
    BY <2>1, <1>0, PictureDetected DEF Late
  <2>3. pc = "detect" /\ pc' = "draw" /\ UNCHANGED <<cur, mats>>
    BY <2>1 DEF Detected, Handler
  <2>4. Last' = 2 * bounds
    <3> DEFINE p == [frame |-> cur, marks |-> 2 * bounds]
    <3>1. taken \in Seq(Picture) /\ taken' = Append(taken, p)
      BY <2>1 DEF PictureInv, PictureTypes, Detected
    <3>2. taken'[Len(taken')] = p
      <4> HIDE DEF p
      <4> QED
        BY <3>1
    <3> QED
      BY <3>2 DEF Last
  <2>5. MarksInv'
    BY <2>1, <2>3, <2>4, <1>0 DEF MarksInv
  <2> QED
    BY <2>2, <2>5 DEF Pipeline!Next
<1>8. CASE Draw
  <2>1. /\ pc = "draw" /\ pc' = "draw" /\ ~(it >= 2 * bounds) /\ it' = it + 1
        /\ mats' = [mats EXCEPT ![cur] = mats[cur] + 1] /\ UNCHANGED <<cur, bounds, taken>>
    BY <1>8 DEF Draw, DrawMark, Handler
  <2>2. Last' = Last /\ Last = 2 * bounds /\ mats[cur] = it
    BY <2>1 DEF MarksInv, Last
  <2>3. mats'[cur] = it' /\ it' \in 0..MaxMarks /\ it' <= 2 * bounds /\ mats[cur] < MaxMarks
    BY <2>1, <2>2, <1>0
  <2>4. MarksInv'
    BY <2>1, <2>2, <2>3, <1>0 DEF MarksInv
  <2> QED
    BY <1>8, <2>3, <2>4, PictureDraw DEF Draw
<1>9. CASE Finish
  <2>1. pc = "draw" /\ pc' = "idle" /\ it >= 2 * bounds /\ UNCHANGED <<bounds, it>>
    BY <1>9 DEF Finish, Dispatch, Handler, sampleVars
  <2>2. mats[cur] = Last
    BY <2>1, <1>0 DEF MarksInv
  <2> QED
    BY <1>9, <2>1, <2>2, MarksOthers, PictureDispatch DEF Finish, Last
<1> QED
  BY <1>1, <1>2, <1>3, <1>4, <1>5, <1>6, <1>7, <1>8, <1>9 DEF Next, Sample

LEMMA TypesImplied == SetUpInOrder /\ ArraysInv /\ PictureInv /\ MarksInv => TypeOK
<1> SUFFICES ASSUME SetUpInOrder, ArraysInv, PictureInv, MarksInv PROVE TypeOK
  OBVIOUS
<1>1. refs \in [Arrays -> 0..3]
  <2> SUFFICES ASSUME NEW a \in Arrays PROVE refs[a] \in 0..3
    BY DEF ArraysInv, ArrayTypes
  <2>1. /\ refs[a] = Owners(a) /\ current \in Nat /\ old \in Nat
        /\ (wpc = "release" => old < current)
    BY MetadataAssumption DEF Arrays, ArraysInv, ArrayTypes
  <2> QED
    BY <2>1 DEF Owners, One
<1> QED
  BY <1>1, SessionTypes DEF TypeOK, ArraysInv, ArrayTypes, MarksInv

\* All variables stay in their types; no array is released more often than
\* it is retained.
THEOREM DlibTypeOK == Spec => []TypeOK
<1>1. Init => SetUpInOrder /\ PictureInv /\ MarksInv
  BY SetUpInit, PictureInit, MarksInit DEF Init
<1>2. ArraysInv /\ PictureInv /\ MarksInv /\ [Next]_vars => PictureInv' /\ MarksInv'
  BY PipelineStep
<1> QED
  BY <1>1, <1>2, ArraysInit, ArraysStep, SetUpStep, TypesImplied, PTL DEF Spec

\* Frames are shown once each, in order, with two marks for each face copied
\* for them: every step is a step of FramePipeline.
THEOREM DlibImplementsPipeline == Spec => Pipeline!Init /\ [][Pipeline!Next]_(Pipeline!vars)
<1>1. Init => PictureInv /\ MarksInv /\ Pipeline!Init
  BY PictureInit, MarksInit DEF Init
<1>2. ArraysInv /\ PictureInv /\ MarksInv /\ [Next]_vars
        => PictureInv' /\ MarksInv' /\ [Pipeline!Next]_(Pipeline!vars)
  BY PipelineStep
<1> QED
  BY <1>1, <1>2, ArraysInit, ArraysStep, PTL DEF Spec

\* What the dlib controller shows is what it took, in order: no frame twice, none
\* late, none with the marks of another.
COROLLARY DlibShowsInOrder == Spec => []ShownInOrder
BY DlibImplementsPipeline, PipelineShowsInOrder, PTL
=============================================================================
