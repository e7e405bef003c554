------------------------ MODULE CameraSessionProofs ------------------------
(***************************************************************************)
(* What the steps the two controllers share preserve.                      *)
(***************************************************************************)
EXTENDS CameraSession, TLAPS

\* viewDidLoad sets things up in this order, and the session runs only after
\* all of it: the handler runs only on a running session.
SetUpInOrder ==
  /\ loading \in {"start", "session", "format", "go", "return", "running"}
  /\ ready \subseteq {"view", "wrapper", "delegate", "BGRA", "running"} \cup Outputs
  /\ loading # "start" => {"view", "wrapper"} \subseteq ready
  /\ loading \notin {"start", "session", "format"} => "BGRA" \in ready
  /\ "running" \in ready => loading \in {"return", "running"}
  /\ pc # "idle" => "running" \in ready

LEMMA SetUpInit == SessionInit => SetUpInOrder
BY DEF SessionInit, SetUpInOrder

LEMMA SetUpImplies == SetUpInOrder => ReadyBeforeFrames
BY DEF SetUpInOrder, ReadyBeforeFrames

LEMMA SetUpMain ==
  ASSUME SetUpInOrder, Main
  PROVE  SetUpInOrder'
<1>1. CASE LoadView
  BY <1>1 DEF SetUpInOrder, LoadView, SetUp, handlerVars
<1>2. CASE ConfigureSession
  <2>1. PICK added \in SUBSET Outputs : SetUp("session", "format", {"delegate"} \cup added)
    BY <1>2 DEF ConfigureSession
  <2>2. "running" \notin added
    BY SessionAssumption
  <2> QED
    BY <2>1, <2>2 DEF SetUpInOrder, SetUp, handlerVars
<1>3. CASE SetFormat
  BY <1>3 DEF SetUpInOrder, SetFormat, SetUp, handlerVars
<1>4. CASE StartRunning
  BY <1>4 DEF SetUpInOrder, StartRunning, SetUp, handlerVars
<1>5. CASE ReturnToRunLoop
  BY <1>5 DEF SetUpInOrder, ReturnToRunLoop, SetUp, handlerVars
<1>6. CASE ShowFrame
  BY <1>6 DEF SetUpInOrder, ShowFrame, mainVars, handlerVars
<1> QED
  BY <1>1, <1>2, <1>3, <1>4, <1>5, <1>6 DEF Main

LEMMA SetUpProduce ==
  ASSUME SetUpInOrder, Produce
  PROVE  SetUpInOrder'
BY DEF SetUpInOrder, Produce, Delivering, mainVars

\* A step of the handler under way, or of anybody who leaves it alone.
LEMMA SetUpOthers ==
  ASSUME SetUpInOrder, UNCHANGED mainVars, pc # "idle" \/ pc' = pc
  PROVE  SetUpInOrder'
BY DEF SetUpInOrder, mainVars
-----------------------------------------------------------------------------
Picture == [frame : 1..MaxFrames, marks : 0..MaxMarks]

\* The handler is before its detection, or between it and the dispatch.
Early == {"begin", "retain", "bounds", "copy", "detect"}
Late  == {"convert", "draw"}

\* 1 while the handler holds a picture that has not been queued.
Holding == IF pc # "idle" /\ taken # <<>> /\ taken[Len(taken)].frame = cur THEN 1 ELSE 0

PictureTypes == /\ taken \in Seq(Picture) /\ shown \in Seq(Picture)
                /\ mainQueue \in Seq(1..MaxFrames) /\ mats \in [1..MaxFrames -> 0..MaxMarks]
                /\ clock \in 0..MaxFrames /\ cur \in 0..clock /\ (pc # "idle" => cur # 0)

\* Pictures are taken in the order of their frames; the handler's is the last.
TakenInOrder ==
  /\ \A i, j \in DOMAIN taken : i < j => taken[i].frame < taken[j].frame
  /\ \A i \in DOMAIN taken : taken[i].frame <= cur
  /\ pc \in Early => \A i \in DOMAIN taken : taken[i].frame < cur
  /\ pc \in Late => taken # <<>> /\ taken[Len(taken)].frame = cur

\* The queue holds the pictures not yet shown, completely drawn.
QueueHoldsRest ==
  /\ Len(taken) = Len(shown) + Len(mainQueue) + Holding
  /\ \A k \in DOMAIN mainQueue : /\ mainQueue[k] = taken[Len(shown) + k].frame
                                 /\ mats[mainQueue[k]] = taken[Len(shown) + k].marks

PictureInv == PictureTypes /\ TakenInOrder /\ QueueHoldsRest

LEMMA SessionTypes == SetUpInOrder /\ PictureInv => SessionTypeOK
BY DEF SetUpInOrder, PictureInv, PictureTypes, SessionTypeOK, Picture

LEMMA PictureInit == SessionInit => PictureInv /\ Pipeline!Init
BY SessionAssumption DEF SessionInit, PictureInv, PictureTypes, TakenInOrder, QueueHoldsRest, Holding,
   Pipeline!Init, Early, Late

\* Steps that only move the handler on, or leave it alone.
LEMMA PictureOthers ==
  ASSUME PictureInv, UNCHANGED <<clock, cur, mats, taken, mainQueue, shown>>,
         (pc = "idle") <=> (pc' = "idle"),
         pc' \in Early => pc \in Early, pc' \in Late => pc \in Late
  PROVE  PictureInv' /\ UNCHANGED Pipeline!vars
<1>1. Holding' = Holding
  BY DEF Holding
<1> QED
  BY <1>1 DEF PictureInv, PictureTypes, TakenInOrder, QueueHoldsRest, Pipeline!vars

LEMMA PictureSetUp ==
  ASSUME PictureInv, NEW step, NEW next, NEW parts, SetUp(step, next, parts)
  PROVE  PictureInv' /\ UNCHANGED Pipeline!vars
BY PictureOthers DEF SetUp, handlerVars

\* The frame of a new handler is later than all taken.
LEMMA PictureProduce ==
  ASSUME PictureInv, Produce
  PROVE  PictureInv' /\ UNCHANGED Pipeline!vars
<1>1. /\ clock \in 0..MaxFrames /\ cur \in 0..clock /\ clock < MaxFrames /\ clock' = clock + 1
      /\ UNCHANGED <<mats, mainQueue, taken, shown>> /\ MaxFrames \in Nat
      /\ taken \in Seq(Picture)
  BY SessionAssumption DEF Produce, PictureInv, PictureTypes
<1>2. CASE pc = "idle"
  <2>1. pc' = "begin" /\ cur' = clock + 1
    BY <1>1, <1>2 DEF Produce
  <2>2. \A i \in DOMAIN taken : taken[i].frame < cur'
    <3> SUFFICES ASSUME NEW i \in DOMAIN taken PROVE taken[i].frame < cur'
      OBVIOUS
    <3>1. taken[i] \in Picture /\ taken[i].frame <= cur
      BY <1>1 DEF PictureInv, TakenInOrder
    <3> QED
      BY <3>1, <1>1, <2>1 DEF Picture
  <2>3. Holding = 0 /\ Holding' = 0
    <3>1. taken # <<>> => Len(taken) \in DOMAIN taken
      BY <1>1
    <3>2. taken # <<>> => taken[Len(taken)].frame # cur'
      <4> SUFFICES ASSUME taken # <<>> PROVE taken[Len(taken)].frame # cur'
        OBVIOUS
      <4>1. taken[Len(taken)].frame < cur' /\ taken[Len(taken)] \in Picture
        BY <3>1, <2>2, <1>1
      <4> QED
        BY <4>1, <2>1, <1>1 DEF Picture
    <3> QED
      BY <3>2, <1>1, <1>2 DEF Holding
  <2>4. PictureTypes'
    BY <1>1, <2>1 DEF PictureInv, PictureTypes
  <2>5. TakenInOrder'
    <3>1. \A i \in DOMAIN taken : taken[i].frame <= cur'
      <4> SUFFICES ASSUME NEW i \in DOMAIN taken PROVE taken[i].frame <= cur'
        OBVIOUS
      <4>1. taken[i] \in Picture /\ taken[i].frame < cur'
        BY <1>1, <2>2
      <4> QED
        BY <4>1, <2>1, <1>1 DEF Picture
    <3> QED
      BY <1>1, <2>1, <2>2, <3>1 DEF PictureInv, TakenInOrder, Late
  <2> QED
    BY <1>1, <2>3, <2>4, <2>5 DEF PictureInv, QueueHoldsRest, Pipeline!vars
<1>3. CASE pc # "idle"
  <2>1. UNCHANGED <<pc, cur>>
    BY <1>3 DEF Produce
  <2>2. Holding' = Holding
    BY <1>1, <2>1 DEF Holding
  <2>3. PictureTypes'
    BY <1>1, <2>1 DEF PictureInv, PictureTypes
  <2> QED
    BY <1>1, <2>1, <2>2, <2>3 DEF PictureInv, TakenInOrder, QueueHoldsRest, Pipeline!vars
<1> QED
  BY <1>2, <1>3

\* A display block shows the next picture taken.
LEMMA PictureShow ==
  ASSUME PictureInv, ShowFrame
  PROVE  PictureInv' /\ Pipeline!Show
<1> DEFINE s == Len(shown)
           q == Len(mainQueue)
<1>1. /\ taken \in Seq(Picture) /\ shown \in Seq(Picture) /\ mainQueue \in Seq(1..MaxFrames)
      /\ mainQueue # <<>> /\ s \in Nat /\ q \in Nat /\ q >= 1
      /\ UNCHANGED <<loading, ready, clock, pc, cur, mats, taken>>
      /\ shown' = Append(shown, [frame |-> Head(mainQueue), marks |-> mats[Head(mainQueue)]])
      /\ mainQueue' = Tail(mainQueue)
  BY DEF PictureInv, PictureTypes, ShowFrame, mainVars, handlerVars
<1>2. Holding' = Holding /\ Holding \in {0, 1}
  BY <1>1 DEF Holding
<1>3. Len(taken) = s + q + Holding
  BY DEF PictureInv, QueueHoldsRest
<1>4. s + 1 \in DOMAIN taken /\ s < Len(taken)
  BY <1>1, <1>2, <1>3
<1>5. /\ taken[s + 1] \in Picture
      /\ Head(mainQueue) = taken[s + 1].frame /\ mats[Head(mainQueue)] = taken[s + 1].marks
  BY <1>1, <1>4 DEF PictureInv, QueueHoldsRest
<1>6. shown' = Append(shown, taken[s + 1])
  BY <1>1, <1>5 DEF Picture
<1>7. Pipeline!Show
  BY <1>1, <1>4, <1>6 DEF Pipeline!Show
<1>8. /\ shown' \in Seq(Picture) /\ Len(shown') = s + 1
      /\ mainQueue' \in Seq(1..MaxFrames) /\ Len(mainQueue') = q - 1
      /\ \A k \in 1..(q - 1) : mainQueue'[k] = mainQueue[k + 1]
  BY <1>1, <1>5, <1>6
<1>9. QueueHoldsRest'
  <2>1. Len(taken') = Len(shown') + Len(mainQueue') + Holding'
    BY <1>1, <1>2, <1>3, <1>8
  <2>2. ASSUME NEW k \in 1..(q - 1)
        PROVE  /\ mainQueue'[k] = taken[Len(shown') + k].frame
               /\ mats[mainQueue'[k]] = taken[Len(shown') + k].marks
    <3>1. k + 1 \in DOMAIN mainQueue /\ s + (k + 1) = Len(shown') + k
      BY <1>1, <1>8
    <3>2. /\ mainQueue[k + 1] = taken[s + (k + 1)].frame
          /\ mats[mainQueue[k + 1]] = taken[s + (k + 1)].marks
      BY <3>1 DEF PictureInv, QueueHoldsRest
    <3> QED
      BY <3>1, <3>2, <1>8
  <2>3. DOMAIN mainQueue' = 1..(q - 1)
    BY <1>1, <1>8
  <2> QED
    BY <2>1, <2>2, <2>3, <1>1 DEF QueueHoldsRest
<1> QED
  BY <1>1, <1>7, <1>8, <1>9 DEF PictureInv, PictureTypes, TakenInOrder

\* No queued block shows the frame the handler works on.
LEMMA QueueIsEarlier ==
  ASSUME PictureInv, pc \in Early \cup Late
  PROVE  \A k \in DOMAIN mainQueue : mainQueue[k] # cur
<1> SUFFICES ASSUME NEW k \in DOMAIN mainQueue PROVE mainQueue[k] # cur
  OBVIOUS
<1> DEFINE i == Len(shown) + k
<1>1. /\ taken \in Seq(Picture) /\ shown \in Seq(Picture) /\ mainQueue \in Seq(1..MaxFrames)
      /\ k \in 1..Len(mainQueue) /\ pc # "idle" /\ cur \in Nat
  BY SessionAssumption DEF PictureInv, PictureTypes, Early, Late
<1>2. mainQueue[k] = taken[i].frame /\ Len(taken) = Len(shown) + Len(mainQueue) + Holding
  BY DEF PictureInv, QueueHoldsRest
<1>3. i \in DOMAIN taken /\ taken[i] \in Picture
  BY <1>1, <1>2 DEF Holding
<1>4. CASE pc \in Early
  <2>1. taken[i].frame < cur
    BY <1>3, <1>4 DEF PictureInv, TakenInOrder
  <2> QED
    BY <2>1, <1>1, <1>2, <1>3 DEF Picture
<1>5. CASE pc \in Late
  <2>1. taken # <<>> /\ taken[Len(taken)].frame = cur
    BY <1>5 DEF PictureInv, TakenInOrder
  <2>2. Holding = 1
    BY <2>1, <1>1 DEF Holding
  <2>3. i < Len(taken) /\ Len(taken) \in DOMAIN taken
    BY <2>1, <2>2, <1>1, <1>2
  <2>4. taken[i].frame < taken[Len(taken)].frame
    BY <2>3, <1>3 DEF PictureInv, TakenInOrder
  <2> QED
    BY <2>1, <2>4, <1>1, <1>2, <1>3 DEF Picture
<1> QED
  BY <1>4, <1>5

LEMMA ElementOf == ASSUME NEW S, NEW s \in Seq(S), NEW k \in 1..Len(s) PROVE s[k] \in S
OBVIOUS

\* Writing into the Mat of the handler's frame.
LEMMA PictureWrite ==
  ASSUME PictureInv, pc \in Early \cup Late, NEW n \in 0..MaxMarks,
         mats' = [mats EXCEPT ![cur] = n],
         UNCHANGED <<clock, cur, taken, mainQueue, shown>>,
         pc' # "idle", pc' \in Early => pc \in Early, pc' \in Late => pc \in Late
  PROVE  PictureInv' /\ UNCHANGED Pipeline!vars
<1>1. pc # "idle" /\ Holding' = Holding
  BY DEF Holding, Early, Late
<1>2. \A k \in DOMAIN mainQueue : mats'[mainQueue[k]] = mats[mainQueue[k]]
  <2> SUFFICES ASSUME NEW k \in DOMAIN mainQueue
               PROVE  mats'[mainQueue[k]] = mats[mainQueue[k]]
    OBVIOUS
  <2>1. mainQueue[k] # cur
    BY QueueIsEarlier
  <2>2. mainQueue \in Seq(1..MaxFrames) /\ mats \in [1..MaxFrames -> 0..MaxMarks]
    BY DEF PictureInv, PictureTypes
  <2>3. k \in 1..Len(mainQueue)
    BY <2>2
  <2>4. mainQueue[k] \in 1..MaxFrames
    BY <2>2, <2>3, ElementOf
  <2> QED
    BY <2>1, <2>2, <2>4
<1> QED
  BY <1>1, <1>2 DEF PictureInv, PictureTypes, TakenInOrder, QueueHoldsRest, Pipeline!vars

LEMMA PictureCopy ==
  ASSUME PictureInv, NEW step \in Early, CopyFrame(step)
  PROVE  PictureInv' /\ UNCHANGED Pipeline!vars
<1>1. 0 \in 0..MaxMarks
  BY SessionAssumption
<1> QED
  BY <1>1, PictureWrite DEF CopyFrame, Handler, Early, Late

LEMMA PictureDraw ==
  ASSUME PictureInv, DrawMark, mats[cur] < MaxMarks
  PROVE  PictureInv' /\ UNCHANGED Pipeline!vars
<1> HIDE DEF DrawMark
<1>1. cur \in 1..MaxFrames /\ mats[cur] \in 0..MaxMarks /\ MaxMarks \in Nat
  <2>1. pc # "idle"
    BY DEF DrawMark, Handler
  <2>2. /\ {MaxFrames, MaxMarks} \subseteq Nat
        /\ clock \in 0..MaxFrames /\ cur \in 0..clock /\ cur # 0
        /\ mats \in [1..MaxFrames -> 0..MaxMarks]
    BY <2>1, SessionAssumption DEF PictureInv, PictureTypes
  <2> QED
    BY <2>2
<1>2. mats[cur] + 1 \in 0..MaxMarks /\ mats' = [mats EXCEPT ![cur] = mats[cur] + 1]
  BY <1>1 DEF DrawMark
<1> QED
  BY <1>2, PictureWrite DEF DrawMark, Handler, Early, Late

\* The picture detected in is later than all before it: one Take.
LEMMA PictureDetected ==
  ASSUME PictureInv, NEW n \in 0..MaxMarks, NEW next \in Late, Detected(n, next)
  PROVE  PictureInv' /\ Pipeline!Take
<1> DEFINE p == [frame |-> cur, marks |-> n]
           t == Len(taken)
<1>1. /\ pc = "detect" /\ pc' = next /\ taken' = Append(taken, p) /\ taken \in Seq(Picture)
      /\ UNCHANGED <<clock, cur, mats, mainQueue, shown>> /\ t \in Nat
      /\ cur \in 1..MaxFrames /\ p \in Picture /\ MaxFrames \in Nat
      /\ shown \in Seq(Picture) /\ mainQueue \in Seq(1..MaxFrames)
  BY SessionAssumption DEF PictureInv, PictureTypes, Detected, Handler, Picture
<1>2. /\ taken' \in Seq(Picture) /\ Len(taken') = t + 1 /\ taken'[t + 1] = p
      /\ DOMAIN taken' = 1..(t + 1) /\ \A i \in 1..t : taken'[i] = taken[i]
  <2> HIDE DEF p
  <2> QED
    BY <1>1
<1>3. \A i \in 1..t : taken[i].frame < cur
  BY <1>1 DEF PictureInv, TakenInOrder, Early
<1>4. Pipeline!Take
  <2>1. p \in Pipeline!Picture
    BY <1>1 DEF Pipeline!Picture, Picture
  <2>2. \A i \in DOMAIN taken : taken[i].frame < p.frame
    BY <1>1, <1>3
  <2> HIDE DEF p
  <2> QED
    BY <1>1, <2>1, <2>2 DEF Pipeline!Take
<1>5. Holding = 0 /\ Holding' = 1
  <2>1. taken # <<>> => taken[t].frame # cur
    <3> SUFFICES ASSUME taken # <<>> PROVE taken[t].frame # cur
      OBVIOUS
    <3>1. t \in 1..t /\ taken[t] \in Picture
      BY <1>1
    <3>2. taken[t].frame < cur /\ taken[t].frame \in Nat /\ cur \in Nat
      BY <3>1, <1>1, <1>3 DEF Picture
    <3> QED
      BY <3>2
  <2> QED
    BY <2>1, <1>1, <1>2 DEF Holding, Late
<1>6. TakenInOrder'
  <2>1. ASSUME NEW i \in 1..(t + 1) PROVE taken'[i].frame <= cur /\ (i < t + 1 => taken'[i].frame < cur)
    <3>1. taken'[i] \in Picture
      BY <1>2
    <3>2. CASE i = t + 1
      BY <3>2, <1>1, <1>2
    <3>3. CASE i # t + 1
      <4>1. i \in 1..t /\ taken'[i] = taken[i] /\ taken[i].frame < cur
        BY <3>3, <1>1, <1>2, <1>3
      <4> QED
        BY <4>1, <3>1, <1>1 DEF Picture
    <3> QED
      BY <3>2, <3>3
  <2>2. ASSUME NEW i \in 1..(t + 1), NEW j \in 1..(t + 1), i < j
        PROVE  taken'[i].frame < taken'[j].frame
    <3>1. i \in 1..t /\ taken'[i] = taken[i] /\ taken[i].frame < cur
      BY <2>2, <1>1, <1>2, <1>3
    <3>2. CASE j = t + 1
      BY <3>1, <3>2, <1>2
    <3>3. CASE j # t + 1
      <4>1. j \in 1..t /\ taken'[j] = taken[j]
        BY <3>3, <1>1, <1>2
      <4>2. i \in DOMAIN taken /\ j \in DOMAIN taken
        BY <3>1, <4>1, <1>1
      <4>3. taken[i].frame < taken[j].frame
        BY <2>2, <4>2 DEF PictureInv, TakenInOrder
      <4> QED
        BY <3>1, <4>1, <4>3
    <3> QED
      BY <3>2, <3>3
  <2>3. taken' # <<>> /\ taken'[Len(taken')].frame = cur
    BY <1>1, <1>2
  <2> QED
    BY <2>1, <2>2, <2>3, <1>1, <1>2 DEF TakenInOrder, Early, Late
<1>7. QueueHoldsRest'
  <2>1. t = Len(shown) + Len(mainQueue)
    BY <1>1, <1>5 DEF PictureInv, QueueHoldsRest
  <2>2. \A k \in DOMAIN mainQueue : Len(shown) + k \in 1..t
    BY <2>1, <1>1
  <2> QED
    BY <2>1, <2>2, <1>1, <1>2, <1>5 DEF PictureInv, QueueHoldsRest
<1>8. PictureTypes'
  BY <1>1, <1>2 DEF PictureInv, PictureTypes
<1> QED
  BY <1>4, <1>6, <1>7, <1>8 DEF PictureInv

\* What is queued is the last picture taken, if its marks have been drawn.
LEMMA PictureDispatch ==
  ASSUME PictureInv, Dispatch, mats[cur] = taken[Len(taken)].marks
  PROVE  PictureInv' /\ UNCHANGED Pipeline!vars
<1> DEFINE q == Len(mainQueue)
           t == Len(taken)
<1>1. /\ pc = "draw" /\ pc' = "idle" /\ mainQueue' = Append(mainQueue, cur)
      /\ UNCHANGED <<clock, cur, mats, taken, shown>> /\ q \in Nat /\ t \in Nat
      /\ taken \in Seq(Picture) /\ shown \in Seq(Picture)
      /\ mainQueue \in Seq(1..MaxFrames) /\ cur \in 1..MaxFrames
  BY SessionAssumption DEF PictureInv, PictureTypes, Dispatch, Handler
<1>2. taken # <<>> /\ taken[t].frame = cur /\ Holding = 1 /\ Holding' = 0
  BY <1>1 DEF PictureInv, TakenInOrder, Holding, Late
<1>3. t = Len(shown) + q + 1
  BY <1>1, <1>2 DEF PictureInv, QueueHoldsRest
<1>4. /\ mainQueue' \in Seq(1..MaxFrames) /\ Len(mainQueue') = q + 1 /\ mainQueue'[q + 1] = cur
      /\ DOMAIN mainQueue' = 1..(q + 1) /\ \A k \in 1..q : mainQueue'[k] = mainQueue[k]
  BY <1>1
<1>5. QueueHoldsRest'
  <2>1. ASSUME NEW k \in 1..(q + 1)
        PROVE  /\ mainQueue'[k] = taken[Len(shown) + k].frame
               /\ mats[mainQueue'[k]] = taken[Len(shown) + k].marks
    <3>1. CASE k = q + 1
      <4>1. Len(shown) + k = t
        BY <3>1, <1>1, <1>3
      <4> QED
        BY <4>1, <3>1, <1>2, <1>4
    <3>2. CASE k # q + 1
      <4>1. k \in DOMAIN mainQueue /\ mainQueue'[k] = mainQueue[k]
        BY <3>2, <1>1, <1>4
      <4> QED
        BY <4>1 DEF PictureInv, QueueHoldsRest
    <3> QED
      BY <3>1, <3>2
  <2>2. Len(taken') = Len(shown') + Len(mainQueue') + Holding'
    BY <1>1, <1>2, <1>3, <1>4
  <2> QED
    BY <2>1, <2>2, <1>1, <1>4 DEF QueueHoldsRest
<1> QED
  BY <1>1, <1>4, <1>5 DEF PictureInv, PictureTypes, TakenInOrder, Early, Late, Pipeline!vars

Last == taken[Len(taken)].marks

\* The frame under way and the picture taken of it.
LEMMA LastTaken ==
  ASSUME PictureInv
  PROVE  /\ pc # "idle" => cur \in 1..MaxFrames /\ mats \in [1..MaxFrames -> 0..MaxMarks]
         /\ pc \in Late => Last \in 0..MaxMarks
<1>1. ASSUME pc # "idle" PROVE cur \in 1..MaxFrames /\ mats \in [1..MaxFrames -> 0..MaxMarks]
  <2>1. /\ MaxFrames \in Nat /\ clock \in 0..MaxFrames /\ cur \in 0..clock /\ cur # 0
        /\ mats \in [1..MaxFrames -> 0..MaxMarks]
    BY <1>1, SessionAssumption DEF PictureInv, PictureTypes
  <2> QED
    BY <2>1
<1>2. ASSUME pc \in Late PROVE Last \in 0..MaxMarks
  <2>1. taken \in Seq(Picture) /\ taken # <<>>
    BY <1>2 DEF PictureInv, PictureTypes, TakenInOrder
  <2>2. Len(taken) \in 1..Len(taken)
    BY <2>1
  <2>3. taken[Len(taken)] \in Picture
    BY <2>1, <2>2, ElementOf
  <2> QED
    BY <2>3 DEF Picture, Last
<1> QED
  BY <1>1, <1>2
-----------------------------------------------------------------------------
\* What a viewer sees: the pictures shown are the first of those taken, marks
\* included, and their frames ascend, so that none comes twice or late.
ShownInOrder ==
  /\ Len(shown) <= Len(taken) /\ \A i \in DOMAIN shown : shown[i] = taken[i]
  /\ \A i, j \in DOMAIN shown : i < j => shown[i].frame < shown[j].frame

PipelineInv ==
  /\ taken \in Seq(Picture) /\ shown \in Seq(Picture)
  /\ \A i, j \in DOMAIN taken : i < j => taken[i].frame < taken[j].frame
  /\ Len(shown) <= Len(taken) /\ \A i \in DOMAIN shown : shown[i] = taken[i]

LEMMA PipelineTake ==
  ASSUME PipelineInv, Pipeline!Take
  PROVE  PipelineInv'
<1> DEFINE n == Len(taken)
<1>1. PICK p \in Picture : /\ \A i \in DOMAIN taken : taken[i].frame < p.frame
                           /\ taken' = Append(taken, p)
  BY DEF Pipeline!Take, Pipeline!Picture, Picture
<1>2. /\ taken \in Seq(Picture) /\ n \in Nat /\ DOMAIN taken = 1..n /\ shown' = shown
      /\ shown \in Seq(Picture) /\ Len(shown) \in Nat /\ Len(shown) <= n
  BY DEF PipelineInv, Pipeline!Take
<1>3. /\ taken' \in Seq(Picture) /\ Len(taken') = n + 1 /\ DOMAIN taken' = 1..(n + 1)
      /\ taken'[n + 1] = p /\ \A i \in 1..n : taken'[i] = taken[i]
  BY <1>1, <1>2
<1>4. ASSUME NEW i \in 1..(n + 1), NEW j \in 1..(n + 1), i < j
      PROVE  taken'[i].frame < taken'[j].frame
  <2>1. i \in 1..n
    BY <1>2, <1>4
  <2>2. CASE j = n + 1
    BY <1>1, <1>2, <1>3, <2>1, <2>2
  <2>3. CASE j # n + 1
    <3>1. j \in 1..n
      BY <1>2, <2>3
    <3> QED
      BY <1>2, <1>3, <1>4, <2>1, <3>1 DEF PipelineInv
  <2> QED
    BY <2>2, <2>3
<1>5. Len(shown') <= Len(taken') /\ \A i \in DOMAIN shown' : shown'[i] = taken'[i]
  <2>1. ASSUME NEW i \in DOMAIN shown PROVE shown[i] = taken'[i]
    <3>1. i \in 1..n
      BY <1>2, <2>1
    <3> QED
      BY <1>3, <2>1, <3>1 DEF PipelineInv
  <2> QED
    BY <1>2, <1>3, <2>1
<1> QED
  BY <1>2, <1>3, <1>4, <1>5 DEF PipelineInv

LEMMA PipelineShow ==
  ASSUME PipelineInv, Pipeline!Show
  PROVE  PipelineInv'
<1> DEFINE k == Len(shown)
<1>1. /\ shown \in Seq(Picture) /\ taken \in Seq(Picture) /\ taken' = taken
      /\ k \in Nat /\ Len(taken) \in Nat /\ k < Len(taken) /\ shown' = Append(shown, taken[k + 1])
  BY DEF PipelineInv, Pipeline!Show
<1>2. k + 1 \in 1..Len(taken) /\ taken[k + 1] \in Picture
  BY <1>1
<1>3. /\ shown' \in Seq(Picture) /\ Len(shown') = k + 1 /\ DOMAIN shown' = 1..(k + 1)
      /\ shown'[k + 1] = taken[k + 1] /\ \A i \in 1..k : shown'[i] = shown[i]
  BY <1>1, <1>2
<1>4. ASSUME NEW i \in 1..(k + 1) PROVE shown'[i] = taken[i]
  <2>1. i = k + 1 \/ i \in DOMAIN shown
    BY <1>1
  <2> QED
    BY <1>1, <1>3, <2>1 DEF PipelineInv
<1> QED
  BY <1>1, <1>2, <1>3, <1>4 DEF PipelineInv

\* An implementation of FramePipeline shows the pictures it took, in order.
THEOREM PipelineShowsInOrder ==
  Pipeline!Init /\ [][Pipeline!Next]_(Pipeline!vars) => []ShownInOrder
<1>1. Pipeline!Init => PipelineInv
  BY DEF Pipeline!Init, PipelineInv
<1>2. PipelineInv /\ [Pipeline!Next]_(Pipeline!vars) => PipelineInv'
  <2>1. PipelineInv /\ UNCHANGED Pipeline!vars => PipelineInv'
    BY DEF PipelineInv, Pipeline!vars
  <2> QED
    BY <2>1, PipelineTake, PipelineShow DEF Pipeline!Next
<1>3. PipelineInv => ShownInOrder
  <2> SUFFICES ASSUME PipelineInv, NEW i \in DOMAIN shown, NEW j \in DOMAIN shown, i < j
               PROVE  shown[i].frame < shown[j].frame
    BY DEF PipelineInv, ShownInOrder
  <2>1. i \in DOMAIN taken /\ j \in DOMAIN taken
    BY DEF PipelineInv
  <2> QED
    BY <2>1 DEF PipelineInv
<1> QED
  BY <1>1, <1>2, <1>3, PTL
=============================================================================
