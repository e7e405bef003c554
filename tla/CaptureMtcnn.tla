---------------------------- MODULE CaptureMtcnn ----------------------------
(***************************************************************************)
(* The frame handler of MtcnnDetectionViewController with FaceMtcnnWrapper *)
(* and the landmarks arrays, which no Face owns.                           *)
(***************************************************************************)
EXTENDS CameraSession

CONSTANT Ownership  \* where arrayWithCapacity: may leave the array's only other
                    \* reference: "pooled" (autorelease pool), "stolen" (none)

ASSUME OwnershipAssumption == Ownership \subseteq {"pooled", "stolen"}

VARIABLES landmarks,  \* of the Faces in info: how each array was left
          it,         \* the Face being drawn
          pool        \* arrays the sample thread's autorelease pool keeps alive

own  == <<landmarks, it, pool>>
vars == <<sessionVars, own>>

Init == SessionInit /\ landmarks = <<>> /\ it = 1 /\ pool = {}

Copy == CopyFrame("begin") /\ UNCHANGED own

\* detectMaxFace: up to its loop; mtcnn->detect finds any number of faces.
Detect == /\ \E n \in 0..MaxMarks : Detected(n, "convert")
          /\ landmarks' = <<>> /\ UNCHANGED <<it, pool>>

Made    == taken[Len(taken)].marks < Len(landmarks)  \* mutant of AllMade
AllMade == taken[Len(taken)].marks <= Len(landmarks)

\* One turn of the loop of detectMaxFace:.  At its end the array's strong
\* local reference is gone.
MakeFace == /\ pc = "convert" /\ ~AllMade
            /\ \E o \in Ownership :
                 /\ landmarks' = Append(landmarks, o)
                 /\ pool' = IF o = "pooled" THEN pool \cup {<<cur, Len(landmarks')>>} ELSE pool
            /\ UNCHANGED <<sessionVars, it>>

PoolOf(call) == {}                                   \* mutant of PoolAfter

\* The wrapper has no autorelease pool of its own.
PoolAfter(call) == call

ReturnFaces == /\ Handler("convert", "draw") /\ AllMade /\ UNCHANGED <<mats, taken, mainQueue>>
               /\ it' = 1 /\ pool' = PoolAfter(pool) /\ UNCHANGED landmarks

DrawnEarly == it >= Len(landmarks)                   \* mutant of Drawn
Drawn      == it > Len(landmarks)

DrawFace == /\ ~Drawn /\ <<cur, it>> \in pool /\ DrawMark
            /\ it' = it + 1 /\ UNCHANGED <<landmarks, pool>>

\* Reading a landmarks array that is no longer alive is undefined.
DrawFreed == /\ ~Drawn /\ <<cur, it>> \notin pool /\ Handler("draw", "undefined")
             /\ UNCHANGED <<own, mats, taken, mainQueue>>

Finish == Drawn /\ Dispatch /\ UNCHANGED own

\* The queue's autorelease pool is drained between handlers, at any time.
DrainPool == /\ pc = "idle" /\ pool # {} /\ pool' = {}
             /\ UNCHANGED <<sessionVars, landmarks, it>>

Sample  == Copy \/ Detect \/ MakeFace \/ ReturnFaces \/ DrawFace \/ DrawFreed \/ Finish
Session == (Main \/ Produce) /\ UNCHANGED own

Next == Session \/ Sample \/ DrainPool

\* Both threads are scheduled and no step of theirs waits; the camera owes
\* nothing.
Spec == Init /\ [][Next]_vars /\ WF_vars(Main /\ UNCHANGED own) /\ WF_vars(Sample)
-----------------------------------------------------------------------------
\* Types; in particular no Face is made beyond the boxes found.
TypeOK ==
  /\ SessionTypeOK
  /\ pc \in {"idle", "begin", "detect", "convert", "draw", "undefined"}
  /\ landmarks \in Seq(Ownership) /\ Len(landmarks) <= MaxMarks /\ it \in 1..(MaxMarks + 1)
  /\ pool \subseteq (1..MaxFrames) \X (1..MaxMarks)

\* A landmarks array is read after it has been freed only if the compiler
\* left it no reference beside the loop's local: one that reached the
\* autorelease pool outlives the drawing of its frame.
DrawsFreedOnlyIfStolen == pc = "undefined" => landmarks[it] = "stolen"
=============================================================================
