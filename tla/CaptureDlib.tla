---------------------------- MODULE CaptureDlib ----------------------------
(***************************************************************************)
(* ViewController: the frame handler reads through a nonatomic getter the  *)
(* metadata array that the callback on the queue "face" replaces.  Arrays  *)
(* are numbered in the order of the callbacks (0 is viewDidLoad's) and     *)
(* live as long as somebody holds a reference: the ivar, AVFoundation      *)
(* during the callback, the handler while it loops over one.               *)
(***************************************************************************)
EXTENDS CameraSession

CONSTANTS MaxArrays,  \* bound: callbacks on the queue "face"
          MaxFaces    \* bound: faces in an array

ASSUME MetadataAssumption == {MaxArrays, MaxFaces} \subseteq Nat /\ MaxMarks = 2 * MaxFaces

VARIABLES made,     \* arrays made so far
          refs,     \* references to each array; 0 once made: freed
          faces,    \* faces in each array
          current,  \* _currentMetadata
          wpc, old, \* the callback, and the array it replaced
          held,     \* the array the handler loaded
          since,    \* the array current when the frame arrived (history)
          bounds,   \* faces the handler copied from it
          it        \* marks drawn of them

faceVars   == <<made, faces, current, wpc, old>>
sampleVars == <<held, since, bounds, it>>
vars       == <<sessionVars, faceVars, refs, sampleVars>>

Arrays == 0..MaxArrays

Init == /\ SessionInit /\ made = 0 /\ current = 0 /\ wpc = "idle" /\ old = 0
        /\ refs = [a \in Arrays |-> IF a = 0 THEN 1 ELSE 0]
        /\ faces = [a \in Arrays |-> 0]
        /\ held = 0 /\ since = 0 /\ bounds = 0 /\ it = 0

KeepAll(a)  == refs                                  \* mutant of the two below
Retained(a) == [refs EXCEPT ![a] = @ + 1]
Released(a) == [refs EXCEPT ![a] = @ - 1]
-----------------------------------------------------------------------------
\* The metadata callback on the queue "face": objc_storeStrong into the ivar.

Callback == /\ Delivering("metadata") /\ wpc = "idle" /\ made < MaxArrays
            /\ made' = made + 1 /\ refs' = [refs EXCEPT ![made'] = 1]
            /\ \E n \in 0..MaxFaces : faces' = [faces EXCEPT ![made'] = n]
            /\ wpc' = "store"
            /\ UNCHANGED <<sessionVars, current, old, sampleVars>>

Store == /\ wpc = "store" /\ wpc' = "release"
         /\ refs' = Retained(made) /\ old' = current /\ current' = made
         /\ UNCHANGED <<sessionVars, made, faces, sampleVars>>

ReleaseOld == /\ wpc = "release" /\ wpc' = "return" /\ refs' = Released(old)
              /\ UNCHANGED <<sessionVars, made, faces, current, old, sampleVars>>

CallbackReturns == /\ wpc = "return" /\ wpc' = "idle" /\ refs' = [refs EXCEPT ![made] = @ - 1]
                   /\ UNCHANGED <<sessionVars, made, faces, current, old, sampleVars>>
-----------------------------------------------------------------------------
\* captureOutput:didOutputSampleBuffer: on the queue "sample".

Arrive == /\ Produce /\ since' = IF pc = "idle" THEN current ELSE since
          /\ UNCHANGED <<faceVars, refs, held, bounds, it>>

Cached == IF taken = <<>> THEN current ELSE held      \* mutant of Getter
Getter == current

\* The getter reads the ivar ...
Load == /\ Handler("begin", "retain") /\ held' = Getter
        /\ UNCHANGED <<mats, taken, mainQueue, faceVars, refs, since, bounds, it>>

\* ... and the handler retains what it got.
Retain == /\ refs[held] > 0 /\ Handler("retain", "bounds") /\ refs' = Retained(held)
          /\ UNCHANGED <<mats, taken, mainQueue, faceVars, sampleVars>>

\* Retaining an array that has been freed is undefined.
RetainFreed == /\ refs[held] = 0 /\ Handler("retain", "undefined")
               /\ UNCHANGED <<mats, taken, mainQueue, faceVars, refs, sampleVars>>

\* The loop over the faces, after which the array is released.
ReadBounds == /\ Handler("bounds", "copy")
              /\ bounds' = faces[held] /\ refs' = Released(held)
              /\ UNCHANGED <<mats, taken, mainQueue, faceVars, held, since, it>>

Copy == CopyFrame("copy") /\ UNCHANGED <<faceVars, refs, sampleVars>>

\* The wrapper returns the landmarks of each face; they and its bounds are drawn.
Detect == /\ Detected(2 * bounds, "draw") /\ it' = 0
          /\ UNCHANGED <<faceVars, refs, held, since, bounds>>

DrawnLandmarks == it >= bounds                       \* mutant of Drawn
Drawn          == it >= 2 * bounds

Draw == /\ ~Drawn /\ DrawMark /\ it' = it + 1
        /\ UNCHANGED <<faceVars, refs, held, since, bounds>>

Finish == Drawn /\ Dispatch /\ UNCHANGED <<faceVars, refs, sampleVars>>
-----------------------------------------------------------------------------
MainThread == Main /\ UNCHANGED <<faceVars, refs, sampleVars>>
FaceQueue  == Store \/ ReleaseOld \/ CallbackReturns
Sample     == Load \/ Retain \/ RetainFreed \/ ReadBounds \/ Copy \/ Detect \/ Draw \/ Finish

Next == MainThread \/ Callback \/ FaceQueue \/ Arrive \/ Sample

\* The three threads are scheduled and none waits; the camera owes nothing.
Spec == Init /\ [][Next]_vars /\ WF_vars(MainThread) /\ WF_vars(FaceQueue) /\ WF_vars(Sample)
-----------------------------------------------------------------------------
\* Types; in particular no array is released more often than retained.
TypeOK ==
  /\ SessionTypeOK
  /\ pc \in {"idle", "begin", "retain", "bounds", "copy", "detect", "draw", "undefined"}
  /\ wpc \in {"idle", "store", "release", "return"}
  /\ {made, current, old, held, since} \subseteq Arrays
  /\ refs \in [Arrays -> 0..3] /\ faces \in [Arrays -> 0..MaxFaces]
  /\ bounds \in 0..MaxFaces /\ it \in 0..MaxMarks

\* The handler retains a freed array only if the face queue has put another
\* in its place between the handler's load and its retain: that window, which
\* the nonatomic property leaves open, is the only way to a dangling array.
FreedOnlyIfReplaced == pc = "undefined" => held < current

\* References balance: when neither thread is in the middle of the array the
\* current one is held by the ivar alone and all earlier ones are freed.
NothingLeaks ==
  wpc = "idle" /\ pc # "bounds" =>
    \A a \in 0..made : refs[a] = IF a = current THEN 1 ELSE 0

\* The faces drawn into a frame were current at some moment between its
\* arrival and their use: never older than what was there when it arrived, so
\* never older than those of an earlier frame.
FacesAreCurrent == pc \notin {"idle", "begin"} => held \in since..current
=============================================================================
