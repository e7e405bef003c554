--------------------------- MODULE CameraSession ---------------------------
(***************************************************************************)
(* What MtcnnDetectionViewController and ViewController have in common:    *)
(* viewDidLoad and the display blocks on the main thread, the camera, and  *)
(* the first and last step of the frame handler on the serial queue        *)
(* "sample".  The steps say nothing of the variables a controller adds.    *)
(***************************************************************************)
EXTENDS Naturals, Sequences

CONSTANTS MaxFrames,  \* bound: frames the camera delivers
          MaxMarks,   \* bound: marks drawn into a frame
          Outputs     \* what viewDidLoad adds to the session

ASSUME SessionAssumption == /\ {MaxFrames, MaxMarks} \subseteq Nat
                            /\ Outputs \subseteq {"input", "output", "metadata"}

VARIABLES loading,    \* next step of viewDidLoad; "running" is the main run loop
          ready,      \* what has been set up
          clock,      \* last frame the camera produced
          pc, cur,    \* the handler and its frame
          mats,       \* marks drawn into the Mat of each frame
          mainQueue,  \* frames whose display block waits
          taken,      \* frames detected in, with the marks found (history)
          shown       \* frames shown, with the marks drawn (history)

mainVars    == <<loading, ready>>
handlerVars == <<clock, pc, cur, mats, taken>>
sessionVars == <<mainVars, handlerVars, mainQueue, shown>>

SessionInit == /\ loading = "start" /\ ready = {} /\ clock = 0 /\ pc = "idle" /\ cur = 0
               /\ mats = [f \in 1..MaxFrames |-> 0]
               /\ mainQueue = <<>> /\ taken = <<>> /\ shown = <<>>

SetUp(step, next, parts) == /\ loading = step /\ loading' = next
                            /\ ready' = ready \cup parts
                            /\ UNCHANGED <<handlerVars, mainQueue, shown>>

LoadView == SetUp("start", "session", {"view", "wrapper"})

ConfigureAndStart ==                                 \* mutant of ConfigureSession
  \E added \in SUBSET Outputs : SetUp("session", "format", {"delegate", "running"} \cup added)

\* The session may refuse the input or an output; nothing is said if it does.
ConfigureSession ==
  \E added \in SUBSET Outputs : SetUp("session", "format", {"delegate"} \cup added)

SetFormat == SetUp("format", "go", {"BGRA"})

StartRunning == SetUp("go", "return", {"running"})

ReturnToRunLoop == SetUp("return", "running", {})

\* A display block: what the Mat holds now goes to the screen.
ShowFrame ==
  /\ loading = "running" /\ mainQueue # <<>>
  /\ shown' = Append(shown, [frame |-> Head(mainQueue), marks |-> mats[Head(mainQueue)]])
  /\ mainQueue' = Tail(mainQueue)
  /\ UNCHANGED <<mainVars, handlerVars>>

Main == LoadView \/ ConfigureSession \/ SetFormat \/ StartRunning \/ ReturnToRunLoop
          \/ ShowFrame

Delivering(output) == {"input", output, "delegate", "running"} \subseteq ready

\* A frame goes to the handler if its queue is free, or is dropped.
Produce == /\ Delivering("output") /\ clock < MaxFrames /\ clock' = clock + 1
           /\ IF pc = "idle" THEN pc' = "begin" /\ cur' = clock' ELSE UNCHANGED <<pc, cur>>
           /\ UNCHANGED <<mainVars, mats, mainQueue, taken, shown>>

Handler(step, next) == /\ pc = step /\ pc' = next
                       /\ UNCHANGED <<mainVars, clock, cur, shown>>

\* The pixels go into an image and a Mat of the handler's own.
CopyFrame(step) == /\ Handler(step, "detect")
                   /\ mats' = [mats EXCEPT ![cur] = 0]
                   /\ UNCHANGED <<taken, mainQueue>>

\* Detection: n marks are to be drawn.
Detected(n, next) == /\ Handler("detect", next)
                     /\ taken' = Append(taken, [frame |-> cur, marks |-> n])
                     /\ UNCHANGED <<mats, mainQueue>>

DrawMark == /\ Handler("draw", "draw")
            /\ mats' = [mats EXCEPT ![cur] = @ + 1]
            /\ UNCHANGED <<taken, mainQueue>>

\* dispatch_async: the block keeps the Mat, the handler returns.
Dispatch == /\ Handler("draw", "idle")
            /\ mainQueue' = Append(mainQueue, cur)
            /\ UNCHANGED <<mats, taken>>
-----------------------------------------------------------------------------
SessionTypeOK ==
  /\ loading \in {"start", "session", "format", "go", "return", "running"}
  /\ ready \subseteq {"view", "wrapper", "delegate", "BGRA", "running"} \cup Outputs
  /\ clock \in 0..MaxFrames /\ cur \in 0..clock
  /\ mats \in [1..MaxFrames -> 0..MaxMarks]
  /\ mainQueue \in Seq(1..MaxFrames)
  /\ {taken, shown} \subseteq Seq([frame : 1..MaxFrames, marks : 0..MaxMarks])

\* The handler runs only on a controller that is ready for it: the wrapper
\* exists (a message to nil would find no faces, silently) and the buffers are
\* BGRA, the layout imageFromPixelBuffer: and the dlib wrapper read, although
\* the sample queue is live before viewDidLoad returns.
ReadyBeforeFrames == pc # "idle" => {"view", "wrapper", "BGRA"} \subseteq ready

\* Frames reach the screen once each, in order, completely drawn with the
\* marks found in them, and all do, however far the main thread lags.
Pipeline == INSTANCE FramePipeline

ImplementsPipeline == Pipeline!Spec
=============================================================================
