# A TLA+ model of FaceDetection

FaceDetection is an iOS application that finds faces and facial landmarks in
the frames of the front camera. It has two detection paths: MTCNN (three small
networks run by ncnn, `src/FaceDetection/mtcnn.cpp`), which the application
starts with, and dlib's 68-point shape predictor fed with the face rectangles
AVFoundation reports. This directory holds TLA+ models of the program's own
code, the TLC runs that check them and the proofs TLAPS checks.

File and line references are to `src/FaceDetection/` unless they say otherwise.

## 1. The system

| part | state | operations | talks to |
|---|---|---|---|
| `MTCNN::nms` (mtcnn.cpp:138) | local: sorted vector, multimap of scores, `vPick` | one call: sort, pick/scan/erase, collect | called by PNet, detect, detectMaxFace |
| `MTCNN::nmsTwoBoxs` (96) | the new vector, an earlier one | sort, erase new boxes | detectMaxFace |
| `generateBbox`, `refine` (67, 192) | coordinates, area, regression offsets of each box | make boxes from score cells; move, square and clip them | PNet; detect and detectMaxFace |
| `PNet`, `RNet`, `ONet` (243-351) | `firstBbox_`, `secondBbox_`, `thirdBbox_` | fill the next stage, updating the previous one in place | ncnn |
| `detect`, `detectMaxFace` (352, 383) | all member vectors, `finalBbox` | one frame: three stages with early returns; the second scale by scale with the two `...PreviousBbox_` vectors | the wrapper |
| `SetMinFace`, constructors (27-66) | `minsize`, the nets | set once | the wrapper |
| `FaceMtcnnWrapper` (.mm) | one MTCNN, a pixel buffer per frame | draw the image, detect, convert to `Face` objects | view controller |
| `MtcnnDetectionViewController` (.mm) | `cameraView`, serial queue `sample` | on a frame: detect, draw, `dispatch_async` to main | AVFoundation |
| `ViewController` (.mm) | `_currentMetadata`, queues `sample` and `face` | on metadata: replace the array; on a frame: read it, run dlib, draw, `dispatch_async` | AVFoundation, dlib wrapper |
| `FaceDlibWrapper` (.mm) | the shape predictor | copy pixels, convert rectangles, predict, findFace | dlib |
| AppDelegate, main, FaceMtcnn.{hpp,cpp} | none | start-up; empty stubs | UIKit |
| dlib, ncnn, opencv, GPUImage, Pods | | third party | |

### What is hard in it

* `nms` and `nmsTwoBoxs` erase from the container they iterate over, and `nms`
  stops only because each pick suppresses itself. Nothing in the loop checks that, and
  `vPick` has exactly as many elements as there are boxes. Whether a box
  suppresses itself depends on arithmetic in another function (`refine` clips,
  the intersection adds 1 to each side, the area does not).
* The stages are members of an object that lives as long as the application.
  `detect` and `detectMaxFace` leave through seven early exits, clear
  different members, and one PNet clears `firstBbox_` while the other appends.
* `RNet()` and `ONet()` update the boxes of the previous stage in place;
  `detectMaxFace` keeps copies of earlier boxes and compares them with new
  ones, so the moment the copy is taken matters.
* The second path reads on one queue what another queue writes, and both
  controllers hand work to the main queue without waiting.

`PROJECT.json` lists every hazard at its line with the properties that cover it.

### What makes each part correct

* `nms`: it returns, and its result is a greedy selection: boxes of the input,
  best first, no two suppressing each other, and every dropped box overlapped
  by a kept one that scores at least as high.
* geometry: what is cut out of the image for RNet and ONet is a nonempty part
  of the image, and boxes given to `nms` suppress themselves.
* an MTCNN object: a result belongs to the frame of its call, has passed the
  three networks and holds no overlapping boxes; the loop of `detectMaxFace`
  starts each scale with empty stages and compares like with like.
* the scale loop: it ends, misses no face size from the minimum up to the
  image, and gives the first network enough pixels.
* wrappers and controllers: nothing runs before it is set up, memory shared
  between queues is valid when used, a frame is shown once and in order with
  its own detections, the copies and conversions keep pixels and rectangles
  where they are.

## 2. Modules

| module | models | how |
|---|---|---|
| `Boxes` | `Bbox`, the overlap test, `cmpScore` | operators. Thresholds are tenths, scores integers that keep the floats' order. `RatioAbove` is the float division `IOU / denominator > threshold` with its zero and negative denominators. `Rescanned` is what `nmsTwoBoxs` may leave. |
| `Nms` | `MTCNN::nms` | state machine, one action per iteration. `vScores` is the set of indices still in the multimap: it is filled from a vector sorted by the same key, so its order is the order of the indices. `it` is the position of the iterator, `last` the pick being scanned for. |
| `GreedyNms` | what callers of `nms` rely on | one step from a vector to a greedy selection of it; `Nms` implements it through `INSTANCE ... WITH`. |
| `NmsTwoBoxs` | `MTCNN::nmsTwoBoxs` | state machine, one action per iteration of the inner loop: `ity` walks the previous vector, `itx` the new one, from which the loop erases under the iterator. |
| `RescanNms` | what `detectMaxFace` relies on when it calls `nmsTwoBoxs` | one step to a member of `Rescanned`; `NmsTwoBoxs` implements it. |
| `Pyramid` | `SetMinFace` and the scale loop of `PNet()` and `detectMaxFace` | `minl` and `m` are fixed-point and rounded at each multiplication, which is coarser than the program's floats (fine enough for sides up to 1500 pixels, `PyramidAssumption`); `Inf` is the float's infinity, which `SetMinFace(0)` leads to. |
| `BoxPath` | `generateBbox`, `refine`, the area updates of RNet and ONet | extends `Pyramid`: once the scales of an image are made, one candidate from a score-map cell of one of them to the result. Nothing bounds the offsets; they are multiples of a `Grain`-th of a side, which makes `refine` exact in 2 * `Grain`-ths of a pixel, `round` included. `jumped` is history: whether one has exceeded a quarter. |
| `Mtcnn` | `detect`, `detectMaxFace`, PNet, RNet, ONet, extractMaxFace | an object over several calls. Networks accept or reject any box; `refine` puts a box at any of `Rects`; `nms` is the greedy selection and `nmsTwoBoxs` the rescan. `frame`, `level`, `net` and `moves` of a box are history. |
| `FramePipeline` | what a camera view promises | two steps, take a picture and show the next one; fairness of the second. |
| `CameraSession` | what both controllers share | `viewDidLoad` step by step and the display blocks on the main thread, the camera, the first and last steps of the frame handler on the queue `sample`. `mats[f]` is the content of frame f's Mat, which the display block reads by reference. The session may refuse any of its `Outputs`. |
| `CaptureMtcnn` | `MtcnnDetectionViewController`, `FaceMtcnnWrapper` | extends `CameraSession` with the conversion of boxes to `Face` objects and the drawing; `pool` holds the landmarks arrays that are alive. Implements `FramePipeline`. |
| `CaptureDlib` | `ViewController` | extends `CameraSession` with the metadata callback on the queue `face`. `objc_storeStrong` (retain, store, release) is split from the handler's load and retain of the same array: `refs` counts the references to each array. Implements `FramePipeline`. |
| `FaceDlibWrapper` | the three methods of `FaceDlibWrapper` | a pixel is the byte offset it was read from, so a shear is a wrong offset. A buffer has the pixel size of the UIImage (`bytes`, the code's `pixelBytes`) and, independently, its colour space: `Depth` is the size of a pixel as the 8-bit context stores it, `Span` the bytes the copy reads of one. Bounds are in quarters, so that truncation shows. The predictor and the bitmap context are external. |
| `MCNms`, `MCNmsTwoBoxs`, `MCBoxPath`, `MCMtcnn`, `MCFaceDlibWrapper` | | the instances for TLC; the other modules take their constants from their `.cfg`. |
| `NmsProofs`, `NmsTwoBoxsProofs`, `BoxPathProofs`, `MtcnnProofs`, `CameraSessionProofs`, `CaptureMtcnnProofs`, `CaptureDlibProofs`, `FaceDlibWrapperProofs` | | the TLAPS proofs about the module each is named after; `BoxPathProofs` also holds those about `Pyramid`, `NmsProofs` the lemmas about `Boxes`. |

How they compose. `Pyramid` makes the scales, `BoxPath` takes a candidate of
one of them and shows that the boxes of an image suppress themselves
(`NmsDrains`); `Nms` shows that then, and only then, the loop
returns (`Returns`, `OverrunOnlyIfDegenerate`) and that its result is greedy
(`ImplementsGreedy`); `NmsTwoBoxs` shows that the other loop is a rescan
(`ImplementsRescan`). `Mtcnn` assumes the first (`MtcnnAssumption`) and uses
the others as the meaning of the two calls: the operators `IsGreedy` and
`Rescanned` that `GreedyNms` and `RescanNms` take their one step with are
those its actions use. `Pyramid` is where the number of its scales comes from
(`Scales`; at most 22, see section 4).
`CaptureMtcnn` uses a call of `detect` as one step that finds any number of
faces: `Mtcnn` shows that it returns and that its result belongs to the frame.
(The wrapper's method is named `detectMaxFace:` but calls `detect`; nothing
calls `MTCNN::detectMaxFace`.) `CaptureDlib` uses a call of `FaceDlibWrapper`
as one step that gives landmarks for each rectangle. Both controllers are
implementations of `FramePipeline`.

Operators marked "mutant of" next to a definition are faulty variants of it,
kept to show that a property would notice the fault. No specification uses them.

Four choices where the code's behaviour is not defined by the language:

* `std::sort` is not stable, so any arrangement of equal scores is possible
  (`SortedByScore`). `cmpArea` answers true for equal areas in both orders, so
  any box of the greatest area can come to the front (`ExtractMaxFace`).
* RNet and ONet compare `score[1]` with the threshold but store
  `score.channel(1)[0]`, a different cell of the blob. The stored score is
  therefore any of `Scores` (`Accepted`), whatever the network computed.
* `Face.landmarks` is an `assign` property under ARC (Face.h:15). When the
  loop of the wrapper ends an iteration, the array's last strong reference
  goes. Whether another one waits in the autorelease pool depends on how
  `arrayWithCapacity:` returned it: `Ownership` is "pooled" or "stolen", and
  reading a stolen array leads to `pc = "undefined"`, where the model stops.
* `currentMetadata` is a nonatomic property (ViewController.mm) read on one
  queue and written on another. The handler retains what the getter returned,
  but only after the load: if the face queue has replaced and released the
  array between the two, the retain is of a freed object (`RetainFreed`, again
  `pc = "undefined"`).

## 3. Runs

Each run takes between a few seconds and three minutes. Deadlock is not
checked anywhere: a call returns, or the camera stops at its bound, and then
the specification stops.

| run | question | instance |
|---|---|---|
| `nms` | Does `nms` stop with a greedy selection, and what if boxes are thin, empty or inverted? | vectors of up to 3 boxes over 3 scores and 7 rectangles: 4 that generateBbox makes (2 of them suppress each other at 0.5 only, so all chains of overlaps a-b, b-c, not a-c, and score ties occur) and 3 degenerate ones; the overrun is reached, by the degenerate ones only |
| `nms_two_boxs` | Does `nmsTwoBoxs` skip or lose a box when it erases under its iterator? | up to 3 new and 2 previous boxes among three in a row, A-B and B-C overlapping, A-C not, with 2 scores each |
| `box_path` | Do boxes stay usable through three refinements? | all cells of the two scales of a 64x58 image with minsize 40, offsets -1/4, 1/4 and 3/4 for each coordinate at each stage: the last empties, inverts and pushes boxes out of the image |
| `boundary_check` | Does "boundary check" keep a box in the image? (violated) | the same, offsets 0 and 1 |
| `pyramid` | Does the scale loop end, and does it miss a size? | sides and minimum sizes around each boundary of the loop: 0, 1, 12, 17, 18 (one scale less or more), 40, 41, 80, and SetMinFace(0); up to 16 scales, 2 images |
| `mtcnn_calls` | Can an earlier call show in a later one, are the boxes returned independent, is the largest returned, do calls return? | 2 calls in any mix of the two entry points, one scale with up to 2 boxes, three places: two that overlap under "Min" only and one apart from both, so that two boxes can survive, a last refinement could bring them together, and the larger of two that overlap can be passed over |
| `mtcnn_max` | Is the scale loop of detectMaxFace clean, and does it compare like with like? | 1 call, 2 scales, up to 2 boxes per scale, 2 scores, a large and a small place |
| `capture_mtcnn` | Does every frame handled reach the screen, in order and complete? | 4 camera frames, up to 2 faces in each, arrays pooled |
| `capture_landmarks` | When can a freed landmarks array be read? | the same, each array pooled or stolen; the undefined read is reached |
| `capture_dlib` | The same of the other controller, and what can its second queue do to it? | 3 camera frames, 3 metadata arrays of up to 2 faces; each of input, output and metadata output may be refused; the undefined retain is reached |
| `dlib_wrapper` | Do the copies and conversions keep pixels and rectangles in place, and does findFace find the widest? | buffers up to 3x2 of 0, 1, 2, 4 and 8 bytes a pixel, gray, colour and of a space no context supports, packed and padded (images with misplaced columns and images read past their end occur); up to 2 faces whose origins and sizes lie on either side of whole pixels and of 0 |
| `face_rect` | Is the rectangle `faceRect:` makes the face? (violated) | the same buffers, faces inside an image |

Why the bounds are enough. A scan of `nms` compares one pick with the boxes
left; three boxes give a pick, a box erased by it, one that survives to be the
next pick, and an erasure next to a survivor, which is what iterator mistakes
need. `nmsTwoBoxs` needs a box erased next to one that stays, and a second
previous box to restart on. Two calls are what it takes to find a leftover of
the first, two scales (`mtcnn_max`) to find a leftover of a scale, and two
boxes per stage for one to be accepted and one rejected. The 64x58 image has
two scales, and after a refinement boxes that touch, cross and stay clear of
each edge. Four camera frames let one wait on the main
queue, one be drawn, one be dropped and one follow; two faces make the drawing
loop stop between them. Three metadata arrays let one be held by the handler,
one be replaced and one replace it. For everything listed in section 4 the
bounds do not matter: it is proved for every value of them (of `detect` over
several scales, which no run has, too).

### Findings

`boundary_check`: after `refine`, `x1` and `y1` are only compared with 0 and
`x2` and `y2` only with the image size (mtcnn.cpp:222-226). A box moved past
the right edge keeps `x1 > width` while `x2` becomes `width - 1`. The networks'
offsets are not bounded by the code. As long as none exceeds a quarter of the
box this cannot happen, in any image (`BoxBoundaryCheck`), and whatever they
are the four margins copy_cut_border is given are not negative
(`BoxCutNotEmpty`): what goes wrong is that they leave nothing between them.

`face_rect`: `detecitonOnSampleBuffer:faceRect:` (FaceDlibWrapper.mm:148)
passes a CGRect's width and height as the right and bottom of a
`dlib::rectangle`, which dlib documents as the bottom right corner
(dlib/geometry/rectangle_abstract.h:21-23). `WrapperFaceRectNeedsOrigin` says
how far this goes: the rectangle is the face's only if the face begins within
two and a half pixels of the image's corner. Nothing calls the method yet.

### Fairness

* `Nms`, `NmsTwoBoxs` (`WF_vars(Next)`), `Mtcnn` (`WF_vars(Step)`) and
  `Pyramid` (`WF_vars(Loop)`): a call under way is straight-line code on one
  thread without locks or waits. Nobody has to call: there is no fairness of
  `Call`, `Begin` or `SetMinFace`.
* `CaptureMtcnn`: the main thread and the handler, `CaptureDlib`: these and
  the callback on the face queue. They are scheduled by the system and none of
  their steps waits for another; `CallsReturn` is why the handler's call of
  `detect` ends. The camera, the metadata output and the autorelease pool owe
  nothing.
* `FramePipeline`: of `Show`, which is the promise that frames do appear.
* `BoxPath`, `FaceDlibWrapper`, `GreedyNms` and `RescanNms` have none: only
  safety is stated of them.

## 4. Proofs

Every theorem is of the form `Spec => []P` or `Spec => [][A]_vars` (or states
that every step is a step of the abstract specification), for all values of
the constants that satisfy the module's named ASSUME: no bound of section 3 is
used, and no theorem has a hypothesis about the constants besides. Below, the inductive invariant of each module and why
the properties need it; each was run through TLC as an invariant before it was
proved. Every safety invariant of a passing run is stated by a theorem.

**`Nms`** (`NmsAssumption`: vectors of boxes, threshold 0.1 to 1.0, one of the
two measures). `NmsTypeOK`, `NmsPicksIndependent`, `NmsDropsJustified`,
`NmsOverrunOnlyIfDegenerate`, `NmsImplementsGreedy` from `NmsInv` and
`GreedyInv`. That a new pick is independent of the old ones needs `PickInv`
(nothing left in the map overlaps a pick), and that holds again at the end of
a scan because of `ScanInv` (the part already scanned does not overlap the
current pick, and the current pick is the greatest index left, which also
gives the score order of `DropsJustified`). The overrun needs `Countdown`: if
every box suppresses itself the picks are strictly descending indices, so the
k-th is at most n-k+1 and nothing can be left after n of them. Symmetry of the
overlap (`SuppressesSymmetric`) is used where a box is picked: the scan
compared it as the erasing candidate, independence wants it as the pick.
`NmsNeverOverruns` says the same of the vector `nms` is called with: if its
boxes suppress themselves, nothing is written past `vPick`. For the
refinement, `GreedyInv` adds
that the vector holds the boxes of the call and the picks come best first.

**`NmsTwoBoxs`** (`NmsTwoBoxsAssumption`, the same about both vectors).
`TwoBoxsTypeOK`, `TwoBoxsKeptStand`, `TwoBoxsErasedOutscore`,
`TwoBoxsImplementsRescan`. `KeptStand` is inductive with the types because an
erase moves the next box to the place of the erased one and leaves the
iterator there. For the refinement, `RescanInv` carries a witness: an
injective map (`Origin`) from the boxes left to the places they had in the
vector of the call; a place not in its range is that of a box some previous
one outscores.

**`Pyramid`** (`PyramidAssumption`: sides up to 1500 pixels, which is as far as
the fixed point is as good as the floats; the session's frames are 640x480,
MtcnnDetectionViewController.mm:84). The loop tests `minl`, the image is
resized by `m`, and the two are multiplied and rounded separately.
`FixedPointInv` (`Close`) is what relates them: `minl` is the side times `m` up
to `2 * (100 + side)` hundred-thousandths of a pixel, a bound that a
multiplication by 0.709 reproduces, so that the error does not accumulate
whatever the number of scales. `PyramidEnoughPixels` follows: a `minl` above
12 pixels is a scaled side above 11, which rounds up to 12. For
`PyramidSizesCovered`, `CoverInv` says in the middle of the loop that a face no
scale so far has brought to 12..17 pixels still has at least 11.5 at the next
one; the step is that a face above 17 pixels at one scale has that at 0.709 of
it. When the loop ends, the whole side has hardly more than 12 pixels at the
scale that is not made, so at the last one made such a face has at most 17.
`PyramidFewScales` bounds the loop: `Most`, a table of what `minl` can still be
after k multiplications, falls below 12 pixels after 22.

**`BoxPath`** (`BoxPathAssumption`: the side of the pyramid is the shorter one
of the image; the longer one is any; offsets are any multiples of a `Grain`-th,
for any `Grain`, so any fractions). `BoxCutNotEmpty`, `BoxNmsDrains` and
`BoxBoundaryCheck` from `BoxPathInv`. The code bounds no offset, so each says
two things. For any offsets and any minsize: no margin of a cut is negative,
because the clip keeps the beginning of a side right of one edge and its end
left of the other; and a box given to nms suppresses itself exactly if it is
`Wide`, because its area is never stale (`SuppressesItselfIffWide` is the
arithmetic: the intersection adds 1 to each side and the area does not, so
under "Union" two pixels a side are needed, and not both two). And while the
box's history is `Gentle` (no offset has exceeded a quarter of the box, and the
minsize of the call was at least the 40 that FaceMtcnnWrapper.mm:25 sets and
mtcnn.h:67 starts from): cuts are not empty, boxes are wide, both corners are
in the image. `Gentle` is a predicate of the behaviour (`jumped` remembers the
offsets), not a bound on the constants. Beyond it these fail: the run `box_path`
reaches boxes that do not suppress themselves, among them inverted ones
(x1 = x2 + 1, whose area is 1 and whose intersection is empty), and
`boundary_check` a corner outside the image. For gentle boxes `BoxInv` says
what is left at each stage. A box of `generateBbox` may stick out of the image, because the
score map is rounded up, but is `Roomy`: at least 40 long and not so far out
that a quarter's shift leaves the image, with 3 * lo + hi + 75 below four times
the size. Each refinement takes at most half of a side and what the clip and
`round` cost, so that 18, 8 and 3 pixels are left after the three, inside the
image: the clip tests each end against one edge only, and it is this margin
that makes that enough.

**`Mtcnn`** (`MtcnnAssumption`: the places are rectangles with integer
coordinates and a fresh area, each suppressing itself at 0.7, scores are
integers). `MtcnnTypeOK`, `MtcnnResultIsCurrent`, `MtcnnOneScaleAtATime`,
`MtcnnComparable`, `MtcnnResultIndependent`, `MtcnnReturnsLargest` from
`MtcnnInv`, which says for every step of a call what each member holds: which
networks accepted its boxes, how often they were moved, and that they are of
this frame and of the levels a call may be at (`FirstInv`, `SecondInv`,
`ThirdInv`), which members have been emptied (`EmptiedInv`), and what the
remembered vectors hold (`PreviousInv`). A property about one member at one
step needs the others because RNet and ONet build one from another and an
early exit leaves them as they are. `MtcnnRescansNeverOutscore` needs
`ScalesInv` besides: the boxes remembered for comparison are those of the
scales before. `MtcnnStepsBounded` needs `LengthsInv`: no stage holds more
boxes than the scales done so far can have given.

**`CameraSession`, `CaptureMtcnn`, `CaptureDlib`** (`SessionAssumption`,
`OwnershipAssumption`, `MetadataAssumption`). `SetUpInOrder` (what is set up
by each step of viewDidLoad) gives `CaptureReadyBeforeFrames` and
`DlibReadyBeforeFrames`. `PictureInv` (frames taken ascend; the main queue
holds exactly those taken and neither shown nor in the handler's hands) and
each controller's `MarksInv` (a Mat on the queue is completely drawn, the one
being drawn has as many marks as the loop has turned) give
`CaptureImplementsPipeline` and `DlibImplementsPipeline`: initial states map
to initial states and every step to a step of `FramePipeline` or a stutter.
What this is worth to a viewer is `PipelineShowsInOrder`, proved of every
implementation of `FramePipeline` at once: what is shown is a prefix of what
was taken, in strictly ascending frames; `CaptureShowsInOrder` and
`DlibShowsInOrder` are its instances.
`LandmarksInv` (an array left to the pool is alive until the frame is drawn)
gives `CaptureDrawsFreedOnlyIfStolen`. `ArraysInv` says that the reference
count of each array is the number of its `Owners` (the ivar, the callback
with the array it was given, the callback with the one it replaced, the
handler in its loop), from which `DlibNothingLeaks`,
`DlibFreedOnlyIfReplaced` and `DlibFacesAreCurrent` follow.

**`FaceDlibWrapper`** (`WrapperAssumption`: rows are at least as long as their
pixels, images have a pixel, sizes of faces are not negative; nothing is assumed of
the pixel size or its relation to the colour space). `WrapperTypeOK`,
`WrapperOverreadOnlyIfNarrow`, `WrapperInPlaceExactly`,
`WrapperRectsCoverFaces`, `WrapperWidestFound` from `WrapperInv`: pixel k was
read at k-1 times the size of a pixel of the source (`CopyInv`), each rectangle
is the conversion of its face (`RectInv`), the feature kept is the widest so far
(`WidestInv`). Neither "no pixel is read past the end" nor "the image is not
sheared" is true of the code: the two theorems say exactly when they are. An
image that is not gray and has one or two bytes a pixel (indexed colour,
RGB555) is read past its end. A frame with padded rows is right in its first
row only, an image whose pixels are wider than those the context stores (16
bits a component, gray with alpha) in its first column only. `FaceRectInv`
(what `faceRect:` gives the predictor) leads to `WrapperFaceRectNeedsOrigin`.

**Why the loops end.** Four theorems have the form `Spec => [][Lowers]_vars`:
each step of a call lowers a natural number. `NmsStepsBounded` counts picks
and, within one, what the scan has left, at most n(n+3)+3 for n boxes, the
overrun included; `TwoBoxsStepsBounded` (p previous boxes, n new ones, at most
(p+1)(n+2)) holds although the loop erases from the vector it walks;
`MtcnnStepsBounded` counts scales and, within one, stages and iterations;
`PyramidLoopBounded` is about the scale loop and needs `minsize` not to be 0.
With the fairness of section 3 these are the arguments behind `Returns`,
`CallsReturn` and `ScalesEnd`; that a call under way can always take a step
(ENABLED), and so the liveness itself, is what TLC checks.

Only model-checked: liveness, which is out of the prover's reach. This is
`Returns` of both loops, `CallsReturn`, `ScalesEnd`, and that every frame taken
is eventually shown (the liveness part of `ImplementsPipeline`; the two
theorems are its safety part). `BoundaryCheck` without `Gentle` and
`FaceRectKept` are false and are runs that expect a violation.

## 5. Not modelled

* The values the networks compute (any value is allowed), landmark
  coordinates, image normalisation and resizing, decoding of images, drawing
  itself, which channel of an image the copy takes for which colour, the texts shown, the eye and mouth centres and the distance label of
  `ViewController` (computed and shown, never read back), the RGBA buffer
  local to a call of the MTCNN wrapper.
* The exposure, focus and mirroring settings of the camera. The missing
  `unlockForConfiguration` (ViewController.mm:80) is listed as a hazard
  without a property: its consequences are AVFoundation's.
* AppDelegate, main and the resources, which only start the application, and
  FaceMtcnn.{hpp,cpp}, which are empty.
* The third-party trees: dlib (nearly all lines of C and C++ in `src/`), ncnn,
  OpenCV, GPUImage, Pods. The program uses dlib for one
  predictor and its image containers. The models take from these libraries
  only what the program relies on. That is why the lines `PROJECT.json` maps
  are a fraction of a percent of the tree although they cover the program's
  own detection code.

## 6. Plan

Done: suppression (`Boxes`, `Nms`, `NmsTwoBoxs` and what their callers rely
on), geometry and scales (`BoxPath`, `Pyramid`), the detector object
(`Mtcnn`), both controllers and both wrappers, and the proofs of section 4:
every safety invariant of a passing run, the safety part of every refinement,
and a decreasing measure for every loop.

Left:

1. A larger bound than a quarter in `Gentle`: a quarter is comfortable, the
   largest that still leaves the boxes wide enough is not known.
2. One specification of `Mtcnn` over `BoxPath`'s boxes, so that
   `MtcnnAssumption` (each place suppresses itself) is a theorem about the
   rectangles `refine` makes instead of an assumption.
