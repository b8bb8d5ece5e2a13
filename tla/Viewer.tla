--------------------------------- MODULE Viewer ---------------------------------
(* The window of examples/mnist/gui.py: navigation of the test set, the drawing *)
(* mode and the panes, driven by Tk events one at a time.  Every inference may  *)
(* raise; Tk reports the exception and goes on.  Drawings have one axis here:   *)
(* the other one is treated alike.                                              *)
EXTENDS Integers, FiniteSets, Sequences

CONSTANTS
  Images,       \* the length of the test set
  Wrong,        \* the images the model gets wrong
  Side,         \* CANVAS, in pixels
  Radius,       \* BRUSH // 2
  Reach,        \* how far outside the canvas the pointer is dragged
  MaxEvents     \* bound: the events of a session
ASSUME ViewerAssumption ==
  /\ Images \in Nat \ {0} /\ Wrong \subseteq 0..(Images - 1)
  /\ {Side, Radius, Reach} \subseteq Nat

VARIABLES
  index, drawingMode, strokes, lastPoint,   \* the Viewer's attributes
  canvas,       \* the picture on the canvas; ovals are drawn over it while dragging
  ovals,
  bars, verdict, caption,   \* what each pane says, with the picture it is about
  stage,        \* a _show() under way: the picture painted, before its inference
  erred,        \* whether the inference of the picture on the canvas raised
  eventsSeen
vwVars == <<index, drawingMode, strokes, lastPoint, canvas, ovals, bars, verdict, caption, stage, erred, eventsSeen>>
Panes == <<bars, verdict, caption>>
Drawing == <<strokes, lastPoint>>

Test(i) == [kind |-> "test", at |-> i, ink |-> {}]
Drawn(ink) == [kind |-> "drawing", at |-> 0, ink |-> ink]
Blank == [kind |-> "blank", at |-> 0, ink |-> {}]
NoStage == [open |-> FALSE]

(* to_mnist_frame(): the glyph is cut out of the drawing, scaled and centred,   *)
(* so where it was drawn is forgotten; without ink the frame is empty.          *)
Leftmost(ink) == CHOOSE x \in ink : \A y \in ink : x <= y
ToMnistFrame(ink) == {x - Leftmost(ink) : x \in ink}

(* The verdict on a picture: right or wrong against the label, or a guess. *)
VerdictOn(p) ==
  IF p.kind = "test" THEN (IF p.at \in Wrong THEN "wrong" ELSE "right") ELSE "guess"

(* _show() paints first; then the inference, the bars, the caption, the verdict.*)
Painted(p) == canvas' = p /\ ovals' = {} /\ stage' = [open |-> TRUE, of |-> p]
VwInit ==
  /\ index = 0 /\ drawingMode = FALSE /\ strokes = {} /\ lastPoint = <<>>
  /\ canvas = Test(0) /\ ovals = {} /\ stage = [open |-> TRUE, of |-> Test(0)]
  /\ bars = Blank /\ verdict = [of |-> Blank, says |-> ""] /\ caption = [of |-> Blank, says |-> ""]
  /\ erred = FALSE /\ eventsSeen = 0
Infer ==
  /\ stage.open /\ stage' = NoStage /\ erred' = FALSE
  /\ bars' = stage.of
  /\ caption' = [of |-> stage.of, says |-> stage.of.kind]
  /\ verdict' = [of |-> stage.of, says |-> VerdictOn(stage.of)]
  /\ UNCHANGED <<index, drawingMode, Drawing, canvas, ovals, eventsSeen>>
(* The constructor says so in the window; jump() takes a ValueError of the      *)
(* model for one of int(); elsewhere the panes stay as they were.               *)
InferRaises ==
  /\ stage.open /\ stage' = NoStage /\ erred' = TRUE
  /\ \/ UNCHANGED Panes
     \/ /\ eventsSeen = 0 /\ caption' = [of |-> Blank, says |-> "the exception"]
        /\ verdict' = [of |-> Blank, says |-> "inference failed"] /\ UNCHANGED bars
     \/ /\ stage.of.kind = "test" /\ eventsSeen > 0 /\ caption' = [of |-> Blank, says |-> "index must be a whole number"]
        /\ UNCHANGED <<bars, verdict>>
  /\ UNCHANGED <<index, drawingMode, Drawing, canvas, ovals, eventsSeen>>

Event == ~stage.open /\ eventsSeen < MaxEvents /\ eventsSeen' = eventsSeen + 1

ShowTestImage(i) ==
  /\ drawingMode' = FALSE /\ index' = i % Images /\ Painted(Test(i % Images))
  /\ UNCHANGED <<Drawing, Panes, erred>>
(* step(), random_image() and jump(): any integer, also a negative one, wraps.  *)
Navigate == Event /\ \E i \in (-1)..Images : ShowTestImage(i)
JumpRefused ==
  /\ Event /\ caption' = [of |-> Blank, says |-> "index must be a whole number"]
  /\ UNCHANGED <<index, drawingMode, Drawing, canvas, ovals, bars, verdict, stage, erred>>
(* next_mistake(): one inference for every candidate, the current image last.   *)
After(k) == (index + k) % Images
NextMistake ==
  /\ Event
  /\ IF Wrong # {}
     THEN ShowTestImage(After(CHOOSE k \in 1..Images :
                                After(k) \in Wrong /\ \A j \in 1..(k - 1) : After(j) \notin Wrong))
     ELSE /\ caption' = [of |-> Blank, says |-> "no mistakes in the test set"]
          /\ UNCHANGED <<index, drawingMode, Drawing, canvas, ovals, bars, verdict, stage, erred>>
NextMistakeRaises == Event /\ UNCHANGED <<index, drawingMode, Drawing, canvas, ovals, Panes, stage, erred>>

StrokesKept == strokes
StrokesCleared == {}
ClearDrawing(mode) ==
  /\ strokes' = StrokesCleared /\ lastPoint' = <<>>
  /\ IF mode
     THEN /\ canvas' = Blank /\ ovals' = {} /\ bars' = Blank /\ erred' = FALSE
          /\ verdict' = [of |-> Blank, says |-> ""] /\ caption' = [of |-> Blank, says |-> "draw"]
     ELSE UNCHANGED <<canvas, ovals, Panes, erred>>
  /\ UNCHANGED <<index, stage>>
Clear == Event /\ ClearDrawing(drawingMode) /\ UNCHANGED drawingMode
ToggleDraw ==
  /\ Event
  /\ IF drawingMode THEN ShowTestImage(index) ELSE drawingMode' = TRUE /\ ClearDrawing(TRUE)

(* numpy's strokes[lo:hi]: a negative bound counts from the end. *)
Bound(b) == IF b >= 0 THEN b ELSE IF b + Side < 0 THEN 0 ELSE b + Side
Slice(lo, hi) == {x \in 0..(Side - 1) : Bound(lo) <= x /\ x < Bound(hi)}
AtLeast(a, b) == IF a > b THEN a ELSE b
AtMost(a, b) == IF a < b THEN a ELSE b
Stamp(x) == Slice(AtLeast(0, x - Radius), AtMost(Side, x + Radius))
(* Interpolated from the last point; motion events go on outside the canvas.    *)
Between(x, y) == {z \in (-Reach)..(Side + Reach) : (x <= z /\ z <= y) \/ (y <= z /\ z <= x)}
Passed(x) == IF lastPoint = <<>> THEN {x} ELSE Between(lastPoint[1], x)
Drag(x) ==
  /\ Event /\ drawingMode
  /\ strokes' = strokes \cup UNION {Stamp(z) : z \in Passed(x)}
  /\ lastPoint' = <<x>>
  /\ ovals' = ovals \cup {x}
  /\ UNCHANGED <<index, drawingMode, canvas, Panes, stage, erred>>
Release ==
  /\ Event /\ drawingMode
  /\ lastPoint' = <<>>
  /\ Painted(Drawn(IF strokes = {} THEN {} ELSE ToMnistFrame(strokes)))
  /\ UNCHANGED <<index, drawingMode, strokes, Panes, erred>>

VwNext ==
  \/ Infer \/ InferRaises
  \/ Navigate \/ JumpRefused \/ NextMistake \/ NextMistakeRaises
  \/ Clear \/ ToggleDraw \/ (\E x \in (-Reach)..(Side + Reach - 1) : Drag(x)) \/ Release
VwSpec == VwInit /\ [][VwNext]_vwVars

(* Bars and verdict are of one inference, and of the picture on the canvas      *)
(* unless that picture's inference raised; out of the drawing mode the picture  *)
(* is the current test image, and in it only what was drawn since it was        *)
(* entered or cleared, whatever was drawn, cleared or interrupted before.       *)
PanesDescribeCanvas ==
  /\ verdict.of = bars
  /\ ~stage.open /\ ~erred => bars = canvas
  /\ ~drawingMode => canvas = Test(index)
  /\ drawingMode /\ ~stage.open /\ ~erred => canvas.kind # "test"
  /\ drawingMode /\ canvas = Blank /\ ovals = {} => strokes = {}
================================================================================
