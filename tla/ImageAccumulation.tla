------------------------- MODULE ImageAccumulation --------------------------
(***************************************************************************)
(* What the summary and heatmap processors do to the images of a session,  *)
(* pixel by pixel: the canvas, how an image is laid on it, and the cast to *)
(* a byte at the end.  Worker models an accumulator as the set of images   *)
(* summed into it; SumOfImages is why.  One channel stands for the three of*)
(* a colour image, and for the brightness that a heatmap adds up.          *)
(***************************************************************************)
EXTENDS Integers, FiniteSets, FiniteSetsExt

CONSTANTS
  Image,    \* the images of the clients
  Height,   \* Height[i]: rows of image i
  Width,    \* Width[i]: columns of image i
  Pixel,    \* Pixel[i][r, c]: its pixels
  Shape,    \* the shapes a client may declare: [height, width]
  Depth,    \* a channel holds 0..Depth-1; 256 in the code
  None

ASSUME ImageAssumption ==
  /\ Height \in [Image -> Nat] /\ Width \in [Image -> Nat]
  /\ Depth \in Nat \ {0}
  /\ \A i \in Image : Pixel[i] \in [(1..Height[i]) \X (1..Width[i]) -> 0..(Depth - 1)]
  /\ \A s \in Shape : s.height \in Nat /\ s.width \in Nat

VARIABLES
  client,   \* the shape the client declared, None when no session is open
  canvas,   \* result_image_buffer or heatmap_buffer, None without a session
  added,    \* history: the images laid on the canvas
  result    \* the image made of the sum when the session was cleared, else None

vars == <<client, canvas, added, result>>

Init == client = None /\ canvas = None /\ added = {} /\ result = None

-----------------------------------------------------------------------------
\* Mutant of FlowArguments: width for width, height for height.
FlowArgumentsAsNamed(shape) == shape

\* SIFlow passes the client's height where summary_image_accumulator says width,
\* and its width where it says height.
FlowArguments(shape) == [width |-> shape.height, height |-> shape.width]

\* np.zeros((width, height)): numpy's first axis is the rows.
Zeros(arguments) ==
  [rc \in (1..arguments.width) \X (1..arguments.height) |-> 0]

\* A client of the websocket opens a summary session.
InitSession(shape) ==
  /\ canvas = None
  /\ client' = shape
  /\ canvas' = Zeros(FlowArguments(shape))
  /\ added' = {}
  /\ result' = None

\* Mutant of Laid: the columns are cut at the number of rows.
LaidSquare(i) ==
  [rc \in DOMAIN canvas |->
     IF rc \in DOMAIN Pixel[i] /\ rc[2] <= Height[i] THEN canvas[rc] + Pixel[i][rc] ELSE canvas[rc]]

\* The common rows and columns of the canvas and the image are added up.
Laid(i) ==
  [rc \in DOMAIN canvas |->
     IF rc \in DOMAIN Pixel[i] THEN canvas[rc] + Pixel[i][rc] ELSE canvas[rc]]

ProcessMessage(i) ==
  /\ canvas # None /\ i \notin added
  /\ canvas' = Laid(i)
  /\ added' = added \cup {i}
  /\ UNCHANGED <<client, result>>

\* Mutant of Bytes: clipped one below the brightest value.
BytesBelowTop(sum) == IF sum < Depth - 1 THEN {sum} ELSE {Depth - 2}

\* np.uint8 of a float: above the range of a byte the C conversion is undefined,
\* and the build wraps around or saturates.
Bytes(sum) == IF sum < Depth THEN {sum} ELSE {sum % Depth, Depth - 1}

ClearSession ==
  /\ canvas # None
  /\ result' \in {f \in [DOMAIN canvas -> 0..(Depth - 1)] :
                    \A rc \in DOMAIN canvas : f[rc] \in Bytes(canvas[rc])}
  /\ client' = None /\ canvas' = None
  /\ UNCHANGED added

Next ==
  \/ \E shape \in Shape : InitSession(shape)
  \/ \E i \in Image : ProcessMessage(i)
  \/ ClearSession

Spec == Init /\ [][Next]_vars

-----------------------------------------------------------------------------
(* Properties.                                                             *)

\* The sum of the images at a pixel, from all those that reach it.
SumAt(rc) == MapThenSumSet(LAMBDA i : Pixel[i][rc], {i \in added : rc \in DOMAIN Pixel[i]})

\* The canvas is the sum of the images, whatever their sizes and in whatever
\* order they came (process_message of both processors).
SumOfImages == canvas # None => \A rc \in DOMAIN canvas : canvas[rc] = SumAt(rc)

\* An image of the shape the client declared is laid on the canvas whole: the
\* arguments that SIFlow passes swapped and the axes that np.zeros is given
\* swapped cancel out.
NothingIsCutOff ==
  canvas # None => DOMAIN canvas = (1..client.height) \X (1..client.width)

\* The result shows the exact sum wherever a byte can hold it, and where the sum
\* overflows it never shows more than the sum.
ResultShowsSum ==
  result # None => \A rc \in DOMAIN result :
    /\ result[rc] <= SumAt(rc)
    /\ SumAt(rc) < Depth => result[rc] = SumAt(rc)

=============================================================================
