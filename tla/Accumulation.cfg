\* Four images of different shapes on canvases of three shapes.
SPECIFICATION Spec

CONSTANTS
  None = None
  Image = {"flat", "wide", "tall", "steep"}
  Height <- MC_Height
  Width <- MC_Width
  Pixel <- MC_Pixel
  Shape <- MC_Shape
  Depth = 4

INVARIANTS
  SumOfImages
  NothingIsCutOff
  ResultShowsSum
