---------------------------- MODULE ImageProofs -----------------------------
(***************************************************************************)
(* The canvas of a session is the sum of its images, whatever their number,*)
(* their sizes and the order they came in, and its result shows that sum.  *)
(*                                                                         *)
(* The sum over a set of images is a recursive function that takes one     *)
(* chosen image after the other.  That it does not depend on the choice is *)
(* shown by induction over finite sets of images, by way of a least set for*)
(* which something fails (LeastSet): the function exists (SumsExist), it is*)
(* unique (SumsAgree), and any image of the set may be taken out first     *)
(* (AnyFirst), so that one more image adds what it holds (OneMore).        *)
(***************************************************************************)
EXTENDS ImageAccumulation, FiniteSetTheorems, WellFoundedInduction, TLAPS

\* The images that have a pixel rc, and the finite sets of them.
Reaching(rc, images) == {i \in images : rc \in DOMAIN Pixel[i]}
Sets(rc) == FiniteSubsetsOf(Reaching(rc, Image))

Sum(rc, images) == MapThenSumSet(LAMBDA i : Pixel[i][rc], images)

\* What the sum over the images s is, when g has those over smaller sets.
OneStep(rc, g, s) ==
  IF s = {} THEN 0 ELSE LET x == CHOOSE y \in s : TRUE IN Pixel[x][rc] + g[s \ {x}]

\* g has the sums over the sets of these images.
IsSum(rc, images, g) == g = [s \in SUBSET images |-> OneStep(rc, g, s)]

-----------------------------------------------------------------------------
(* Sums over finite sets.                                                  *)

LEMMA LeastSet ==
  ASSUME NEW rc, NEW B, B \subseteq Sets(rc), B # {}
  PROVE  \E m \in B : \A t \in B : ~(t \subseteq m /\ t # m)
<1> DEFINE I == Reaching(rc, Image)
<1>1. IsWellFoundedOn(StrictSubsetOrdering(I), FiniteSubsetsOf(I))
  BY FS_StrictSubsetOrderingWellFounded
<1> HIDE DEF I
<1>2. B \subseteq FiniteSubsetsOf(I)
  BY DEF I, Sets
<1>3. PICK m \in B : \A t \in B : <<t, m>> \notin StrictSubsetOrdering(I)
  BY <1>1, <1>2, WFMin
<1>4. \A t \in B : t \in SUBSET I
  BY <1>2 DEF FiniteSubsetsOf
<1> QED BY <1>3, <1>4 DEF StrictSubsetOrdering

LEMMA SubsetsToo ==
  ASSUME NEW rc, NEW s \in Sets(rc), NEW t, t \subseteq s
  PROVE  t \in Sets(rc)
BY FS_Subset DEF Sets, FiniteSubsetsOf

\* The sums over the sets of some images are those over the sets of fewer of them.
LEMMA SumsRestrict ==
  ASSUME NEW rc, NEW S, NEW T \in SUBSET S, NEW g, IsSum(rc, S, g)
  PROVE  \E h : IsSum(rc, T, h) /\ h[T] = g[T]
<1> DEFINE h == [s \in SUBSET T |-> g[s]]
<1>1. ASSUME NEW s \in SUBSET T PROVE h[s] = OneStep(rc, h, s)
  <2>1. h[s] = OneStep(rc, g, s)
    BY DEF IsSum
  <2>2. CASE s = {}
    BY <2>1, <2>2 DEF OneStep
  <2>3. CASE s # {}
    <3>1. PICK x : x = CHOOSE y \in s : TRUE
      OBVIOUS
    <3>2. h[s \ {x}] = g[s \ {x}]
      OBVIOUS
    <3> HIDE DEF h
    <3> QED BY <2>1, <2>3, <3>1, <3>2 DEF OneStep
  <2> QED BY <2>2, <2>3
<1>2. h = [s \in SUBSET T |-> h[s]]
  OBVIOUS
<1>3. h[T] = g[T]
  OBVIOUS
<1> HIDE DEF h
<1>4. IsSum(rc, T, h)
  BY <1>1, <1>2 DEF IsSum
<1> QED BY <1>3, <1>4

LEMMA SumsAgree ==
  ASSUME NEW rc, NEW S \in Sets(rc), NEW g, NEW h, IsSum(rc, S, g), IsSum(rc, S, h)
  PROVE  g = h
<1> DEFINE B == {s \in SUBSET S : g[s] # h[s]}
<1>1. B \subseteq Sets(rc)
  BY SubsetsToo
<1>2. CASE B # {}
  <2>1. PICK m \in B : \A t \in B : ~(t \subseteq m /\ t # m)
    <3> HIDE DEF B
    <3> QED BY <1>1, <1>2, LeastSet
  <2>2. g[m] = OneStep(rc, g, m) /\ h[m] = OneStep(rc, h, m) /\ m \in SUBSET S /\ g[m] # h[m]
    BY <2>1 DEF IsSum
  <2>3. m # {}
    BY <2>2 DEF OneStep
  <2>4. PICK x \in m : x = CHOOSE y \in m : TRUE
    BY <2>3
  <2>5. g[m \ {x}] = h[m \ {x}]
    <3>1. m \ {x} \subseteq m /\ m \ {x} # m /\ m \ {x} \in SUBSET S
      BY <2>2, <2>4
    <3> QED BY <2>1, <3>1
  <2> QED BY <2>2, <2>3, <2>4, <2>5 DEF OneStep
<1>3. CASE B = {}
  <2>1. \A s \in SUBSET S : g[s] = h[s]
    BY <1>3
  <2>2. g = [s \in SUBSET S |-> g[s]] /\ h = [s \in SUBSET S |-> h[s]]
    BY DEF IsSum
  <2> QED BY <2>1, <2>2
<1> QED BY <1>2, <1>3

LEMMA SumIsChosen ==
  ASSUME NEW rc, NEW S
  PROVE  Sum(rc, S) = (CHOOSE g : IsSum(rc, S, g))[S]
BY DEF Sum, MapThenSumSet, MapThenFoldSet, IsSum, OneStep

\* Where the function exists, the sum is that of its recursive definition.
LEMMA SumUnfolds ==
  ASSUME NEW rc, NEW S \in Sets(rc), \E g : IsSum(rc, S, g)
  PROVE  IF S = {} THEN Sum(rc, S) = 0
         ELSE LET x == CHOOSE y \in S : TRUE IN Sum(rc, S) = Pixel[x][rc] + Sum(rc, S \ {x})
<1>0. PICK g : IsSum(rc, S, g) /\ g = CHOOSE f : IsSum(rc, S, f)
  OBVIOUS
<1>1. IsSum(rc, S, g)
  BY <1>0
<1>2. Sum(rc, S) = OneStep(rc, g, S)
  <2>1. g[S] = OneStep(rc, g, S)
    BY <1>1 DEF IsSum
  <2> QED BY <1>0, <2>1, SumIsChosen
<1>3. CASE S = {}
  BY <1>2, <1>3 DEF OneStep
<1>4. CASE S # {}
  <2>1. PICK x \in S : x = CHOOSE y \in S : TRUE
    BY <1>4
  <2>2. PICK T \in SUBSET S : T = S \ {x}
    OBVIOUS
  <2>3. PICK h : IsSum(rc, T, h) /\ h[T] = g[T]
    BY <1>1, SumsRestrict
  <2>4. h = CHOOSE f : IsSum(rc, T, f)
    <3>1. PICK k : k = (CHOOSE f : IsSum(rc, T, f)) /\ IsSum(rc, T, k)
      BY <2>3
    <3>2. T \in Sets(rc)
      BY <2>2, SubsetsToo
    <3> QED BY <2>3, <3>1, <3>2, SumsAgree
  <2>5. Sum(rc, T) = g[T]
    BY <2>3, <2>4, SumIsChosen
  <2> QED BY <1>2, <1>4, <2>1, <2>2, <2>5 DEF OneStep
<1> QED BY <1>3, <1>4

LEMMA SumsExist ==
  ASSUME NEW rc, NEW S \in Sets(rc)
  PROVE  \E g : IsSum(rc, S, g)
<1> DEFINE B == {s \in Sets(rc) : ~\E g : IsSum(rc, s, g)}
<1>1. CASE B # {}
  <2>1. PICK m \in B : \A t \in B : ~(t \subseteq m /\ t # m)
    <3>1. B \subseteq Sets(rc)
      OBVIOUS
    <3> HIDE DEF B
    <3> QED BY <1>1, <3>1, LeastSet
  <2>2. m \in Sets(rc) /\ ~\E g : IsSum(rc, m, g)
    BY <2>1
  <2>3. ASSUME NEW t \in SUBSET m, t # m PROVE t \in Sets(rc) /\ \E g : IsSum(rc, t, g)
    BY <2>1, <2>2, <2>3, SubsetsToo
  <2> HIDE DEF B
  <2> DEFINE f == [s \in SUBSET m |-> Sum(rc, s)]
             G == [f EXCEPT ![m] = OneStep(rc, f, m)]
  <2>4. G[m] = OneStep(rc, f, m) /\ \A s \in SUBSET m : s # m => G[s] = Sum(rc, s)
    OBVIOUS
  <2>5. ASSUME NEW s \in SUBSET m PROVE G[s] = OneStep(rc, G, s)
    <3>1. CASE s = {}
      <4>1. CASE m = {}
        BY <2>4, <3>1, <4>1 DEF OneStep
      <4>2. CASE m # {}
        <5>1. Sum(rc, s) = 0
          BY <2>3, <3>1, <4>2, SumUnfolds
        <5> QED BY <2>4, <3>1, <4>2, <5>1 DEF OneStep
      <4> QED BY <4>1, <4>2
    <3>2. CASE s # {}
      <4>1. PICK x \in s : x = CHOOSE y \in s : TRUE
        BY <3>2
      <4>2. s \ {x} \in SUBSET m /\ s \ {x} # m
        BY <4>1
      <4>3. OneStep(rc, G, s) = Pixel[x][rc] + Sum(rc, s \ {x})
        <5>1. G[s \ {x}] = Sum(rc, s \ {x})
          BY <2>4, <4>2
        <5> HIDE DEF G
        <5> QED BY <3>2, <4>1, <5>1 DEF OneStep
      <4>4. CASE s = m
        <5>1. f[s \ {x}] = Sum(rc, s \ {x})
          BY <4>2
        <5> HIDE DEF f
        <5>2. OneStep(rc, f, m) = Pixel[x][rc] + Sum(rc, s \ {x})
          BY <3>2, <4>1, <4>4, <5>1 DEF OneStep
        <5> QED BY <2>4, <4>3, <4>4, <5>2
      <4>5. CASE s # m
        <5>1. Sum(rc, s) = Pixel[x][rc] + Sum(rc, s \ {x})
          BY <2>3, <3>2, <4>1, <4>5, SumUnfolds
        <5> QED BY <2>4, <4>3, <4>5, <5>1
      <4> QED BY <4>4, <4>5
    <3> QED BY <3>1, <3>2
  <2>6. G = [s \in SUBSET m |-> G[s]]
    OBVIOUS
  <2> HIDE DEF G
  <2>7. IsSum(rc, m, G)
    BY <2>5, <2>6 DEF IsSum
  <2> QED BY <2>2, <2>7
<1>2. CASE B = {}
  BY <1>2
<1> QED BY <1>1, <1>2

\* The sum over no images, and over some of them.
LEMMA SumSteps ==
  ASSUME NEW rc, NEW S \in Sets(rc)
  PROVE  /\ S = {} => Sum(rc, S) = 0
         /\ S # {} => \E x \in S : Sum(rc, S) = Pixel[x][rc] + Sum(rc, S \ {x})
<1>1. \E g : IsSum(rc, S, g)
  BY SumsExist
<1>2. CASE S = {}
  BY <1>1, <1>2, SumUnfolds
<1>3. CASE S # {}
  <2>1. PICK x \in S : x = CHOOSE y \in S : TRUE
    BY <1>3
  <2> QED BY <1>1, <1>3, <2>1, SumUnfolds
<1> QED BY <1>2, <1>3

LEMMA PixelType ==
  ASSUME NEW rc, NEW S \in Sets(rc), NEW i \in S
  PROVE  Pixel[i][rc] \in Nat
<1>1. i \in Image /\ rc \in DOMAIN Pixel[i]
  BY DEF Sets, FiniteSubsetsOf, Reaching
<1>2. Pixel[i] \in [(1..Height[i]) \X (1..Width[i]) -> 0..(Depth - 1)] /\ Depth \in Nat \ {0}
  BY <1>1, ImageAssumption
<1>3. Pixel[i][rc] \in 0..(Depth - 1)
  BY <1>1, <1>2
<1> QED BY <1>2, <1>3

LEMMA SumType ==
  ASSUME NEW rc, NEW S \in Sets(rc)
  PROVE  Sum(rc, S) \in Nat
<1> DEFINE B == {s \in Sets(rc) : Sum(rc, s) \notin Nat}
<1>1. CASE B # {}
  <2>1. PICK m \in B : \A t \in B : ~(t \subseteq m /\ t # m)
    <3>1. B \subseteq Sets(rc)
      OBVIOUS
    <3> HIDE DEF B
    <3> QED BY <1>1, <3>1, LeastSet
  <2>2. m # {}
    BY <2>1, SumSteps
  <2>3. PICK x \in m : Sum(rc, m) = Pixel[x][rc] + Sum(rc, m \ {x})
    BY <2>1, <2>2, SumSteps
  <2>4. m \ {x} \in Sets(rc) /\ m \ {x} \subseteq m /\ m \ {x} # m
    BY <2>1, <2>3, SubsetsToo
  <2>5. Sum(rc, m \ {x}) \in Nat
    BY <2>1, <2>4
  <2>6. Pixel[x][rc] \in Nat
    BY <2>1, <2>3, PixelType
  <2> QED BY <2>1, <2>3, <2>5, <2>6
<1> QED BY <1>1

\* Any image may be taken out first.
LEMMA AnyFirst ==
  ASSUME NEW rc, NEW S \in Sets(rc), NEW i \in S
  PROVE  Sum(rc, S) = Pixel[i][rc] + Sum(rc, S \ {i})
<1> DEFINE B == {s \in Sets(rc) : \E j \in s : Sum(rc, s) # Pixel[j][rc] + Sum(rc, s \ {j})}
<1>1. CASE B # {}
  <2>1. PICK m \in B : \A t \in B : ~(t \subseteq m /\ t # m)
    <3>1. B \subseteq Sets(rc)
      OBVIOUS
    <3> HIDE DEF B
    <3> QED BY <1>1, <3>1, LeastSet
  <2>2. m \in Sets(rc)
    BY <2>1
  <2>3. PICK j \in m : Sum(rc, m) # Pixel[j][rc] + Sum(rc, m \ {j})
    BY <2>1
  <2>4. ASSUME NEW t \in SUBSET m, t # m, NEW k \in t
        PROVE  t \in Sets(rc) /\ Sum(rc, t) = Pixel[k][rc] + Sum(rc, t \ {k})
    BY <2>1, <2>2, <2>4, SubsetsToo
  <2> HIDE DEF B
  <2>5. PICK x \in m : Sum(rc, m) = Pixel[x][rc] + Sum(rc, m \ {x})
    BY <2>2, <2>3, SumSteps
  <2>6. x # j
    BY <2>3, <2>5
  <2>7. PICK t : t = m \ {x, j} /\ t = (m \ {x}) \ {j} /\ t = (m \ {j}) \ {x} /\ t \in Sets(rc)
    BY <2>2, SubsetsToo
  <2>8. Sum(rc, m \ {x}) = Pixel[j][rc] + Sum(rc, t)
    BY <2>4, <2>5, <2>6, <2>7
  <2>9. Sum(rc, m \ {j}) = Pixel[x][rc] + Sum(rc, t)
    BY <2>3, <2>4, <2>6, <2>7
  <2>10. Pixel[x][rc] \in Nat /\ Pixel[j][rc] \in Nat /\ Sum(rc, t) \in Nat
    BY <2>2, <2>7, PixelType, SumType
  <2> QED BY <2>3, <2>5, <2>8, <2>9, <2>10
<1> QED BY <1>1

\* One more image adds what it holds.
LEMMA OneMore ==
  ASSUME NEW rc, NEW S \in Sets(rc), NEW i \in Image, i \notin S, rc \in DOMAIN Pixel[i]
  PROVE  S \cup {i} \in Sets(rc) /\ Sum(rc, S \cup {i}) = Sum(rc, S) + Pixel[i][rc]
<1>1. S \cup {i} \in Sets(rc)
  BY FS_AddElement DEF Sets, FiniteSubsetsOf, Reaching
<1>2. (S \cup {i}) \ {i} = S
  OBVIOUS
<1>3. Sum(rc, S \cup {i}) = Pixel[i][rc] + Sum(rc, S)
  BY <1>1, <1>2, AnyFirst
<1>4. Pixel[i][rc] \in Nat /\ Sum(rc, S) \in Nat
  BY <1>1, PixelType, SumType
<1> QED BY <1>1, <1>3, <1>4

-----------------------------------------------------------------------------
(* The canvas.                                                             *)

\* Rows first, as np.zeros has it.
Rectangle(shape) == (1..shape.height) \X (1..shape.width)

CanvasTypes ==
  /\ canvas # None => canvas \in [Rectangle(client) -> Nat]
  /\ result # None => canvas = None
  /\ added \in FiniteSubsetsOf(Image)

\* The inductive invariant.
CanvasInv == CanvasTypes /\ SumOfImages /\ ResultShowsSum

LEMMA SumAtIsSum == \A rc : SumAt(rc) = Sum(rc, Reaching(rc, added))
BY DEF SumAt, Sum, Reaching

LEMMA NextSumAtIsSum == \A rc : SumAt(rc)' = Sum(rc, Reaching(rc, added'))
<1>1. (\A rc : SumAt(rc) = Sum(rc, Reaching(rc, added)))'
  BY SumAtIsSum, PTL
<1> QED BY <1>1 DEF Reaching

LEMMA ReachingSets ==
  ASSUME NEW rc, NEW images \in FiniteSubsetsOf(Image)
  PROVE  Reaching(rc, images) \in Sets(rc)
<1>1. Reaching(rc, images) \subseteq images
  BY DEF Reaching
<1>2. IsFiniteSet(Reaching(rc, images))
  BY <1>1, FS_Subset DEF FiniteSubsetsOf
<1> QED BY <1>2 DEF Reaching, Sets, FiniteSubsetsOf

\* Laying an image adds to the pixels it has in common with the canvas.
LEMMA LaidType ==
  ASSUME NEW R, canvas \in [R -> Nat], NEW i \in Image
  PROVE  Laid(i) \in [R -> Nat]
<1>1. ASSUME NEW rc \in DOMAIN Pixel[i] PROVE Pixel[i][rc] \in Nat
  <2>1. Pixel[i] \in [(1..Height[i]) \X (1..Width[i]) -> 0..(Depth - 1)] /\ Depth \in Nat \ {0}
    BY ImageAssumption
  <2>2. Pixel[i][rc] \in 0..(Depth - 1)
    BY <2>1
  <2> QED BY <2>1, <2>2
<1>2. ASSUME NEW rc \in R
      PROVE  (IF rc \in DOMAIN Pixel[i] THEN canvas[rc] + Pixel[i][rc] ELSE canvas[rc]) \in Nat
  BY <1>1
<1> QED BY <1>2 DEF Laid

\* SIFlow names the height width, and np.zeros takes the width for the rows.
LEMMA ZerosType ==
  ASSUME NEW shape
  PROVE  /\ Zeros(FlowArguments(shape)) \in [Rectangle(shape) -> Nat]
         /\ \A rc \in Rectangle(shape) : Zeros(FlowArguments(shape))[rc] = 0
BY DEF Zeros, FlowArguments, Rectangle

LEMMA InitSessionKeeps ==
  ASSUME CanvasInv, NEW shape \in Shape, InitSession(shape)
  PROVE  CanvasInv'
<1>1. /\ canvas' \in [Rectangle(client') -> Nat] /\ \A rc \in DOMAIN canvas' : canvas'[rc] = 0
      /\ added' = {} /\ result' = None
  BY ZerosType DEF InitSession
<1>2. added' \in FiniteSubsetsOf(Image)
  BY <1>1, FS_EmptySet DEF FiniteSubsetsOf
<1>3. ASSUME NEW rc PROVE SumAt(rc)' = 0
  <2>1. Reaching(rc, added') = {}
    BY <1>1 DEF Reaching
  <2>2. Reaching(rc, added') \in Sets(rc)
    BY <1>2, ReachingSets
  <2> QED BY <2>1, <2>2, NextSumAtIsSum, SumSteps
<1> QED BY <1>1, <1>2, <1>3 DEF CanvasInv, CanvasTypes, Rectangle, SumOfImages, ResultShowsSum

LEMMA ProcessMessageKeeps ==
  ASSUME CanvasInv, NEW i \in Image, ProcessMessage(i)
  PROVE  CanvasInv'
<1>1. /\ canvas # None /\ i \notin added /\ canvas' = Laid(i) /\ added' = added \cup {i}
      /\ client' = client /\ result' = result /\ result = None
      /\ canvas \in [Rectangle(client) -> Nat] /\ added \in FiniteSubsetsOf(Image)
  BY DEF ProcessMessage, CanvasInv, CanvasTypes
<1>2. canvas' \in [Rectangle(client) -> Nat] /\ DOMAIN canvas' = DOMAIN canvas
  BY <1>1, LaidType DEF Laid
<1>3. added' \in FiniteSubsetsOf(Image)
  BY <1>1, FS_AddElement DEF FiniteSubsetsOf
<1>4. ASSUME NEW rc \in DOMAIN canvas PROVE canvas'[rc] = SumAt(rc)'
  <2>1. canvas[rc] = Sum(rc, Reaching(rc, added))
    BY <1>1, SumAtIsSum DEF CanvasInv, SumOfImages
  <2>2. CASE rc \in DOMAIN Pixel[i]
    <3>1. Reaching(rc, added') = Reaching(rc, added) \cup {i} /\ i \notin Reaching(rc, added)
      BY <1>1, <2>2 DEF Reaching
    <3>2. Reaching(rc, added) \in Sets(rc)
      BY <1>1, ReachingSets
    <3>3. Sum(rc, Reaching(rc, added')) = Sum(rc, Reaching(rc, added)) + Pixel[i][rc]
      BY <2>2, <3>1, <3>2, OneMore
    <3> QED BY <1>1, <2>1, <2>2, <3>3, NextSumAtIsSum DEF Laid
  <2>3. CASE rc \notin DOMAIN Pixel[i]
    <3>1. Reaching(rc, added') = Reaching(rc, added)
      BY <1>1, <2>3 DEF Reaching
    <3> QED BY <1>1, <2>1, <2>3, <3>1, NextSumAtIsSum DEF Laid
  <2> QED BY <2>2, <2>3
<1> QED
  BY <1>1, <1>2, <1>3, <1>4 DEF CanvasInv, CanvasTypes, Rectangle, SumOfImages, ResultShowsSum

\* A byte shows the sum that it can hold, and never more.
LEMMA BytesShow ==
  ASSUME NEW sum \in Nat, NEW byte \in Bytes(sum)
  PROVE  byte <= sum /\ (sum < Depth => byte = sum)
<1>1. Depth \in Nat \ {0}
  BY ImageAssumption
<1>2. sum % Depth \in 0..(Depth - 1)
  BY <1>1
<1> QED BY <1>1, <1>2 DEF Bytes

LEMMA ClearSessionKeeps ==
  ASSUME CanvasInv, ClearSession
  PROVE  CanvasInv'
<1>1. /\ canvas # None /\ canvas' = None /\ added' = added
      /\ canvas \in [Rectangle(client) -> Nat] /\ added \in FiniteSubsetsOf(Image)
      /\ DOMAIN result' = DOMAIN canvas
      /\ \A rc \in DOMAIN canvas : result'[rc] \in Bytes(canvas[rc])
  BY DEF ClearSession, CanvasInv, CanvasTypes
<1>2. ASSUME NEW rc \in DOMAIN result'
      PROVE  result'[rc] <= SumAt(rc)' /\ (SumAt(rc)' < Depth => result'[rc] = SumAt(rc)')
  <2>1. canvas[rc] = SumAt(rc)' /\ canvas[rc] \in Nat
    BY <1>1, SumAtIsSum, NextSumAtIsSum DEF CanvasInv, SumOfImages
  <2> QED BY <1>1, <2>1, BytesShow
<1> QED BY <1>1, <1>2 DEF CanvasInv, CanvasTypes, SumOfImages, ResultShowsSum

LEMMA CanvasInit == Init => CanvasInv
BY FS_EmptySet DEF Init, CanvasInv, CanvasTypes, SumOfImages, ResultShowsSum, FiniteSubsetsOf

LEMMA CanvasStep == CanvasInv /\ [Next]_vars => CanvasInv'
<1>1. CanvasInv /\ UNCHANGED vars => CanvasInv'
  BY SumAtIsSum, NextSumAtIsSum
  DEF vars, CanvasInv, CanvasTypes, Rectangle, SumOfImages, ResultShowsSum
<1> QED BY <1>1, InitSessionKeeps, ProcessMessageKeeps, ClearSessionKeeps DEF Next

\* The canvas is the sum of the images of the session, each of them once, whatever
\* their number, their sizes and their order (process_message of both processors).
THEOREM CanvasIsTheSum == Spec => []SumOfImages
BY CanvasInit, CanvasStep, PTL DEF Spec, CanvasInv

\* The result shows exactly the sum where a byte can hold it, and nowhere more than
\* the sum.  What a byte shows of a larger sum -- its remainder, or the largest byte --
\* astype leaves to the build, and so does Bytes.
THEOREM ResultIsTheSum == Spec => []ResultShowsSum
BY CanvasInit, CanvasStep, PTL DEF Spec, CanvasInv

\* An image of the shape the client declared is laid on the canvas whole: SIFlow
\* swaps height and width, the accumulator swaps them back.
THEOREM CanvasHasTheShape == Spec => []NothingIsCutOff
<1>1. CanvasInv => NothingIsCutOff
  BY DEF CanvasInv, CanvasTypes, NothingIsCutOff, Rectangle
<1> QED
  BY <1>1, CanvasInit, CanvasStep, PTL DEF Spec

=============================================================================
