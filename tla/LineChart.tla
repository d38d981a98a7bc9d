------------------------------ MODULE LineChart ------------------------------
(***************************************************************************)
(* The arithmetic of the page's charts                                     *)
(* (dashboard/public/js/chart-engine.js).  Values are whole numbers; the   *)
(* vertical axis is in thousandths of one, which the code's factors 0.8    *)
(* and 1.15 and the division of the range by 5 leave whole.  A horizontal  *)
(* position is in steps of one point from the left edge of the plot.       *)
(***************************************************************************)
EXTENDS Integers, Sequences, FiniteSets, FiniteSetsExt

CONSTANTS
  maxPoints,
  thresholds       \* the values, in thousandths, at which a dashed line is drawn

ASSUME ChartAssumption ==
  /\ maxPoints \in Nat /\ maxPoints > 1
  /\ thresholds \subseteq Nat

\* Mutant: the oldest value is dropped too late.
PushLate(data, value) ==
  LET longer == Append(data, value)
  IN  IF Len(longer) > maxPoints + 1 THEN Tail(longer) ELSE longer

Push(data, value) ==
  LET longer == Append(data, value)
  IN  IF Len(longer) > maxPoints THEN Tail(longer) ELSE longer

Greater(a, b) == IF a > b THEN a ELSE b
Lesser(a, b) == IF a < b THEN a ELSE b

Values(data) == {data[i] : i \in DOMAIN data}

YRange(data) ==
  LET lowest == Greater(0, 800 * Min(Values(data)))
  IN  [yMin |-> lowest, yMax |-> Greater(1150 * Max(Values(data)), lowest + 1000)]

Magnitudes == {1, 10, 100, 1000, 10000, 100000, 1000000, 10000000, 100000000}

\* Bound: the values whose range, divided by 5, Magnitudes reach.
MaxValue == 4000000

\* Mutant: the steps do not go up to the next power of ten.
SmallStep(rawStep) ==
  LET magnitude == Max({p \in Magnitudes : p <= rawStep})
      fitting == {step \in {magnitude, 2 * magnitude, 5 * magnitude} : rawStep <= step}
  IN  IF fitting = {} THEN magnitude ELSE Min(fitting)

\* The least of 1, 2, 5 or 10 times the power of ten that is not below the raw step.
NiceStep(rawStep) ==
  LET magnitude == Max({p \in Magnitudes : p <= rawStep})
  IN  Min({step \in {magnitude, 2 * magnitude, 5 * magnitude, 10 * magnitude} : rawStep <= step})

\* _niceGridLines, for five lines: the multiples of the step between the edges.
NiceGridLines(yMin, yMax) ==
  LET step == NiceStep((yMax - yMin) \div 5)
      first == (yMin + step - 1) \div step
  IN  {step * k : k \in first..yMax \div step}

\* render: what is drawn, once there are two values.  How the points are joined and coloured
\* is left out.
Render(data) ==
  LET y == YRange(data) IN
  [yMin |-> y.yMin, yMax |-> y.yMax,
   grid |-> NiceGridLines(y.yMin, y.yMax),
   thresholds |-> {t \in thresholds : t >= y.yMin /\ t <= y.yMax},
   points |-> [i \in DOMAIN data |-> [x |-> i - 1 + (maxPoints - Len(data)), y |-> 1000 * data[i]]]]

\* Every point of a drawn chart lies in the plot, the newest on its right edge.
InPlot(data) ==
  LET drawing == Render(data) IN
  /\ \A i \in DOMAIN data :
       /\ drawing.points[i].x \in 0..maxPoints - 1
       /\ drawing.points[i].y >= drawing.yMin /\ drawing.points[i].y <= drawing.yMax
  /\ drawing.points[Len(data)].x = maxPoints - 1

\* The grid is readable whatever the range: two to six lines, all between the edges.
ReadableGrid(data) ==
  LET drawing == Render(data) IN
  /\ Cardinality(drawing.grid) \in 2..6
  /\ \A line \in drawing.grid : line >= drawing.yMin /\ line <= drawing.yMax

=============================================================================
