------------------------------ MODULE Metrics -------------------------------
(***************************************************************************)
(* MetricsManager (utils/metrics/manager.py): the gauge of the websocket   *)
(* connections and the running average of their durations, folded into one *)
(* sample when a counter gets large.  The numerator is a float in the code;*)
(* here it is the fraction num / unit, exactly.                            *)
(***************************************************************************)
EXTENDS Integers

CONSTANT FoldAt     \* 1_000_000 in the code

ASSUME FoldAssumption == FoldAt \in Nat \ {0}

VARIABLES
  gauge,     \* GaugeMetric.gauge of WebsocketConnectionCount
  average,   \* AverageMetric of WebsocketAverageConnectionDuration
  samples    \* history: the durations that were averaged

metricVars == <<gauge, average, samples>>

AverageMetric == [num : Nat, unit : Nat \ {0}, den : Nat]

MetricsInit ==
  /\ gauge = 0
  /\ average = [num |-> 0, unit |-> 1, den |-> 0]
  /\ samples = {}

\* Mutant of UpdateGauge: the value is stored, not added.
StoreGauge(value) == gauge' = value

UpdateGauge(value) == gauge' = gauge + value

\* Mutant of Folded: the numerator keeps the weight of all the samples.
FoldedDenominator(a) == IF a.den >= FoldAt THEN [a EXCEPT !.den = 1] ELSE a

\* "flap metric to not leak memory": numerator / denominator, with weight one.
Folded(a) ==
  IF a.num >= FoldAt * a.unit \/ a.den >= FoldAt
    THEN [a EXCEPT !.unit = @ * a.den, !.den = 1]
    ELSE a

UpdateAverage(numerator) ==
  /\ average' = LET a == Folded(average) IN
                  [a EXCEPT !.num = @ + numerator * a.unit, !.den = @ + 1]
  /\ samples' = samples \cup {numerator}

\* The average that is shown is one of durations there were: folding weighs
\* the samples anew but never takes the value out of their range.
AverageInRange ==
  LET weight == average.unit * average.den IN
  samples # {} =>
    /\ \E low \in samples : low * weight <= average.num
    /\ \E high \in samples : average.num <= high * weight

=============================================================================
