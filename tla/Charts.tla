------------------------------- MODULE Charts -------------------------------
(***************************************************************************)
(* The times of a chart: from a preset range or a start and an end to the  *)
(* start, end and step of the queries to Prometheus.  Times are in seconds.*)
(***************************************************************************)
EXTENDS Integers

CONSTANTS
  None,   \* a parameter that is not given
  Bad     \* a time that is neither a number nor a date

Presets == {"15m", "1h", "6h", "24h", "7d"}

(* A range that is no preset is taken for the hour. *)
Seconds(range) ==
  IF range = "15m" THEN 900
  ELSE IF range = "6h" THEN 21600
  ELSE IF range = "24h" THEN 86400
  ELSE IF range = "7d" THEN 604800
  ELSE 3600

(* Mutant: a day has the step of six hours. *)
PresetStepShort(range) ==
  CASE range = "15m" -> 15 [] range \in {"6h", "24h"} -> 300 [] range = "7d" -> 7200 [] OTHER -> 60

PresetStep(range) ==
  IF range = "15m" THEN 15
  ELSE IF range = "6h" THEN 300
  ELSE IF range = "24h" THEN 1200
  ELSE IF range = "7d" THEN 7200
  ELSE 60

StepOf(diff) ==
  IF diff <= 900 THEN 15
  ELSE IF diff <= 3600 THEN 60
  ELSE IF diff <= 21600 THEN 300
  ELSE IF diff <= 86400 THEN 1200
  ELSE IF diff <= 604800 THEN 7200
  ELSE 14400

Or(given, default) == IF given # None THEN given ELSE default

Custom(asked) == asked.start # None /\ asked.end # None

(* One of the times is a number of seconds and the other a date.             *)
Mixed(asked) == Custom(asked) /\ asked.mixed

(* Both times are read as numbers or both as dates.  Times that cannot be    *)
(* make a range of an hour, or of a little more, since the clock is read     *)
(* twice; they are passed on as they came, and Prometheus reads each its way.*)
Lengths(asked) ==
  IF asked.start = Bad \/ asked.end = Bad \/ Mixed(asked) THEN {3600, 3601}
  ELSE {asked.end - asked.start}

(* The parameters a request can be resolved to at a time. *)
Resolved(asked, now) ==
  IF Custom(asked)
  THEN {[start |-> asked.start, end |-> asked.end, step |-> Or(asked.step, StepOf(d))] :
          d \in Lengths(asked)}
  ELSE {[start |-> now - Seconds(asked.range), end |-> now,
         step |-> Or(asked.step, PresetStep(asked.range))]}

(* The intervals of a chart. *)
Intervals(p) == (p.end - p.start) \div p.step

(* What Prometheus refuses: times it cannot read, an end before the start,   *)
(* and more than 11000 points.                                               *)
Refused(p) ==
  \/ p.start = Bad \/ p.end = Bad
  \/ p.end < p.start
  \/ Intervals(p) >= 11000
=============================================================================
