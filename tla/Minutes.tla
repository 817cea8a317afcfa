------------------------------ MODULE Minutes ------------------------------
(***************************************************************************)
(* What becomes of a duration: commands.Parse reads it, FormatDuration     *)
(* says it back, and planentry.classifyStatus weighs logged minutes        *)
(* against planned ones.  The text is already cut into its digits: hours   *)
(* and minutes are the numbers the two groups of durationPattern spell, 0  *)
(* for a group that is absent.                                             *)
(***************************************************************************)
EXTENDS Integers

CONSTANT MaxInt   \* the largest int of the build

ASSUME MaxIntAssumption == MaxInt \in Nat \ {0}

\* Go's int wraps around.
Wrap(n) == ((n + MaxInt + 1) % (2 * (MaxInt + 1))) - (MaxInt + 1)

\* strconv.Atoi's range error, and "duration must be greater than zero".
Rejected == 0

\* parseDuration: hours*60 + minutes, each of which strconv.Atoi can read.
ParseDuration(hours, minutes) ==
  IF hours > MaxInt \/ minutes > MaxInt THEN Rejected
  ELSE Wrap(Wrap(hours * 60) + minutes)

\* FormatDuration, for minutes that are not negative: "1h30m", "2h", "45m".
\* A part that is not written is 0.
FormatDuration(minutes) ==
  [hours |-> minutes \div 60, minutes |-> minutes % 60]

\* Five per cent, rounded down, but at least a minute.
Tolerance(planned) ==
  LET part == (planned * 5) \div 100 IN IF part < 1 THEN 1 ELSE part

\* Mutant of ClassifyStatus: the bounds themselves are off target.
ClassifyStrictly(planned, logged) ==
  IF planned = 0 THEN "no_plan"
  ELSE LET diff == logged - planned
       IN  IF diff >= Tolerance(planned) THEN "over"
           ELSE IF diff <= -Tolerance(planned) THEN "under"
           ELSE "on_target"

ClassifyStatus(planned, logged) ==
  IF planned = 0 THEN "no_plan"
  ELSE LET diff == logged - planned
       IN  IF diff > Tolerance(planned) THEN "over"
           ELSE IF diff < -Tolerance(planned) THEN "under"
           ELSE "on_target"

=============================================================================
