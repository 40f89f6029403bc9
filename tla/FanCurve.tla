------------------------------- MODULE FanCurve -------------------------------
(***************************************************************************)
(* The pure part of src/helper/internal/fan/curve.go: what a fan curve is  *)
(* once a payload has been accepted, and the boost it asks for at a        *)
(* temperature.  A curve's side is a sequence of points [temp, boost].     *)
(***************************************************************************)
EXTENDS Integers, SequencesExt

MinTemp == 0
MaxTemp == 110
MinBoost == 0
MaxBoost == 255
MinInterval == 1
MaxInterval == 30
MinHysteresis == 0
MaxHysteresis == 15
MinPoints == 2
MaxPoints == 8

Point(t, b) == [temp |-> t, boost |-> b]

\* What validateSide answers when it returns an error.
Invalid == <<>>

clampInt(v, lo, hi) == IF v < lo THEN lo ELSE IF v > hi THEN hi ELSE v

\* A slip in the dedup loop: of points at one temperature the last one stays.
dedupKeepingLast(out, p) ==
  IF out # <<>> /\ Last(out).temp = p.temp
  THEN [out EXCEPT ![Len(out)].boost = p.boost]
  ELSE Append(out, p)

\* One step of the dedup loop: of points at one temperature the loudest stays.
dedupPoint(out, p) ==
  IF out # <<>> /\ Last(out).temp = p.temp
  THEN [out EXCEPT ![Len(out)].boost = IF p.boost > @ THEN p.boost ELSE @]
  ELSE Append(out, p)

\* One round of sort.SliceStable, which sorts so few points by insertion: each point
\* goes behind the last one that is no hotter.
insertByTemp(out, p) ==
  InsertAt(out, 1 + Max({0} \cup {i \in DOMAIN out : out[i].temp <= p.temp}), p)

\* A slip in normalizePoints: the boosts are not clamped.
normalizeUnclamped(in) ==
  FoldLeft(dedupPoint, <<>>,
           FoldLeft(insertByTemp, <<>>, [i \in DOMAIN in |->
             Point(clampInt(in[i].temp, MinTemp, MaxTemp), in[i].boost)]))

normalizePoints(in) ==
  LET clamped == [i \in DOMAIN in |->
                    Point(clampInt(in[i].temp, MinTemp, MaxTemp),
                          clampInt(in[i].boost, MinBoost, MaxBoost))]
      sorted == FoldLeft(insertByTemp, <<>>, clamped)
  IN  FoldLeft(dedupPoint, <<>>, sorted)

\* A slip in validateSide: counting the points before the duplicates are gone.
validateRawSide(in) ==
  IF Len(in) > MaxPoints \/ Len(in) < MinPoints THEN Invalid
  ELSE normalizePoints(in)

validateSide(in) ==
  IF Len(in) > MaxPoints THEN Invalid
  ELSE LET out == normalizePoints(in)
       IN  IF Len(out) < MinPoints THEN Invalid ELSE out

\* Parse and Normalize: an absent (zero) interval is 2 seconds before the clamp.
Normalize(c) ==
  LET cpu == validateSide(c.cpu)
      gpu == validateSide(c.gpu)
  IN  IF cpu = Invalid \/ gpu = Invalid THEN Invalid
      ELSE [interval |-> clampInt(IF c.interval = 0 THEN 2 ELSE c.interval,
                                  MinInterval, MaxInterval),
            hysteresis |-> clampInt(c.hysteresis, MinHysteresis, MaxHysteresis),
            cpu |-> cpu,
            gpu |-> gpu]

\* math.Round of the non-negative n / d.  The code divides in doubles, which can put
\* an exact half one lower; no property here tells the two apart.
RoundHalfUp(n, d) == (2 * n + d) \div (2 * d)

\* A slip in the interpolation: the slope in whole numbers.
TruncatedLine(a, b, temp) ==
  a.boost + ((b.boost - a.boost) \div (b.temp - a.temp)) * (temp - a.temp)

\* The boost at temp on the line from point a to point b.
Line(a, b, temp) ==
  RoundHalfUp(a.boost * (b.temp - a.temp) + (b.boost - a.boost) * (temp - a.temp),
              b.temp - a.temp)

Interpolate(points, temp) ==
  LET last == Len(points)
      Segments == {i \in 1 .. last - 1 :
                     points[i].temp <= temp /\ temp <= points[i + 1].temp}
  IN  IF last = 0 THEN 0
      ELSE IF temp <= points[1].temp THEN points[1].boost
      ELSE IF temp >= points[last].temp \/ Segments = {} THEN points[last].boost
      ELSE LET i == Min(Segments)
           IN  IF points[i].temp = points[i + 1].temp THEN points[i + 1].boost
               ELSE clampInt(Line(points[i], points[i + 1], temp), MinBoost, MaxBoost)

=============================================================================
