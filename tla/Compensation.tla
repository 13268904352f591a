--------------------------- MODULE Compensation ---------------------------
(***************************************************************************)
(* calculate_compensation of app/tools/compensation.py, which the model     *)
(* calls as a tool. Service is counted in months, what is due in half       *)
(* months and half yuan: everything the code computes is a whole number of  *)
(* those, and rounding to cents is left out.                                *)
(***************************************************************************)
EXTENDS Naturals

CONSTANT NoAvg   \* local_avg_salary is None

Claim(Service, Salaries, Averages) ==
    [months : Service, salary : Salaries, avg : Averages \cup {NoAvg}, illegal : BOOLEAN]

\* More than three times the local average. Then the years are capped too.
Capped(c) == c.avg # NoAvg /\ c.salary > 3 * c.avg

\* A half month more for less than half a year, a month for half a year or more.
HalfMonths(c) ==
    LET years == c.months \div 12
        rest == c.months % 12
    IN  2 * years + (IF rest >= 6 THEN 2 ELSE IF rest > 0 THEN 1 ELSE 0)

\* Mutant: the cap of twelve months is forgotten.
TotalUncapped(c) ==
    (IF c.illegal THEN 2 ELSE 1) * HalfMonths(c) * (IF Capped(c) THEN 3 * c.avg ELSE c.salary)

Total(c) ==
    LET due == IF Capped(c) /\ HalfMonths(c) > 24 THEN 24 ELSE HalfMonths(c)
        base == IF Capped(c) THEN 3 * c.avg ELSE c.salary
    IN  (IF c.illegal THEN 2 ELSE 1) * due * base
-----------------------------------------------------------------------------
\* What article 47 asks of the figure, said without its formula: service never
\* costs anything, a whole year is worth a month more while there is no cap, a
\* higher salary pays more on either side of three times the average, a capped
\* claim never exceeds twelve months of that, and an unlawful dismissal doubles it
\* (compensation.py:3-7).
SoundFor(c) ==
    LET longer(m) == [c EXCEPT !.months = @ + m]
        month == 2 * (IF c.illegal THEN 2 ELSE 1) * c.salary
    IN  /\ Total(longer(1)) >= Total(c)
        /\ ~Capped(c) => Total(longer(12)) = Total(c) + month
        /\ \A s \in 1..c.salary :
               LET lower == [c EXCEPT !.salary = s]
               IN  Capped(lower) = Capped(c) => Total(lower) <= Total(c)
        /\ Capped(c) => Total(c) <= (IF c.illegal THEN 2 ELSE 1) * 24 * 3 * c.avg
        /\ Total([c EXCEPT !.illegal = TRUE]) = 2 * Total([c EXCEPT !.illegal = FALSE])
        /\ c.months > 0 => Total(c) > 0
=============================================================================
