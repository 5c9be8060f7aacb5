------------------------------ MODULE CronDays ------------------------------
(***************************************************************************)
(* The days a cron expression stands for and the days APScheduler fires it *)
(* on (adapters/input/scheduler/scheduler_adapter.py: build_trigger,       *)
(* _convert_day_of_week; domain/value_objects/cron_expression.py).         *)
(*                                                                         *)
(* A field of days of the week is a set of items, each a number or a range *)
(* of numbers that may go past the end of the week (5-1); the day of the   *)
(* month is a set of days or `*`, All. Steps, `#` and `L` are not          *)
(* modelled, nor fields that are the same in both; a name is its number.   *)
(***************************************************************************)
EXTENDS Naturals

CONSTANTS
    Date,  \* days of the month
    All    \* the field `*`

Item == {i \in [lo : 0..7, hi : 0..7, range : BOOLEAN] : i.range \/ i.lo = i.hi}
DowField == {{i, j} : i, j \in Item} \cup {All}  \* bound: two items
DomField == (SUBSET Date \ {{}}) \cup {All}

(* Assumed of the constants, by the modules that give them values. *)
CronAssumption ==
    /\ \A i, j \in Item : {i, j} # All
    /\ \A S \in SUBSET Date : S # All

(* Days of the week, by their number in cron: 0 is Sunday. *)
Dow == 0..6

VARIABLES
    expression,  \* the runner's cron expression, its two fields of days
    added,       \* whether add_job() was called for it
    fires        \* <<date, dow>> its job fires on; {} where there is no job

cronVars == <<expression, added, fires>>

-----------------------------------------------------------------------------

CronTypeOK ==
    /\ expression \in [dom : DomField, dow : DowField]
    /\ added \in BOOLEAN
    /\ fires \subseteq Date \X Dow

(* What croniter reads in an item, 7 being Sunday too: a range that ends   *)
(* before it begins goes on past the end of the week, and one that ends on *)
(* the day it begins on is the whole week. So in a field ...               *)
MeantBy(i) ==
    LET first == i.lo % 7
        last == i.hi % 7 IN
    {w \in Dow : CASE ~i.range -> w = first
                  [] i.range /\ first < last -> first <= w /\ w <= last
                  [] OTHER -> first <= w \/ w <= last}

Meant(dow) == IF dow = All THEN Dow ELSE UNION {MeantBy(i) : i \in dow}

(* ... and by both: a day that either allows, where both are restricted.   *)
CronFires(e) ==
    {day \in Date \X Dow :
       LET inDom == e.dom = All \/ day[1] \in e.dom
           inDow == day[2] \in Meant(e.dow) IN
         IF e.dom # All /\ e.dow # All THEN inDom \/ inDow ELSE inDom /\ inDow}

(* Mutant: the number is handed over as it is. *)
Weekday_asis(n) == n % 7

(* A name for each number: APScheduler's own count begins on Monday. *)
Weekday(n) == (n + 6) % 7

Ordered(i) == Weekday(i.lo) <= Weekday(i.hi)

(* CronTrigger refuses a range whose last day comes before its first. *)
Refused(e) == e.dow # All /\ \E i \in e.dow : ~Ordered(i)

Scheduled(dow) ==
    {w \in Dow : dow = All \/ \E i \in dow :
                   Weekday(i.lo) <= (w + 6) % 7 /\ (w + 6) % 7 <= Weekday(i.hi)}

(* build_trigger(): every field must match. A trigger that is refused      *)
(* leaves the runner without a job (add_job has removed the former).       *)
Trigger(e) ==
    IF Refused(e) THEN {}
    ELSE {day \in Date \X Dow : /\ e.dom = All \/ day[1] \in e.dom
                                /\ day[2] \in Scheduled(e.dow)}

CronInit ==
    /\ expression \in [dom : DomField, dow : DowField]
    /\ added = FALSE /\ fires = {}

AddJob ==
    /\ ~added /\ added' = TRUE
    /\ fires' = Trigger(expression)
    /\ UNCHANGED expression

CronNext == AddJob

CronSpec == CronInit /\ [][CronNext]_cronVars

-----------------------------------------------------------------------------

(* A range that goes on from Sunday to Monday: in a week that ends on      *)
(* Sunday it does not go forward (0-3, 5-1, 0-7, 3-3).                     *)
SundayLast(n) == IF n = 0 THEN 7 ELSE n
PastSunday(e) ==
    e.dow # All /\ \E i \in e.dow : i.range /\ SundayLast(i.lo) >= SundayLast(i.hi)

(* The job of a runner never fires on a day its expression does not stand  *)
(* for, and fires on all the days it does, whatever numbers, ranges and    *)
(* lists it has, unless a range goes on from Sunday to Monday (then it is  *)
(* refused, or cut to the one day it begins and ends on), or the day of    *)
(* the month and the day of the week are both restricted (the code asks    *)
(* for both, cron for either) (_convert_day_of_week).                      *)
DaysAgree ==
    added =>
        /\ fires \subseteq CronFires(expression)
        /\ \/ PastSunday(expression)
           \/ expression.dom # All /\ expression.dow # All
           \/ fires = CronFires(expression)
=============================================================================
