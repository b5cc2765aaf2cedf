------------------------------ MODULE CodeLens ------------------------------
(* Inferred dates above `length` and `duration` (code_lens.c).             *)
(*                                                                         *)
(* The parser stores the date of a `start` or `end` statement on the task  *)
(* on top of its stack of open tasks; a code lens query walks from that    *)
(* date over the length or duration and shows the other end of the task.   *)
(* A document is written statement by statement; what is queried is the    *)
(* text so far with its open bodies closed.  Time is counted in days from  *)
(* 1970-01-01: parse_tjp_date() drops the time of day.                     *)
EXTENDS Integers, Sequences, FiniteSets, SequencesExt

CONSTANTS
  Days,       \* days that `start` and `end` name
  Values,     \* what follows `length` and `duration`: [n, unit, form]
  Bodies,     \* bodies that are written: "task", "supplement"
  MaxTasks,   \* bound: tasks of the document
  MaxSpans    \* bound: `length` and `duration` statements

VARIABLES
  open,      \* open bodies, outermost first: the task, 0 for a supplement's
  start,     \* per task: the day captured from `start`, or NoDate
  end,       \* per task: the day captured from `end`, or NoDate
  spans,     \* the recorded `length` and `duration` keywords: [kw, value, owner]
  written    \* tasks with a `start` or `end` directly in their body

vars == <<open, start, end, spans, written>>

NoDate == -1

\* The open tasks; the owner of a token is the innermost of them.
sym_stack == SelectSeq(open, LAMBDA t : t # 0)

sym_stack_top == IF sym_stack = <<>> THEN 0 ELSE Last(sym_stack)

(***************************************************************************)
(* The value                                                               *)
(***************************************************************************)
\* The span after the keyword.  Numbers are not recorded by emit_plain(), so
\* after a number with a space it is the unit.
ValueSpan(v) == IF v.form = "compact" THEN "TK_DURATION" ELSE "TK_IDENT"

\* Whether a value can be read from the spans.
parse_dur_val_at(v) == ValueSpan(v) \in {"TK_DURATION", "TK_INTEGER", "TK_FLOAT"}

\* Whole days of a `duration`; hours and minutes count for none.
duration_to_calendar_days(v) ==
  CASE v.unit \in {"min", "h"} -> 0
    [] v.unit = "d" -> v.n
    [] v.unit = "w" -> v.n * 7
    [] v.unit = "m" -> v.n * 30
    [] v.unit = "y" -> v.n * 365

Sign(n) == IF n > 0 THEN 1 ELSE IF n < 0 THEN -1 ELSE 0

\* Working days of a `length`; hours and minutes count for one.
length_to_working_days(v) ==
  CASE v.unit \in {"min", "h"} -> Sign(v.n)
    [] v.unit = "d" -> v.n
    [] v.unit = "w" -> v.n * 5
    [] v.unit = "m" -> v.n * 22
    [] v.unit = "y" -> v.n * 260

Abs(n) == IF n < 0 THEN -n ELSE n

(***************************************************************************)
(* The walks                                                               *)
(***************************************************************************)
\* 1970-01-01 was a Thursday.
is_weekend(day) == (day + 4) % 7 \in {0, 6}

\* The first working day from a day on.
Snap(day, direction) ==
  LET k == CHOOSE k \in 0 .. 2 : /\ ~is_weekend(day + k * direction)
                                 /\ \A j \in 0 .. k - 1 : is_weekend(day + j * direction)
  IN day + k * direction

\* In error the day of the base is not counted.
FaultyWorkingDays(base, days, direction) ==
  LET walk[n \in 0 .. days] ==
        IF n = 0 THEN Snap(base, direction) ELSE Snap(walk[n - 1] + direction, direction)
  IN walk[days]
walk_working_days_inclusive(base, days, direction) ==
  IF days <= 0 THEN base
  ELSE LET walk[n \in 1 .. days] ==
             IF n = 1 THEN Snap(base, direction)
             ELSE Snap(walk[n - 1] + direction, direction)
       IN walk[days]

walk_calendar_days_inclusive(base, days, direction) ==
  IF days <= 0 THEN base ELSE base + direction * (days - 1)

InferredDate(kw, v, base, direction) ==
  IF kw = "duration"
  THEN walk_calendar_days_inclusive(base, Abs(duration_to_calendar_days(v)), direction)
  ELSE walk_working_days_inclusive(base, Abs(length_to_working_days(v)), direction)

\* The title of a lens: from the start if there is one, else from the end.
format_inferred_date_title(s) ==
  IF start[s.owner] # NoDate
  THEN [arrow |-> "ends", base |-> start[s.owner],
        date |-> InferredDate(s.kw, s.value, start[s.owner], 1)]
  ELSE [arrow |-> "starts", base |-> end[s.owner],
        date |-> InferredDate(s.kw, s.value, end[s.owner], -1)]

HasLens(s) ==
  /\ s.owner # 0
  /\ start[s.owner] # NoDate \/ end[s.owner] # NoDate
  /\ parse_dur_val_at(s.value)
  /\ s.value.n # 0

\* The lenses of the document, each with its keyword.
build_code_lens_json == {s \in spans : HasLens(s)}

(***************************************************************************)
(* Writing                                                                 *)
(***************************************************************************)
Init ==
  /\ open = <<>>
  /\ start = <<>>
  /\ end = <<>>
  /\ spans = {}
  /\ written = {}

\* `task id "name" {`
OpenTask ==
  /\ "task" \in Bodies
  /\ Len(start) < MaxTasks
  /\ start' = Append(start, NoDate)
  /\ end' = Append(end, NoDate)
  /\ open' = Append(open, Len(start) + 1)
  /\ UNCHANGED <<spans, written>>

\* `supplement task id {`: no node, and nothing is pushed.
OpenSupplement ==
  /\ "supplement" \in Bodies
  /\ open # <<>> /\ Last(open) # 0
  /\ open' = Append(open, 0)
  /\ UNCHANGED <<start, end, spans, written>>

CloseBody ==
  /\ open # <<>>
  /\ open' = Front(open)
  /\ UNCHANGED <<start, end, spans, written>>

WriteDirectly == written' = IF open # <<>> /\ Last(open) # 0 THEN written \cup {Last(open)} ELSE written

\* `start <date>`
StartStmt(day) ==
  /\ start' = IF sym_stack_top = 0 THEN start ELSE [start EXCEPT ![sym_stack_top] = day]
  /\ WriteDirectly
  /\ UNCHANGED <<open, end, spans>>

\* `end <date>`
EndStmt(day) ==
  /\ end' = IF sym_stack_top = 0 THEN end ELSE [end EXCEPT ![sym_stack_top] = day]
  /\ WriteDirectly
  /\ UNCHANGED <<open, start, spans>>

\* `length <value>`, `duration <value>`; the owner is the innermost task
\* around the keyword.
SpanStmt(kw, v) ==
  /\ Cardinality(spans) < MaxSpans
  /\ spans' = spans \cup {[kw |-> kw, value |-> v,
                          owner |-> IF sym_stack = <<>> THEN 0 ELSE Last(sym_stack)]}
  /\ UNCHANGED <<open, start, end, written>>

Next ==
  \/ OpenTask
  \/ OpenSupplement
  \/ CloseBody
  \/ \E day \in Days : StartStmt(day) \/ EndStmt(day)
  \/ \E v \in Values, kw \in {"length", "duration"} : SpanStmt(kw, v)

Spec == Init /\ [][Next]_vars

(***************************************************************************)
(* Properties                                                              *)
(***************************************************************************)
\* The working days of an interval, given by its ends in either order.
WorkingDays(a, b) == {d \in (IF a <= b THEN a .. b ELSE b .. a) : ~is_weekend(d)}

\* The date of a lens is the last day counted by format_inferred_date_title():
\* a `length` of n working days covers exactly n of them and ends on one, a
\* `duration` of n days covers n days, and one of hours stays on its day.
DateCoversValue ==
  \A s \in build_code_lens_json :
    LET t == format_inferred_date_title(s)
        n == Abs(IF s.kw = "length" THEN length_to_working_days(s.value)
                                    ELSE duration_to_calendar_days(s.value))
    IN /\ (t.arrow = "ends") => t.date >= t.base
       /\ (t.arrow = "starts") => t.date <= t.base
       /\ s.kw = "length" => Cardinality(WorkingDays(t.base, t.date)) = n /\ ~is_weekend(t.date)
       /\ s.kw = "duration" => IF n = 0 THEN t.date = t.base ELSE Abs(t.date - t.base) + 1 = n

\* The two walks agree: the end that a lens shows for a task that starts on a
\* working day would show that day as the start if it were written instead.
EndsAreInverse ==
  \A s \in build_code_lens_json :
    LET t == format_inferred_date_title(s)
    IN ~is_weekend(t.base) =>
         InferredDate(s.kw, s.value, t.date, IF t.arrow = "ends" THEN -1 ELSE 1) = t.base

\* Of the values in the compact form (`length 5d`), a lens stands on exactly those
\* other than zero of tasks with a `start` or `end` of their own: not their
\* parent's or their child's, and before or after the keyword.  Of a value with a
\* space (`length 5 d`) it says nothing: code_lens.h and parse_dur_val_at() mean
\* it to have a lens as well, but the lexer records no span for its number.
LensIffOwnEndpoint ==
  \A s \in spans : s.value.form = "compact" =>
    (s \in build_code_lens_json <=> s.owner \in written /\ s.value.n # 0)
=============================================================================
