----------------------------- MODULE ResizeReports -----------------------------
(***************************************************************************)
(* What a master on Windows takes out of each read of ConPTY before anyone *)
(* sees it: the reports of the terminal's size (strip_resize_reports). A   *)
(* character here is the start of a report, ESC [ 8 ; as one, a digit, a   *)
(* semicolon, a t, or anything else.                                       *)
(***************************************************************************)
EXTENDS Integers, Sequences, FiniteSets

CONSTANTS
    MaxText,   \* bound: characters of output
    MaxCuts    \* bound: reads, but for the last

TextChars == {"csi8", "digit", ";", "t", "other"}

VARIABLES
    wrote,    \* history: all that ConPTY wrote and the master read
    cuts,     \* history: the lengths of it at which reads ended
    shown     \* what is broadcast, of all reads

outputVars == <<wrote, cuts, shown>>

OutputInit ==
    /\ wrote = <<>>
    /\ cuts = {}
    /\ shown = <<>>

\* The first position from i on that holds no digit.
AfterDigits(s, i) ==
    CHOOSE j \in i..(Len(s) + 1) :
      /\ \A k \in i..(j - 1) : s[k] = "digit"
      /\ j > Len(s) \/ s[j] # "digit"

HasAt(s, i, c) == i <= Len(s) /\ s[i] = c

\* A mutant: a report may lack its columns.
AfterReportOrRows(s, i) ==
    LET rows == AfterDigits(s, i + 1)
        cols == AfterDigits(s, rows + 1)
    IN  IF /\ HasAt(s, i, "csi8")
           /\ rows > i + 1 /\ HasAt(s, rows, ";")
           /\ HasAt(s, cols, "t")
        THEN cols + 1
        ELSE i

\* resize_report_at: behind the report that starts at i, or i if none does.
AfterReport(s, i) ==
    LET rows == AfterDigits(s, i + 1)
        cols == AfterDigits(s, rows + 1)
    IN  IF /\ HasAt(s, i, "csi8")
           /\ rows > i + 1 /\ HasAt(s, rows, ";")
           /\ cols > rows + 1 /\ HasAt(s, cols, "t")
        THEN cols + 1
        ELSE i

\* strip_resize_reports.
Strip(s) ==
    LET from[i \in 1..(Len(s) + 1)] ==
          IF i > Len(s) THEN <<>>
          ELSE LET next == AfterReport(s, i)
               IN  IF next > i THEN from[next] ELSE <<s[i]>> \o from[i + 1]
    IN  from[1]

\* The reader thread: one read of ConPTY, without its reports. A read that
\* holds nothing else is not broadcast.
ReadOutput(data) ==
    /\ Cardinality(cuts) <= MaxCuts
    /\ wrote' = wrote \o data
    /\ cuts' = cuts \cup {Len(wrote')}
    /\ shown' = shown \o Strip(data)

OutputNext ==
    \E n \in 1..(MaxText - Len(wrote)) :
      \E data \in [1..n -> TextChars] : ReadOutput(data)

OutputSpec == OutputInit /\ [][OutputNext]_outputVars

-----------------------------------------------------------------------------
\* ESC [ 8 ; rows ; cols t, with digits in both places.
IsReport(r) ==
    /\ Len(r) >= 5 /\ r[1] = "csi8" /\ r[Len(r)] = "t"
    /\ \E m \in 3..(Len(r) - 2) :
         /\ r[m] = ";"
         /\ \A k \in (2..(Len(r) - 1)) \ {m} : r[k] = "digit"

\* Where the reports of a text are, as their first and last positions.
Reports(s) ==
    {span \in (1..Len(s)) \X (1..Len(s)) :
       span[2] - span[1] >= 4 /\ IsReport(SubSeq(s, span[1], span[2]))}

\* The text without them.
Without(s) ==
    LET reports == Reports(s)
        keep(i) == \A r \in reports : i \notin r[1]..r[2]
        kept[i \in 0..Len(s)] ==
          IF i = 0 THEN <<>>
          ELSE IF keep(i) THEN Append(kept[i - 1], s[i]) ELSE kept[i - 1]
    IN  kept[Len(s)]

\* Whole reports are dropped from the session's output and nothing else is,
\* wherever it is cut into reads, but for cuts inside of a report: "ConPTY
\* writes each in one piece" (strip_resize_reports; main.rs:512-517).
OnlyReportsAreDropped ==
    (\A r \in Reports(wrote) : \A cut \in cuts : cut \notin r[1]..(r[2] - 1)) =>
      shown = Without(wrote)
=============================================================================
