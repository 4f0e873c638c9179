-------------------------------- MODULE Charts ---------------------------------
(***************************************************************************)
(* The drawings of AdminWidgets.tsx: what LineChart and BarChart compute   *)
(* from their data.  A series is a sequence of samples, or Null where the  *)
(* server has recorded none; the samples come in the order of their times, *)
(* so that the abscissa is left out.                                       *)
(***************************************************************************)
EXTENDS Integers, Sequences, SequencesExt

Null == -1
PlotHeight == 12  \* plotH, in any unit

Sampled(s) == {i \in DOMAIN s : s[i] # Null}
Levels(s)  == {s[i] : i \in Sampled(s)}

-----------------------------------------------------------------------------
(* LineChart *)

Lowest(s)  == CHOOSE v \in Levels(s) : \A u \in Levels(s) : v <= u
Highest(s) == CHOOSE v \in Levels(s) : \A u \in Levels(s) : u <= v

\* spanV: never zero.
Span(s) == IF Highest(s) = Lowest(s) THEN 1 ELSE Highest(s) - Lowest(s)

\* yFor, from the bottom of the plot.
Height(s, i) == ((s[i] - Lowest(s)) * PlotHeight) \div Span(s)

\* The loop over the points: where the pen is, whether it draws, and the lines
\* that are drawn.
Pen == [drawing |-> FALSE, at |-> 0, lines |-> {}]

\* Faulty variant: the pen is not lifted where nothing was recorded.
DrawThrough(s, pen, i) ==
    IF s[i] = Null THEN pen
    ELSE [drawing |-> TRUE, at |-> i,
          lines |-> pen.lines \cup (IF pen.drawing THEN {<<pen.at, i>>} ELSE {})]

DrawPoint(s, pen, i) ==
    IF s[i] = Null THEN [pen EXCEPT !.drawing = FALSE]
    ELSE [drawing |-> TRUE, at |-> i,
          lines |-> pen.lines \cup (IF pen.drawing THEN {<<pen.at, i>>} ELSE {})]

Lines(s) ==
    FoldLeft(LAMBDA pen, i : DrawPoint(s, pen, i), Pen, [i \in DOMAIN s |-> i]).lines

-----------------------------------------------------------------------------
(* BarChart *)

\* A chart of zeros has a scale too.
Scale(s) == Highest(Append(s, 1))

\* In percent of the height of the chart.
Bar(s, i) == (s[i] * 100) \div Scale(s)

-----------------------------------------------------------------------------
(* Gauge: the part of the ring that is drawn, in percent. *)

Gauge(percent) == Min({100, Max({0, percent})})

=============================================================================
