----------------------------- MODULE PlotChart -----------------------------
(***************************************************************************)
(* One plot window (pywisp/widgets/plotchart.py) over the buffers of the   *)
(* data points that its curves show (DataPointBuffer of pywisp/utils.py).  *)
(*                                                                         *)
(* A sample is its time.  A drawn point is a pair: the time it is drawn    *)
(* at, and the samples it stands for (one sample, or the block whose mean  *)
(* or extremes are drawn; the two points of a peak count as one).  The     *)
(* cache of a curve is an alias of its buffer when _downsample has         *)
(* returned its arguments: extending the cache then extends the buffer.    *)
(***************************************************************************)
EXTENDS Integers, Sequences, SequencesExt

CONSTANTS
  Names,    \* the names of the data points
  Method,   \* config['downsamplingMethod']
  MaxStep,  \* bound on the sample step, which follows the user's zoom
  Width,    \* movingWindowWidth
  MaxLen,   \* bound on the samples of a measurement
  Ties,     \* may two samples carry the same time?
  Restarts  \* may the rig set its time back?

Methods == {"subsample", "mean", "peak", "off"}
\* assumed of the constants
ChartAssumption ==
  /\ Method \in Methods
  /\ MaxStep \in Nat \ {0} /\ Width \in Nat /\ MaxLen \in Nat
  /\ Ties \in BOOLEAN /\ Restarts \in BOOLEAN

VARIABLES
  buf,       \* name |-> the times in its DataPointBuffer
  received,  \* name |-> how many samples the rig has sent for it
  curves,    \* plotCurves: the names of the curves, in the order of the dict
  moving,    \* movingWindowEnable
  cache,     \* name |-> sample step and points of the cached curve
  shown,     \* name |-> the points that are drawn
  crash      \* the exception that updateCurves has raised

vars == <<buf, received, curves, moving, cache, shown, crash>>

NoCache == [ds |-> 0, pts |-> <<>>, alias |-> FALSE]
Last1(s) == s[Len(s)]
MaxOf(S) == CHOOSE m \in S : \A k \in S : k <= m

-----------------------------------------------------------------------------
(* The pure parts.                                                         *)

\* bisect.bisect_left, also for a list that is not sorted
BisectLeft(x, v) ==
  LET Search[r \in (0..Len(x)) \X (0..Len(x))] ==
        LET lo == r[1]
            hi == r[2]
            mid == (lo + hi) \div 2
        IN IF lo >= hi THEN lo
           ELSE IF x[mid + 1] < v THEN Search[<<mid + 1, hi>>] ELSE Search[<<lo, mid>>]
  IN Search[<<0, Len(x)>>]

\* a slice x[i:]
Slice(x, i) == SubSeq(x, i + 1, Len(x))

Raw(x) == [i \in 1..Len(x) |-> <<x[i], <<x[i]>>>>]

\* the step is 1 for less than two samples and when no time has passed
Steps(x) == IF Len(x) < 2 \/ x[1] = Last1(x) THEN {1} ELSE 1..MaxStep

\* does _downsample return the lists it is given?
Returns(ds) == ds <= 1 \/ Method = "off"

\* mutant: the remainder of the division is taken off the front
DownsampleEnd(ds, x) ==
  IF Returns(ds) THEN Raw(x)
  ELSE LET n == Len(x) \div ds
           r == Len(x) % ds
       IN [k \in 1..n |-> <<x[r + ds * (k - 1) + (ds \div 2) + 1],
                            SubSeq(x, r + ds * (k - 1) + 1, r + ds * k)>>]

Downsample(ds, x) ==
  CASE Returns(ds) -> Raw(x)
    [] ~Returns(ds) /\ Method = "subsample" ->
         [k \in 1..((Len(x) + ds - 1) \div ds) |-> Raw(x)[ds * (k - 1) + 1]]
    [] OTHER ->
         [k \in 1..(Len(x) \div ds) |->
            <<x[ds * (k - 1) + (ds \div 2) + 1], SubSeq(x, ds * (k - 1) + 1, ds * k)>>]

Cached(n) == IF cache[n].alias THEN Raw(buf[n]) ELSE cache[n].pts

\* mutant: the last cached sample is taken for a new one
AppendFromLast(n, ds) == Slice(buf[n], BisectLeft(buf[n], Last1(Cached(n))[1]))

\* mutant: a cached curve is drawn again as it is
AppendFromEnd(n, ds) == Slice(buf[n], Len(buf[n]))

\* the samples that are not in the cache yet
AppendFrom(n, ds) == Slice(buf[n], BisectLeft(buf[n], Last1(Cached(n))[1]) + 1)

Hit(n, ds) == cache[n].ds = ds

\* the exceptions of _cachedsample
Raises(n, ds) ==
  IF moving \/ ~Hit(n, ds) THEN "none"
  ELSE IF Cached(n) = <<>> THEN "IndexError"
  ELSE IF BisectLeft(buf[n], Last1(Cached(n))[1]) >= Len(buf[n]) THEN "AssertionError"
  ELSE "none"

\* the latest time of the curves that have data, minus the width of the window
FirstX(ns) == MaxOf({Last1(buf[n]) : n \in {m \in ns : buf[m] # <<>>}}) - Width

\* mutant: the window begins after the first sample that is recent enough
WindowOpen(ns, n) == Slice(buf[n], BisectLeft(buf[n], FirstX(ns)) + 1)
Window(ns, n) == Slice(buf[n], BisectLeft(buf[n], FirstX(ns)))

Visible(ns, n) == IF moving THEN Window(ns, n) ELSE buf[n]

-----------------------------------------------------------------------------
(* What one turn of the loop in updateCurves does for curve n.             *)

Drawn(ns, n, ds) ==
  IF ~moving /\ Hit(n, ds) THEN Cached(n) \o Downsample(ds, AppendFrom(n, ds))
  ELSE Downsample(ds, Visible(ns, n))

NewCache(ns, n, ds) ==
  CASE moving -> cache[n]
    [] ~moving /\ Hit(n, ds) -> [cache[n] EXCEPT !.pts = IF cache[n].alias THEN <<>> ELSE Drawn(ns, n, ds)]
    [] OTHER -> [ds |-> ds, alias |-> Returns(ds),
                 pts |-> IF Returns(ds) THEN <<>> ELSE Downsample(ds, buf[n])]

\* cx.extend(ex), when cx is the list of the buffer
NewBuf(n, ds) ==
  IF ~moving /\ Hit(n, ds) /\ cache[n].alias THEN buf[n] \o AppendFrom(n, ds) ELSE buf[n]

\* updateCurves, for these curves in the order of plotCurves: nothing to do without
\* data; an exception leaves the curves after it as they are
UpdateCurves(order) ==
  IF \A n \in ToSet(order) : buf[n] = <<>>
  THEN UNCHANGED <<buf, cache, shown, crash>>
  ELSE \E step \in [ToSet(order) -> 1..MaxStep] :
         LET ns == ToSet(order)
             bad == {i \in 1..Len(order) : Raises(order[i], step[order[i]]) # "none"}
             upto == IF bad = {} THEN Len(order)
                     ELSE (CHOOSE i \in bad : \A j \in bad : i <= j) - 1
             done == {order[i] : i \in 1..upto}
         IN /\ \A n \in ns : step[n] \in Steps(Visible(ns, n))
            /\ buf' = [n \in Names |-> IF n \in done THEN NewBuf(n, step[n]) ELSE buf[n]]
            /\ cache' = [n \in Names |->
                           IF n \in done THEN NewCache(ns, n, step[n]) ELSE cache[n]]
            /\ shown' = [n \in Names |->
                           IF n \in done THEN Drawn(ns, n, step[n]) ELSE shown[n]]
            /\ crash' = IF bad = {} THEN "none"
                        ELSE Raises(order[upto + 1], step[order[upto + 1]])

-----------------------------------------------------------------------------
Up == crash = "none"

\* MainGui.updateData: a frame brings a sample
AddValue(n) ==
  /\ Up /\ received[n] < MaxLen /\ Len(buf[n]) < MaxLen
  /\ \E t \in 0..MaxLen :
       /\ \/ buf[n] = <<>> /\ t = 0
          \/ buf[n] # <<>> /\ t = Last1(buf[n]) + 1
          \/ buf[n] # <<>> /\ t = Last1(buf[n]) /\ Ties
          \/ t = 0 /\ Restarts
       /\ buf' = [buf EXCEPT ![n] = Append(@, t)]
  /\ received' = [received EXCEPT ![n] = @ + 1]
  /\ UNCHANGED <<curves, moving, cache, shown, crash>>

\* MainGui.updateDataPlots, on every tick of the plot timer
Update ==
  /\ Up
  /\ UNCHANGED <<received, curves, moving>>
  /\ UpdateCurves(curves)

\* addCurve: only the new curve is drawn
AddCurve(n) ==
  /\ Up /\ n \notin ToSet(curves)
  /\ curves' = Append(curves, n)
  /\ UNCHANGED <<received, moving>>
  /\ UpdateCurves(<<n>>)

\* mutant: the cache of a removed curve is kept
RemoveCurveOnly(n) ==
  /\ Up /\ \E i \in DOMAIN curves : curves[i] = n /\ curves' = RemoveAt(curves, i)
  /\ shown' = [shown EXCEPT ![n] = <<>>]
  /\ UNCHANGED <<buf, received, moving, cache, crash>>

\* removeCurve
RemoveCurve(n) ==
  /\ Up /\ \E i \in DOMAIN curves : curves[i] = n /\ curves' = RemoveAt(curves, i)
  /\ cache' = [cache EXCEPT ![n] = NoCache]
  /\ shown' = [shown EXCEPT ![n] = <<>>]
  /\ UNCHANGED <<buf, received, moving, crash>>

\* setEnableMovingWindow
SetEnableMovingWindow(on) ==
  /\ Up /\ moving # on
  /\ moving' = on
  /\ UNCHANGED <<buf, received, curves, cache, shown, crash>>

\* startExperiment: new buffers, and updatePlot clears the cache; what was drawn
\* stays until there is data
NewBuffers ==
  /\ Up
  /\ buf' = [n \in Names |-> <<>>]
  /\ received' = [n \in Names |-> 0]
  /\ cache' = [n \in Names |-> NoCache]
  /\ UNCHANGED <<curves, moving, shown, crash>>

\* PlotChart.__init__, whatever the configuration says
NewChart ==
  /\ curves = <<>> /\ shown = [n \in Names |-> <<>>]
  /\ cache = [n \in Names |-> NoCache]
  /\ moving \in BOOLEAN

Init ==
  /\ buf = [n \in Names |-> <<>>]
  /\ received = [n \in Names |-> 0]
  /\ NewChart /\ crash = "none"

Next ==
  \/ \E n \in Names : AddValue(n) \/ AddCurve(n) \/ RemoveCurve(n)
  \/ Update
  \/ \E on \in BOOLEAN : SetEnableMovingWindow(on)
  \/ NewBuffers

Spec == Init /\ [][Next]_vars

-----------------------------------------------------------------------------
Times == 0..MaxLen
Points == Times \X Seq(Times)

\* The types of the variables.
TypeOK ==
  /\ buf \in [Names -> Seq(Times)] /\ received \in [Names -> 0..MaxLen]
  /\ curves \in Seq(Names) /\ IsInjective(curves)
  /\ moving \in BOOLEAN
  /\ \A n \in Names :
       /\ cache[n].ds \in 0..MaxStep /\ cache[n].pts \in Seq(Points)
       /\ cache[n].alias \in BOOLEAN /\ cache[n].alias => cache[n].pts = <<>>
       /\ n \notin ToSet(curves) => cache[n] = NoCache /\ shown[n] = <<>>
  /\ shown \in [Names -> Seq(Points)]
  /\ crash \in {"none", "IndexError", "AssertionError"}

\* Drawing never changes what has been recorded, although the cache may be the
\* very list of the buffer.
RecordKept == \A n \in Names : Len(buf[n]) = received[n]

\* Drawing from the cache never passes over a sample: whatever the zoom has been,
\* each sample up to the last drawn point is in the block of one.
SkipsNothing ==
  \A n \in ToSet(curves) :
    Update /\ Method # "subsample" /\ ~moving /\ crash' = "none"
           /\ shown'[n] # <<>> /\ buf[n] # <<>> =>
      \A i \in 1..Len(buf[n]) :
        buf[n][i] <= Last1(shown'[n])[1] =>
          \E p \in ToSet(shown'[n]) : buf[n][i] \in ToSet(p[2])

\* The cached curve keeps up with the measurement: what the last
\* drawn point leaves is an unfinished block and the rest of its own.
KeepsPace ==
  \A n \in ToSet(curves) :
    Update /\ ~moving /\ crash' = "none" /\ Len(buf[n]) >= cache'[n].ds /\ buf[n] # <<>> =>
      /\ shown'[n] # <<>>
      /\ LET ds == cache'[n].ds
         IN Last1(buf[n]) - Last1(shown'[n])[1] <= 2 * (ds - 1) - (ds \div 2)

\* The moving window shows samples of the last Width only, and where it shows
\* single samples, all of them.
WindowIsExact ==
  \A n \in ToSet(curves) :
    Update /\ moving /\ (\E m \in ToSet(curves) : buf[m] # <<>>) =>
      LET recent == {t \in ToSet(buf[n]) : t >= FirstX(ToSet(curves))}
          drawn == UNION {ToSet(p[2]) : p \in ToSet(shown'[n])}
      IN /\ drawn \subseteq recent
         /\ (\A p \in ToSet(shown'[n]) : Len(p[2]) = 1)
              /\ (shown'[n] = <<>> => Len(Window(ToSet(curves), n)) < 2)
              /\ Method # "subsample" => drawn = recent

-----------------------------------------------------------------------------
(* What a comment or a guide says and the code does not keep.              *)

\* "Updates all curves of the plot with the actual data in the buffers": no
\* exception keeps it from that.
UpdatesAll == crash # "IndexError"

\* The assertion of _cachedsample: assert( len(x) > ix ).
CacheInBuffer == crash # "AssertionError"
=============================================================================
