------------------------------ MODULE Readings ------------------------------
(***************************************************************************)
(* Sensor readings (internal/measurement, internal/senml): what a device   *)
(* publishes is written to InfluxDB, and read back as the last reading of  *)
(* each peripheral and as the points of a time window.  One device.        *)
(*                                                                         *)
(* Times are seconds: the resolution of a SenML base time and of the       *)
(* window bounds in the queries.  A value is known by its field and the    *)
(* time it was measured at.  Messages come late, twice, in any order or    *)
(* not at all, and the device's clock need not agree with the server's:    *)
(* HandleReadings may write any time at any moment.  The loops over a      *)
(* query's rows do not ask why the rows ended: a stream that breaks off is *)
(* answered as if it were complete.                                        *)
(*                                                                         *)
(* Operators named after another one with a suffix (ScanAscending, ...)    *)
(* are wrong variants, not in ReadingsNext, to test that the properties    *)
(* notice.  Names that a specification usually has carry a prefix, so that *)
(* InboundProofs can extend this module and Alerts.                        *)
(***************************************************************************)
EXTENDS Integers, FiniteSetsExt

CONSTANTS
  Fields,       \* measurement names
  Peripherals,  \* kind-pin of the device's peripherals
  NsOf,         \* the kind-pin a measurement name begins with
  Wanted,       \* the measurements a chart asks for
  Short, Long,  \* the two lookbacks of QueryLastReadings, in seconds
  MaxRows,      \* rows one of its queries reads
  MaxTime       \* bound of the model: the last second

ASSUME ReadingsAssumption ==
  /\ DOMAIN NsOf = Fields /\ Wanted \subseteq Fields
  /\ MaxTime \in Nat /\ MaxRows \in Nat \ {0}
  /\ Short \in Nat /\ Long \in Nat /\ Short <= Long

Times  == 0..MaxTime
Never  == -1
Points == Times \X Fields

VARIABLES
  now,       \* the server's clock
  points,    \* InfluxDB: the fields with a value at each time
  lookup,    \* GET peripherals: "idle", or "long" after an empty first query
  shown,     \* last_reading in the last answer: the time of each value
  newest,    \* history: the newest value each field was ever shown with
  cut,       \* history: the stream of the last answer broke off
  polled,    \* the end of the last window a chart asked for
  chart,     \* history: the points the chart has got
  again,     \* history: the chart got a point twice
  tardy,     \* history: wanted points written after their window was read
  dropped    \* history: points that a broken stream did not reach

readingsVars ==
  <<now, points, lookup, shown, newest, cut, polled, chart, again, tardy, dropped>>

ReadingsTypeOK ==
  /\ now \in Times /\ polled \in Times
  /\ points \subseteq Points /\ chart \subseteq Points
  /\ tardy \subseteq Points /\ dropped \subseteq Points
  /\ lookup \in {"idle", "long"}
  /\ shown \in [Fields -> Times \cup {Never}] /\ newest \in [Fields -> Times \cup {Never}]
  /\ cut \in BOOLEAN /\ again \in BOOLEAN

ReadingsInit ==
  /\ now = 0 /\ polled = 0
  /\ points = {} /\ chart = {} /\ tardy = {} /\ dropped = {}
  /\ lookup = "idle"
  /\ shown = [f \in Fields |-> Never] /\ newest = shown
  /\ cut = FALSE /\ again = FALSE

Tick ==
  /\ now < MaxTime
  /\ now' = now + 1
  /\ UNCHANGED <<points, lookup, shown, newest, cut, polled, chart, again, tardy, dropped>>

-----------------------------------------------------------------------------
(* fishhub/+/readings: ReadingsMQTTHandler.Handle, ReadingsService.Write *)

(* InfluxDB (external): a point is known by its tags and time; writing it  *)
(* again merges the fields.                                                *)
WritePoints(t, fs) == points' = points \cup ({t} \X fs)

(* A message has a base time (0 is a time of the model, not the missing    *)
(* base time that Parse refuses) and at least one named value.             *)
Parses(fs) == fs # {}

(* A message that cannot be parsed, whose device is not found or whose     *)
(* write fails is logged and gone: the broker has its acknowledgement.     *)
HandleReadings(t, fs) ==
  /\ Parses(fs)
  /\ WritePoints(t, fs)
  /\ tardy' = IF t < polled THEN tardy \cup ({t} \X (fs \cap Wanted)) ELSE tardy
  /\ UNCHANGED <<now, lookup, shown, newest, cut, polled, chart, again, dropped>>

-----------------------------------------------------------------------------
(* GET /api/devices/{id}/peripherals: List, QueryLastReadings *)

Rows == {p[1] : p \in points}

ScanAscending(lookback) ==
  LET recent == {t \in Rows : t >= now - lookback}
  IN  {t \in recent : Cardinality({u \in recent : u < t}) < MaxRows}

(* WHERE time >= now - lookback ORDER BY time DESC LIMIT maxRows: no upper *)
(* bound on the time.                                                      *)
Scan(lookback) ==
  LET recent == {t \in Rows : t >= now - lookback}
  IN  {t \in recent : Cardinality({u \in recent : u > t}) < MaxRows}

(* What iter.Next() gave of rows, newest first, before the stream ended or *)
(* broke off.                                                              *)
Reads(rows) == {read \in SUBSET rows : \A t \in read, u \in rows : u > t => u \in read}

reduceLatestOldest(rows) ==
  [f \in Fields |->
     LET ts == {t \in rows : <<t, f>> \in points}
     IN  IF ts = {} THEN Never ELSE Min(ts)]

(* The first value of each field in rows ordered newest first. *)
reduceLatest(rows) ==
  [f \in Fields |->
     LET ts == {t \in rows : <<t, f>> \in points}
     IN  IF ts = {} THEN Never ELSE Max(ts)]

(* A value is shown with the peripheral whose kind-pin its name begins     *)
(* with.                                                                   *)
filterByNamespace(last) ==
  [f \in Fields |-> IF NsOf[f] \in Peripherals THEN last[f] ELSE Never]

Answer(read, all) ==
  /\ lookup' = "idle"
  /\ shown' = filterByNamespace(reduceLatest(read))
  /\ newest' = [f \in Fields |-> Max({newest[f], shown'[f]})]
  /\ cut' = (read # all)
  /\ UNCHANGED <<now, points, polled, chart, again, tardy, dropped>>

(* The first query; if it gets no row the second one follows. *)
QueryShort ==
  /\ lookup = "idle"
  /\ \/ \E read \in Reads(Scan(Short)) \ {{}} : Answer(read, Scan(Short))
     \/ /\ lookup' = "long"
        /\ UNCHANGED <<now, points, shown, newest, cut, polled, chart, again, tardy, dropped>>

(* Its own time.Now(), and points that came in since. *)
QueryLong ==
  /\ lookup = "long"
  /\ \E read \in Reads(Scan(Long)) : Answer(read, Scan(Long))

(* A query that fails is logged: peripherals without last readings. *)
QueryFails ==
  /\ lookup' = "idle"
  /\ shown' = [f \in Fields |-> Never]
  /\ cut' = FALSE
  /\ UNCHANGED <<now, points, newest, polled, chart, again, tardy, dropped>>

-----------------------------------------------------------------------------
(* GET /api/devices/{id}/readings: QueryReadings *)

InWindowClosed(t, from, to) == t >= from /\ t <= to
InWindow(t, from, to) == t >= from /\ t < to

Window(from, to, want) ==
  {p \in points : InWindow(p[1], from, to) /\ p[2] \in want}

(* Oldest first, and again as far as the stream goes. *)
QueryReadings(from, to, want) ==
  {{p \in Window(from, to, want) : p[1] <= last} : last \in (from - 1)..to}

(* A chart asks for what came since: from is the to of its last request,   *)
(* and to is the current time, the default.                                *)
Poll ==
  \E got \in QueryReadings(polled, now, Wanted) :
    /\ chart' = chart \cup got
    /\ again' = (again \/ got \cap chart # {})
    /\ dropped' = dropped \cup (Window(polled, now, Wanted) \ got)
    /\ polled' = now
    /\ UNCHANGED <<now, points, lookup, shown, newest, cut, tardy>>

-----------------------------------------------------------------------------

ReadingsNext ==
  \/ Tick
  \/ \E t \in Times, fs \in SUBSET Fields : HandleReadings(t, fs)
  \/ QueryShort \/ QueryLong \/ QueryFails
  \/ Poll

ReadingsSpec == ReadingsInit /\ [][ReadingsNext]_readingsVars

-----------------------------------------------------------------------------
(* Properties *)

(* Messages come late and out of order, fields arrive in separate points,  *)
(* and the window and the row limit move: from one answer to a later one   *)
(* the value shown for a field never goes back in time.                    *)
NeverGoesBack == \A f \in Fields : shown[f] # Never => shown[f] = newest[f]

Known(f)  == {t \in Times : <<t, f>> \in points}
Buried(t) == Cardinality({u \in Rows : u > t}) >= MaxRows

(* An answer shows the newest value of every field there is.  One that is  *)
(* missing is older than all that are shown, and there is a reason: it is  *)
(* older than the long window, has maxRows newer rows, is older than the   *)
(* short window while some other field has reported within it, or the      *)
(* stream broke off before it.                                             *)
LastReadingsShown ==
  [][(QueryShort \/ QueryLong) /\ lookup' = "idle" =>
       \A f \in Fields : NsOf[f] \in Peripherals /\ Known(f) # {} =>
         \/ shown'[f] = Max(Known(f))
         \/ /\ \A g \in Fields : shown'[g] # Never => shown'[g] > Max(Known(f))
            /\ \/ Max(Known(f)) < now - Long
               \/ Buried(Max(Known(f)))
               \/ Max(Known(f)) < now - Short /\ \E t \in Rows : t >= now - Short
               \/ cut']_readingsVars

(* A chart that extends itself window by window gets every point exactly   *)
(* once, whatever fields a second is completed with, except points that    *)
(* are written after their window was read and those that a broken stream  *)
(* did not reach: they are not asked for again.                            *)
ChartComplete ==
  /\ ~again
  /\ \A p \in points \ (tardy \cup dropped) :
       p[1] < polled /\ p[2] \in Wanted => p \in chart
=============================================================================
