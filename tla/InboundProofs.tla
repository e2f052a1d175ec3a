---------------------------- MODULE InboundProofs ----------------------------
(***************************************************************************)
(* Theorems about what devices send: Readings for every set of fields and  *)
(* peripherals, any windows, any row limit and any run of the clock, and   *)
(* Alerts for any events, messages, patches, retries and failures.         *)
(***************************************************************************)
EXTENDS Readings, Alerts, FiniteSetTheorems, WellFoundedInduction, TLAPS

-----------------------------------------------------------------------------
(* Readings *)

(* The chart holds stored points of windows that were asked for, and the   *)
(* last window does not end in the future.                                 *)
ChartInv ==
  /\ polled <= now
  /\ \A p \in chart : p[1] < polled

(* The newest value shown of a field is stored. *)
NewestStored ==
  \A f \in Fields : newest[f] # Never => <<newest[f], f>> \in points /\ NsOf[f] \in Peripherals

(* The inductive strengthening of the invariants. *)
ReadingsInv == ReadingsTypeOK /\ ChartInv /\ ChartComplete /\ NewestStored /\ NeverGoesBack

-----------------------------------------------------------------------------
(* Greatest elements *)

LEMMA LeastElement ==
  ASSUME NEW S \in SUBSET Nat, S # {}
  PROVE  \E m \in S : \A k \in S : m <= k
<1>1. PICK m \in S : \A k \in S : ~(<<k, m>> \in OpToRel(<, Nat))
  BY NatLessThanWellFounded, WFMin
<1>2. \A k \in S : ~(k < m)
  BY <1>1 DEF OpToRel
<1> QED BY <1>2

(* Max of a set of times is its greatest element. *)
LEMMA MaxOfTimes ==
  ASSUME NEW S \in SUBSET Times, S # {}
  PROVE  Max(S) \in S /\ \A t \in S : t <= Max(S)
<1> USE ReadingsAssumption DEF Times
<1> DEFINE L == {MaxTime - t : t \in S}
<1>1. PICK l \in L : \A k \in L : l <= k
  <2>1. L \in SUBSET Nat /\ L # {}
    OBVIOUS
  <2> HIDE DEF L
  <2> QED BY <2>1, LeastElement
<1>2. \E m \in S : \A t \in S : m >= t
  <2>1. PICK m \in S : l = MaxTime - m
    BY <1>1
  <2>2. \A t \in S : l <= MaxTime - t
    BY <1>1
  <2> QED BY <2>1, <2>2
<1>3. Max(S) \in S /\ \A t \in S : Max(S) >= t
  BY <1>2 DEF Max
<1> QED BY <1>3

LEMMA MaxOfTwo ==
  ASSUME NEW a \in Int, NEW b \in Int
  PROVE  Max({a, b}) = IF a >= b THEN a ELSE b
<1>1. \E m \in {a, b} : \A y \in {a, b} : m >= y
  OBVIOUS
<1>2. Max({a, b}) \in {a, b} /\ \A y \in {a, b} : Max({a, b}) >= y
  BY <1>1 DEF Max
<1> QED BY <1>2

-----------------------------------------------------------------------------
(* The query for last readings *)

LEMMA RowsAreTimes ==
  ASSUME ReadingsTypeOK
  PROVE  Rows \subseteq Times /\ \A S \in SUBSET Rows : IsFiniteSet(S) /\ Cardinality(S) \in Nat
<1>1. Rows \subseteq Times
  BY DEF ReadingsTypeOK, Rows, Points
<1>2. IsFiniteSet(Times)
  BY ReadingsAssumption, FS_Interval DEF Times
<1>3. ASSUME NEW S \in SUBSET Rows
      PROVE  IsFiniteSet(S) /\ Cardinality(S) \in Nat
  BY <1>1, <1>2, FS_Subset, FS_CardinalityType
<1> QED BY <1>1, <1>3

(* A row that is newer than a row the query reads is read as well. *)
LEMMA ScanUpwardClosed ==
  ASSUME ReadingsTypeOK, NEW lookback \in Nat, NEW t \in Scan(lookback), NEW u \in Rows, u >= t
  PROVE  u \in Scan(lookback)
<1> DEFINE recent == {r \in Rows : r >= now - lookback}
           Above(r) == {v \in recent : v > r}
<1>1. t \in recent /\ Cardinality(Above(t)) < MaxRows
  BY DEF Scan
<1>2. Rows \subseteq Nat /\ now \in Nat
  BY RowsAreTimes DEF Times, ReadingsTypeOK
<1>3. u \in recent /\ Above(u) \subseteq Above(t)
  <2>1. t \in Nat /\ u \in Nat /\ t >= now - lookback
    BY <1>1, <1>2
  <2>2. u >= now - lookback
    BY <1>2, <2>1
  <2>3. \A v \in recent : v > u => v > t
    BY <1>2, <2>1
  <2> QED BY <2>2, <2>3
<1>4. Cardinality(Above(u)) <= Cardinality(Above(t))
  <2>1. Above(t) \in SUBSET Rows /\ Above(u) \in SUBSET Rows
    OBVIOUS
  <2> HIDE DEF Above
  <2> QED BY <1>3, <2>1, RowsAreTimes, FS_Subset
<1>5. Cardinality(Above(u)) \in Nat /\ Cardinality(Above(t)) \in Nat
  BY RowsAreTimes
<1>6. Cardinality(Above(u)) < MaxRows
  <2> HIDE DEF Above
  <2> QED BY <1>1, <1>4, <1>5, ReadingsAssumption
<1> QED BY <1>3, <1>6 DEF Scan

(* So it is in what came of the rows. *)
LEMMA ReadsUpwardClosed ==
  ASSUME ReadingsTypeOK, NEW lookback \in Nat, NEW read \in Reads(Scan(lookback)),
         NEW t \in read, NEW u \in Rows, u >= t
  PROVE  u \in read
<1>1. t \in Scan(lookback)
  BY DEF Reads
<1>2. u \in Scan(lookback)
  BY <1>1, ScanUpwardClosed
<1>3. t \in Nat /\ u \in Nat
  BY <1>1, RowsAreTimes DEF Scan, Times
<1> QED BY <1>2, <1>3 DEF Reads

LEMMA ReadsAreTimes ==
  ASSUME ReadingsTypeOK, NEW lookback \in Nat, NEW read \in Reads(Scan(lookback))
  PROVE  read \in SUBSET Times /\ read \subseteq Scan(lookback)
<1>1. Scan(lookback) \subseteq Times
  BY RowsAreTimes DEF Scan
<1> QED BY <1>1 DEF Reads

(* What is shown of a field is the newest of its values in the rows. *)
LEMMA ShownOf ==
  ASSUME ReadingsTypeOK, NEW rows \in SUBSET Times, NEW all, NEW f \in Fields, Answer(rows, all)
  PROVE  LET ts == {t \in rows : <<t, f>> \in points}
         IN  /\ shown'[f] # Never => NsOf[f] \in Peripherals /\ shown'[f] \in ts
             /\ NsOf[f] \in Peripherals /\ ts # {} => shown'[f] = Max(ts)
             /\ \A t \in ts : shown'[f] # Never => t <= shown'[f]
<1> DEFINE ts == {t \in rows : <<t, f>> \in points}
<1>1. shown'[f] = IF NsOf[f] \in Peripherals THEN IF ts = {} THEN Never ELSE Max(ts) ELSE Never
  BY DEF Answer, filterByNamespace, reduceLatest
<1>2. ts # {} => Max(ts) \in ts /\ \A t \in ts : t <= Max(ts)
  BY MaxOfTimes
<1> QED BY <1>1, <1>2

-----------------------------------------------------------------------------
(* Every step keeps the invariant *)

LEMMA ReadingsInductive ==
  ASSUME ReadingsInv, [ReadingsNext]_readingsVars
  PROVE  ReadingsInv'
<1> USE ReadingsAssumption
<1>0. ReadingsTypeOK /\ now \in Nat /\ polled \in Nat
  BY DEF ReadingsInv, ReadingsTypeOK, Times
<1>1. CASE UNCHANGED readingsVars
  BY <1>1 DEF readingsVars, ReadingsInv, ReadingsTypeOK, ChartInv, ChartComplete, NewestStored, NeverGoesBack
<1>2. CASE Tick
  BY <1>2, <1>0 DEF Tick, ReadingsInv, ReadingsTypeOK, Times, ChartInv, ChartComplete, NewestStored, NeverGoesBack
<1>3. ASSUME NEW t \in Times, NEW fs \in SUBSET Fields, HandleReadings(t, fs)
      PROVE  ReadingsInv'
  <2>1. /\ points' = points \cup ({t} \X fs)
        /\ tardy' = IF t < polled THEN tardy \cup ({t} \X (fs \cap Wanted)) ELSE tardy
        /\ UNCHANGED <<now, lookup, shown, newest, cut, polled, chart, again, dropped>>
    BY <1>3 DEF HandleReadings, WritePoints
  <2>2. ReadingsTypeOK'
    BY <2>1 DEF ReadingsInv, ReadingsTypeOK, Points
  <2>3. ChartInv' /\ NewestStored' /\ NeverGoesBack'
    BY <2>1 DEF ReadingsInv, ChartInv, NewestStored, NeverGoesBack
  <2>4. ChartComplete'
    BY <2>1 DEF ReadingsInv, ChartComplete
  <2> QED BY <2>2, <2>3, <2>4 DEF ReadingsInv
<1>4. ASSUME NEW lookback \in Nat, NEW read \in Reads(Scan(lookback)),
             Answer(read, Scan(lookback))
      PROVE  ReadingsInv'
  <2>1. /\ lookup' = "idle" /\ cut' \in BOOLEAN
        /\ newest' = [f \in Fields |-> Max({newest[f], shown'[f]})]
        /\ UNCHANGED <<now, points, polled, chart, again, tardy, dropped>>
    BY <1>4 DEF Answer
  <2>2. read \in SUBSET Times
    BY <1>0, ReadsAreTimes
  <2>3. ASSUME NEW f \in Fields
        PROVE  /\ shown'[f] \in Times \cup {Never}
               /\ newest'[f] \in Times \cup {Never}
               /\ shown'[f] # Never => shown'[f] = newest'[f]
               /\ newest'[f] # Never => <<newest'[f], f>> \in points /\ NsOf[f] \in Peripherals
    <3> DEFINE ts == {t \in read : <<t, f>> \in points}
    <3>1. /\ shown'[f] # Never => NsOf[f] \in Peripherals /\ shown'[f] \in ts
          /\ \A t \in ts : shown'[f] # Never => t <= shown'[f]
      BY <1>0, <1>4, <2>2, ShownOf
    <3>2. newest[f] \in Times \cup {Never} /\ shown'[f] \in Times \cup {Never}
      BY <1>0, <2>2, <3>1 DEF ReadingsTypeOK
    <3>3. newest[f] # Never => <<newest[f], f>> \in points /\ NsOf[f] \in Peripherals
      BY DEF ReadingsInv, NewestStored
    <3>4. newest'[f] = IF newest[f] >= shown'[f] THEN newest[f] ELSE shown'[f]
      BY <2>1, <3>2, MaxOfTwo DEF Times, Never
    <3>5. shown'[f] # Never => shown'[f] >= newest[f]
      <4>1. SUFFICES ASSUME shown'[f] # Never, newest[f] > shown'[f] PROVE FALSE
        BY <3>2 DEF Times, Never
      <4>2. newest[f] \in Times /\ newest[f] \in Rows
        BY <3>2, <3>3, <4>1 DEF Rows, Times, Never
      <4>3. shown'[f] \in read /\ newest[f] >= shown'[f]
        BY <3>1, <3>2, <4>1 DEF Times, Never
      <4>4. newest[f] \in read
        BY <1>0, <4>2, <4>3, ReadsUpwardClosed
      <4>5. newest[f] \in ts
        BY <3>3, <4>2, <4>4 DEF Never, Times
      <4> QED BY <3>1, <3>2, <4>1, <4>2, <4>5 DEF Times
    <3>6. shown'[f] # Never => <<shown'[f], f>> \in points /\ NsOf[f] \in Peripherals
      BY <3>1
    <3> QED BY <3>2, <3>3, <3>4, <3>5, <3>6 DEF Times, Never
  <2>4. shown' \in [Fields -> Times \cup {Never}] /\ newest' \in [Fields -> Times \cup {Never}]
    BY <1>4, <2>1, <2>3 DEF Answer, filterByNamespace
  <2>5. ReadingsTypeOK'
    BY <2>1, <2>4 DEF ReadingsInv, ReadingsTypeOK
  <2>6. ChartInv' /\ ChartComplete'
    BY <2>1 DEF ReadingsInv, ChartInv, ChartComplete
  <2>7. NewestStored' /\ NeverGoesBack'
    BY <2>1, <2>3 DEF NewestStored, NeverGoesBack
  <2> QED BY <2>5, <2>6, <2>7 DEF ReadingsInv
<1>5. CASE QueryShort
  <2>1. CASE \E read \in Reads(Scan(Short)) : Answer(read, Scan(Short))
    BY <1>4, <2>1
  <2>2. CASE /\ lookup' = "long"
             /\ UNCHANGED <<now, points, shown, newest, cut, polled, chart, again, tardy, dropped>>
    BY <2>2 DEF ReadingsInv, ReadingsTypeOK, ChartInv, ChartComplete, NewestStored, NeverGoesBack
  <2> QED BY <1>5, <2>1, <2>2 DEF QueryShort
<1>6. CASE QueryLong
  BY <1>4, <1>6 DEF QueryLong
<1>7. CASE QueryFails
  BY <1>7 DEF QueryFails, ReadingsInv, ReadingsTypeOK, ChartInv, ChartComplete, NewestStored, NeverGoesBack
<1>8. CASE Poll
  <2> DEFINE window == {p \in points : p[1] >= polled /\ p[1] < now /\ p[2] \in Wanted}
  <2>1. PICK got \in SUBSET window :
          /\ chart' = chart \cup got /\ again' = (again \/ got \cap chart # {})
          /\ dropped' = dropped \cup (window \ got)
          /\ polled' = now
          /\ UNCHANGED <<now, points, lookup, shown, newest, cut, tardy>>
    BY <1>8 DEF Poll, QueryReadings, Window, InWindow
  <2>2. \A p \in points : p[1] \in Nat
    BY <1>0 DEF ReadingsTypeOK, Points, Times
  <2>3. got \cap chart = {}
    BY <1>0, <2>1, <2>2 DEF ReadingsInv, ChartInv
  <2>4. ReadingsTypeOK'
    BY <1>0, <2>1, <2>3 DEF ReadingsInv, ChartComplete, ReadingsTypeOK
  <2>5. ChartInv'
    <3>1. \A p \in chart : p[1] \in Nat
      BY <1>0 DEF ReadingsTypeOK, Points, Times
    <3> QED BY <1>0, <2>1, <3>1 DEF ReadingsInv, ChartInv
  <2>6. ChartComplete'
    <3>1. ~again /\ \A p \in points \ (tardy \cup dropped) : p[1] < polled /\ p[2] \in Wanted => p \in chart
      BY DEF ReadingsInv, ChartComplete
    <3>2. ~again'
      BY <2>1, <2>3, <3>1
    <3>3. ASSUME NEW p \in points \ (tardy \cup dropped'), p[1] < now, p[2] \in Wanted
          PROVE  p \in chart'
      BY <1>0, <2>1, <2>2, <3>1, <3>3
    <3> QED BY <2>1, <3>2, <3>3 DEF ChartComplete
  <2>7. NewestStored' /\ NeverGoesBack'
    BY <2>1 DEF ReadingsInv, NewestStored, NeverGoesBack
  <2> QED BY <2>4, <2>5, <2>6, <2>7 DEF ReadingsInv
<1> QED
  BY <1>1, <1>2, <1>3, <1>5, <1>6, <1>7, <1>8 DEF ReadingsNext

-----------------------------------------------------------------------------
(* The theorems *)

(* Every reachable state satisfies the inductive invariant. *)
LEMMA ReadingsInvCorrect == ReadingsSpec => []ReadingsInv
<1>1. ReadingsInit => ReadingsInv
  <2> SUFFICES ASSUME ReadingsInit PROVE ReadingsInv
    OBVIOUS
  <2>1. ReadingsTypeOK
    <3>1. 0 \in Times
      BY ReadingsAssumption DEF Times
    <3>2. shown \in [Fields -> Times \cup {Never}] /\ newest \in [Fields -> Times \cup {Never}]
      BY DEF ReadingsInit
    <3> QED BY <3>1, <3>2 DEF ReadingsInit, ReadingsTypeOK
  <2>2. ChartInv /\ ChartComplete
    BY DEF ReadingsInit, ChartInv, ChartComplete
  <2>3. NewestStored /\ NeverGoesBack
    BY DEF ReadingsInit, NewestStored, NeverGoesBack
  <2> QED BY <2>1, <2>2, <2>3 DEF ReadingsInv
<1>2. ReadingsInv /\ [ReadingsNext]_readingsVars => ReadingsInv'
  BY ReadingsInductive
<1> QED BY <1>1, <1>2, PTL DEF ReadingsSpec

(* Type correctness, for any fields, windows and times. *)
THEOREM ReadingsTypeCorrect == ReadingsSpec => []ReadingsTypeOK
<1>1. ReadingsInv => ReadingsTypeOK
  BY DEF ReadingsInv
<1> QED BY <1>1, ReadingsInvCorrect, PTL

(* The value shown for a field never goes back in time, whatever window    *)
(* the two queries have and whatever rows the limit cuts off.              *)
THEOREM ShownCorrect == ReadingsSpec => []NeverGoesBack
<1>1. ReadingsInv => NeverGoesBack
  BY DEF ReadingsInv
<1> QED BY <1>1, ReadingsInvCorrect, PTL

(* A chart gets every point exactly once, except points written after      *)
(* their window was read and points that a broken stream did not reach.    *)
THEOREM ChartCorrect == ReadingsSpec => []ChartComplete
<1>1. ReadingsInv => ChartComplete
  BY DEF ReadingsInv
<1> QED BY <1>1, ReadingsInvCorrect, PTL

(* A value that is not shown is older than all that are, and is old,       *)
(* buried under maxRows newer rows, hidden by a field that reported within *)
(* the short window, or beyond the end of a broken stream.                 *)
THEOREM AnswerCorrect == ReadingsSpec => LastReadingsShown
<1> DEFINE Shown(f) ==
             \/ shown'[f] = Max(Known(f))
             \/ /\ \A g \in Fields : shown'[g] # Never => shown'[g] > Max(Known(f))
                /\ \/ Max(Known(f)) < now - Long
                   \/ Buried(Max(Known(f)))
                   \/ Max(Known(f)) < now - Short /\ \E t \in Rows : t >= now - Short
                   \/ cut'
<1>1. ASSUME ReadingsTypeOK, NEW lookback \in Nat, NEW read \in Reads(Scan(lookback)),
             Answer(read, Scan(lookback)),
             NEW f \in Fields, NsOf[f] \in Peripherals, Known(f) # {}
      PROVE  \/ shown'[f] = Max(Known(f))
             \/ /\ \A g \in Fields : shown'[g] # Never => shown'[g] > Max(Known(f))
                /\ \/ Max(Known(f)) < now - lookback
                   \/ Buried(Max(Known(f)))
                   \/ cut'
  <2> DEFINE m == Max(Known(f))
             ts == {t \in read : <<t, f>> \in points}
             recent == {r \in Rows : r >= now - lookback}
  <2>1. m \in Known(f) /\ (\A t \in Known(f) : t <= m) /\ Known(f) \subseteq Times
    BY <1>1, MaxOfTimes DEF Known
  <2> HIDE DEF m
  <2>2. read \in SUBSET Times /\ read \subseteq Rows /\ Rows \subseteq Nat /\ now \in Nat /\ m \in Nat
    <3>1. read \in SUBSET Times /\ read \subseteq Rows
      BY <1>1, ReadsAreTimes DEF Scan
    <3>2. Rows \subseteq Nat /\ now \in Nat
      BY <1>1, RowsAreTimes DEF Times, ReadingsTypeOK
    <3>3. m \in Nat
      BY <2>1 DEF Times
    <3> QED BY <3>1, <3>2, <3>3
  <2>3. CASE m \in read
    <3>1. m \in ts /\ ts \subseteq Known(f)
      BY <2>1, <2>2, <2>3 DEF Known
    <3>2. shown'[f] = Max(ts) /\ Max(ts) \in ts /\ m <= Max(ts)
      BY <1>1, <2>2, <3>1, ShownOf, MaxOfTimes
    <3>3. Max(ts) <= m /\ Max(ts) \in Nat
      <4> HIDE DEF ts
      <4>1. Max(ts) \in Known(f) /\ Max(ts) \in Times
        BY <2>1, <3>1, <3>2
      <4> QED BY <2>1, <4>1 DEF Times
    <3> QED BY <2>2, <3>2, <3>3 DEF m
  <2>4. CASE m \notin read
    <3>1. m \in Rows
      BY <2>1 DEF Known, Rows
    <3>2. ASSUME NEW g \in Fields, shown'[g] # Never
          PROVE  shown'[g] > m
      <4>1. shown'[g] \in read
        BY <1>1, <2>2, <3>2, ShownOf
      <4>2. ~(m >= shown'[g])
        BY <1>1, <2>4, <3>1, <4>1, ReadsUpwardClosed
      <4>3. shown'[g] \in Nat /\ m \in Nat
        BY <2>2, <4>1
      <4> QED BY <4>2, <4>3
    <3>3. CASE m < now - lookback
      BY <3>2, <3>3 DEF m
    <3>4. CASE cut'
      BY <3>2, <3>4 DEF m
    <3>5. CASE m >= now - lookback /\ ~cut'
      <4>1. m \in recent /\ m \notin Scan(lookback)
        BY <1>1, <2>4, <3>1, <3>5 DEF Answer
      <4>2. {u \in recent : u > m} = {u \in Rows : u > m}
        <5>1. \A u \in Rows : u > m => u >= now - lookback
          BY <2>2, <3>5
        <5> QED BY <5>1
      <4>3. ~(Cardinality({u \in Rows : u > m}) < MaxRows)
        BY <4>1, <4>2 DEF Scan
      <4>4. Cardinality({u \in Rows : u > m}) \in Nat
        BY <1>1, RowsAreTimes
      <4>5. Buried(m)
        BY <4>3, <4>4, ReadingsAssumption DEF Buried
      <4> QED BY <3>2, <4>5 DEF m
    <3> QED BY <2>2, <3>3, <3>4, <3>5
  <2> QED BY <2>3, <2>4
<1>2. ASSUME ReadingsTypeOK, QueryShort \/ QueryLong, lookup' = "idle",
             NEW f \in Fields, NsOf[f] \in Peripherals, Known(f) # {}
      PROVE  Shown(f)
  <2>1. CASE QueryLong
    <3>1. PICK read \in Reads(Scan(Long)) : Answer(read, Scan(Long))
      BY <2>1 DEF QueryLong
    <3> QED BY <1>1, <1>2, <3>1, ReadingsAssumption
  <2>2. CASE QueryShort
    <3>1. PICK read \in Reads(Scan(Short)) \ {{}} : Answer(read, Scan(Short))
      BY <1>2, <2>2 DEF QueryShort
    <3>2. \E t \in Rows : t >= now - Short
      BY <3>1 DEF Reads, Scan
    <3> QED BY <1>1, <1>2, <3>1, <3>2, ReadingsAssumption
  <2> QED BY <1>2, <2>1, <2>2
<1>3. ReadingsTypeOK =>
        ((QueryShort \/ QueryLong) /\ lookup' = "idle" =>
           \A f \in Fields : NsOf[f] \in Peripherals /\ Known(f) # {} => Shown(f))
  BY <1>2
<1> QED BY <1>3, ReadingsTypeCorrect, PTL DEF LastReadingsShown

-----------------------------------------------------------------------------
(* Alerts *)

Trying  == {"queued", "found", "create"}
Job     == [event: Events \cup {None}, action: Actions \cup {0}, late: BOOLEAN,
            at: {"absent", "queued", "done", "archived"} \cup Active, retried: 0..MaxRetry]

(* The jobs that may still make an alert, and the message in Handle that   *)
(* may still become one.                                                   *)
Waiting(e) == {j \in Jobs : jobs[j].event = e /\ jobs[j].at \in Trying}
InHand(e)  == IF handling.event = e THEN 1 ELSE 0
ToEnqueue(e) == IF handling.event = e /\ handling.at # "ack" THEN 1 ELSE 0

(* Who carries which event. *)
CarrierInv ==
  /\ handling.event = None <=> handling.at = "idle"
  /\ \A j \in Jobs : jobs[j].event = None <=> jobs[j].at = "absent"
  /\ \A e \in Events : inbox[e] + InHand(e) <= copies[e] /\ copies[e] <= sent

(* What is on its way is paid for like the alerts that exist: a failure    *)
(* after the INSERT or before an acknowledgement pays for the repetition.  *)
CountInv ==
  \A e \in Events :
    alerts[e] + Cardinality(Waiting(e)) + inbox[e] + ToEnqueue(e) <= copies[e] + errors

LateInv ==
  \A j \in Jobs : jobs[j].late => deleted # {} /\ jobs[j].at \notin {"create", "ack", "done"}

(* The template of the one action gives a message for the event. *)
Rendered(e) == <<1, e>> \notin Unrendered

(* Without a patch there is one action, which every job names; a job whose *)
(* message can be made has not been tried more often than there were       *)
(* failures.                                                               *)
TrackInv ==
  ~Disturbed =>
    /\ action = 1
    /\ handling.at = "enqueue" => handling.action = 1
    /\ \A j \in Jobs : jobs[j].at # "absent" => jobs[j].action = 1
    /\ \A j \in Jobs : Rendered(jobs[j].event) =>
         jobs[j].at # "archived" /\ jobs[j].retried <= errors
    /\ \A e \in Events : Rendered(e) /\ copies[e] > 0 => alerts[e] > 0 \/ InFlight(e)

(* The inductive strengthening of the invariants. *)
AlertsInv == TypeOK /\ CarrierInv /\ CountInv /\ LateInv /\ TrackInv

LEMMA JobsFinite ==
  \A S \in SUBSET Jobs : IsFiniteSet(S) /\ Cardinality(S) \in Nat
<1>1. IsFiniteSet(Jobs)
  BY FS_Interval, AlertsAssumption DEF Jobs
<1> QED BY <1>1, FS_Subset, FS_CardinalityType

(* The count of jobs follows the one job that is written. *)
LEMMA WaitingMoves ==
  ASSUME TypeOK, NEW j \in Jobs, NEW x \in Job, jobs' = [jobs EXCEPT ![j] = x], NEW e \in Events
  PROVE  Cardinality(Waiting(e)') =
           IF x.event = e /\ x.at \in Trying
           THEN IF j \in Waiting(e) THEN Cardinality(Waiting(e)) ELSE Cardinality(Waiting(e)) + 1
           ELSE IF j \in Waiting(e) THEN Cardinality(Waiting(e)) - 1 ELSE Cardinality(Waiting(e))
<1>1. Waiting(e)' = IF x.event = e /\ x.at \in Trying THEN Waiting(e) \cup {j} ELSE Waiting(e) \ {j}
  BY DEF Waiting, TypeOK
<1>2. IsFiniteSet(Waiting(e))
  BY JobsFinite DEF Waiting
<1>3. CASE x.event = e /\ x.at \in Trying
  BY ONLY <1>1, <1>2, <1>3, FS_AddElement
<1>4. CASE ~(x.event = e /\ x.at \in Trying)
  BY ONLY <1>1, <1>2, <1>4, FS_RemoveElement
<1> QED BY ONLY <1>3, <1>4

(* One step of the worker at one job. *)
LEMMA JobMoves ==
  ASSUME AlertsInv, NEW j \in Jobs, NEW x \in Job, jobs' = [jobs EXCEPT ![j] = x],
         jobs[j].at \in {"queued"} \cup Active, x.at # "absent",
         x.event = jobs[j].event, x.action = jobs[j].action,
         UNCHANGED <<triggerVars, serverVars>>,
         errors' \in {errors, errors + 1}, errors' <= MaxErrors,
         \/ alerts' = alerts
         \/ /\ jobs[j].at = "create" /\ x.at = "ack"
            /\ alerts' = [alerts EXCEPT ![x.event] = @ + 1],
         x.at \in Trying /\ jobs[j].at \notin Trying => errors' = errors + 1,
         x.late => deleted # {} /\ x.at \notin {"create", "ack", "done"},
         ~Disturbed' /\ Rendered(x.event) =>
           /\ x.retried <= errors' /\ x.at # "archived"
           /\ jobs[j].at \in Trying => x.at \in Trying \/ alerts'[x.event] > 0
  PROVE  AlertsInv'
<1> USE AlertsAssumption
<1>0. /\ TypeOK /\ CarrierInv /\ CountInv /\ LateInv /\ TrackInv
      /\ x.event \in Events /\ jobs[j] \in Job
      /\ errors \in Nat /\ errors' \in 0..MaxErrors
      /\ \A e \in Events : /\ alerts[e] \in Nat /\ copies[e] \in 0..MaxDeliveries
                           /\ inbox[e] \in Nat /\ ToEnqueue(e) \in {0, 1}
      /\ UNCHANGED <<deleted, action, patches, inbox, copies, sent, handling, ingested, lost>>
  BY DEF AlertsInv, TypeOK, CarrierInv, Job, Active, None, triggerVars, serverVars, ToEnqueue
<1>1. \A e \in Events : alerts'[e] \in Nat
  BY <1>0 DEF TypeOK
<1>2. CountInv'
  <2>1. ASSUME NEW e \in Events
        PROVE  alerts'[e] + Cardinality(Waiting(e)') + inbox[e] + ToEnqueue(e) <= copies[e] + errors'
    <3>1. j \in Waiting(e) <=> x.event = e /\ jobs[j].at \in Trying
      BY DEF Waiting
    <3>2. Cardinality(Waiting(e)) \in Nat
      BY JobsFinite DEF Waiting
    <3>3. Cardinality(Waiting(e)') =
           IF x.event = e /\ x.at \in Trying
           THEN IF j \in Waiting(e) THEN Cardinality(Waiting(e)) ELSE Cardinality(Waiting(e)) + 1
           ELSE IF j \in Waiting(e) THEN Cardinality(Waiting(e)) - 1 ELSE Cardinality(Waiting(e))
      BY <1>0, WaitingMoves
    <3>4. alerts[e] + Cardinality(Waiting(e)) + inbox[e] + ToEnqueue(e) <= copies[e] + errors
      BY <1>0 DEF CountInv
    <3>5. CASE alerts' = alerts
      BY <1>0, <3>1, <3>2, <3>3, <3>4, <3>5
    <3>6. CASE /\ jobs[j].at = "create" /\ x.at = "ack"
               /\ alerts' = [alerts EXCEPT ![x.event] = @ + 1]
      <4>1. alerts'[e] = IF e = x.event THEN alerts[e] + 1 ELSE alerts[e]
        BY <1>0, <3>6 DEF TypeOK
      <4> QED BY <1>0, <3>1, <3>2, <3>3, <3>4, <3>6, <4>1 DEF Trying
    <3> QED BY <3>5, <3>6
  <2>2. \A e \in Events : ToEnqueue(e)' = ToEnqueue(e)
    BY <1>0 DEF ToEnqueue
  <2> QED BY <1>0, <2>1, <2>2 DEF CountInv
<1>3. TypeOK'
  <2>1. \A e \in Events : alerts'[e] <= MaxDeliveries + MaxErrors
    <3>1. ASSUME NEW e \in Events PROVE alerts'[e] <= MaxDeliveries + MaxErrors
      <4>1. alerts'[e] + Cardinality(Waiting(e))' + inbox[e] + ToEnqueue(e)' <= copies[e] + errors'
        BY <1>0, <1>2 DEF CountInv
      <4>2. Cardinality(Waiting(e))' \in Nat /\ ToEnqueue(e)' \in Nat
        BY JobsFinite DEF Waiting, ToEnqueue
      <4> QED BY <1>0, <1>1, <4>1, <4>2
    <3> QED BY <3>1
  <2>2. alerts' \in [Events -> 0..MaxDeliveries + MaxErrors]
    BY <1>0, <1>1, <2>1 DEF TypeOK
  <2>3. jobs' \in [Jobs -> Job]
    BY <1>0 DEF TypeOK, Job
  <2> QED BY <1>0, <2>2, <2>3 DEF TypeOK, Job
<1>4. CarrierInv'
  BY <1>0 DEF CarrierInv, InHand, TypeOK, None
<1>5. LateInv'
  BY <1>0 DEF LateInv, TypeOK
<1>6. TrackInv'
  <2> SUFFICES ASSUME ~Disturbed' PROVE TrackInv'
    BY DEF TrackInv
  <2>1. ~Disturbed
    BY <1>0 DEF Disturbed
  <2>2. /\ action' = 1 /\ (handling'.at = "enqueue" => handling'.action = 1)
        /\ \A i \in Jobs : jobs'[i].at # "absent" => jobs'[i].action = 1
        /\ \A i \in Jobs : Rendered(jobs'[i].event) =>
             jobs'[i].at # "archived" /\ jobs'[i].retried <= errors'
    <3>1. \A i \in Jobs : i # j => jobs'[i] = jobs[i]
      BY <1>0 DEF TypeOK
    <3>2. jobs'[j] = x
      BY <1>0 DEF TypeOK
    <3>3. \A i \in Jobs : jobs[i].retried \in Nat
      BY <1>0 DEF TypeOK
    <3> QED BY <1>0, <2>1, <3>1, <3>2, <3>3 DEF TrackInv, Active
  <2>3. ASSUME NEW e \in Events, Rendered(e), copies[e] > 0
        PROVE  alerts'[e] > 0 \/ InFlight(e)'
    <3>1. alerts[e] > 0 => alerts'[e] > 0
      <4>1. alerts'[e] = alerts[e] \/ alerts'[e] = alerts[e] + 1
        BY <1>0 DEF TypeOK
      <4> QED BY <1>0, <4>1
    <3>2. InFlight(e) => InFlight(e)' \/ alerts'[e] > 0
      <4>1. ASSUME NEW i \in Jobs, jobs[i].event = e, jobs[i].at \in Trying
            PROVE  InFlight(e)' \/ alerts'[e] > 0
        <5>1. CASE i # j
          BY <1>0, <4>1, <5>1 DEF InFlight, TypeOK, Trying
        <5>2. CASE i = j
          <6>1. x.at \in Trying \/ alerts'[e] > 0
            BY <2>3, <4>1, <5>2
          <6>2. jobs'[j] = x
            BY <1>0 DEF TypeOK
          <6> QED BY <4>1, <5>2, <6>1, <6>2 DEF InFlight, Trying
        <5> QED BY <5>1, <5>2
      <4> QED BY <1>0, <4>1 DEF InFlight, Trying
    <3> QED BY <1>0, <2>1, <2>3, <3>1, <3>2 DEF TrackInv
  <2> QED BY <1>0, <2>2, <2>3 DEF TrackInv
<1> QED BY <1>2, <1>3, <1>4, <1>5, <1>6 DEF AlertsInv

(* One step of the queue, the server or the owner that leaves the jobs.    *)
LEMMA JobsStay ==
  ASSUME AlertsInv, UNCHANGED <<jobs, alerts>>, TypeOK',
         errors' \in {errors, errors + 1}, deleted \subseteq deleted',
         CarrierInv',
         \A e \in Events :
           inbox'[e] + ToEnqueue(e)' + copies[e] + errors
             <= inbox[e] + ToEnqueue(e) + copies'[e] + errors',
         ~Disturbed' =>
           /\ ~Disturbed /\ action' = 1
           /\ handling'.at = "enqueue" => handling'.action = 1
           /\ \A e \in Events : copies'[e] > 0 /\ (copies[e] > 0 => alerts[e] > 0 \/ InFlight(e))
                => alerts[e] > 0 \/ InFlight(e)'
  PROVE  AlertsInv'
<1>0. TypeOK /\ CarrierInv /\ CountInv /\ LateInv /\ TrackInv /\ errors \in Nat /\ errors' \in Nat
  BY AlertsAssumption DEF AlertsInv, TypeOK
<1>1. CountInv'
  <2>1. ASSUME NEW e \in Events
        PROVE  alerts[e] + Cardinality(Waiting(e)) + inbox'[e] + ToEnqueue(e)' <= copies'[e] + errors'
    <3>1. Cardinality(Waiting(e)) \in Nat
      BY JobsFinite DEF Waiting
    <3>2. alerts[e] + Cardinality(Waiting(e)) + inbox[e] + ToEnqueue(e) <= copies[e] + errors
      BY <1>0 DEF CountInv
    <3>3. /\ alerts[e] \in Nat /\ copies[e] \in Nat /\ copies'[e] \in Nat
          /\ inbox[e] \in Nat /\ inbox'[e] \in Nat
      BY <1>0, AlertsAssumption DEF TypeOK
    <3>4. ToEnqueue(e) \in Nat /\ ToEnqueue(e)' \in Nat
      BY DEF ToEnqueue
    <3>5. inbox'[e] + ToEnqueue(e)' + copies[e] + errors
            <= inbox[e] + ToEnqueue(e) + copies'[e] + errors'
      OBVIOUS
    <3> QED BY <1>0, <3>1, <3>2, <3>3, <3>4, <3>5
  <2>2. \A e \in Events : Waiting(e)' = Waiting(e)
    BY DEF Waiting
  <2> QED BY <2>1, <2>2 DEF CountInv
<1>2. LateInv'
  BY <1>0 DEF LateInv
<1>3. TrackInv'
  <2>1. \A j \in Jobs : jobs[j].retried \in Nat
    BY <1>0 DEF TypeOK
  <2> QED BY <1>0, <2>1 DEF TrackInv
<1> QED BY <1>1, <1>2, <1>3 DEF AlertsInv

(* Every step keeps the invariant. *)
LEMMA AlertsInductive ==
  ASSUME AlertsInv, [Next]_vars
  PROVE  AlertsInv'
<1> USE AlertsAssumption
<1>0. /\ TypeOK /\ CarrierInv /\ CountInv /\ LateInv /\ TrackInv
      /\ errors \in Nat /\ sent \in Nat /\ patches \in Nat
      /\ \A e \in Events : inbox[e] \in Nat /\ copies[e] \in Nat /\ None # e
  BY DEF AlertsInv, TypeOK, None
<1>1. CASE UNCHANGED vars
  <2>1. UNCHANGED <<jobs, alerts, errors, deleted, action, patches, inbox, copies, sent, handling,
                    ingested, lost>>
    BY <1>1 DEF vars, triggerVars, serverVars
  <2>2. TypeOK' /\ CarrierInv' /\ CountInv' /\ LateInv'
    BY <1>0, <2>1 DEF TypeOK, CarrierInv, CountInv, LateInv, InHand, ToEnqueue, Waiting
  <2>3. TrackInv'
    BY <1>0, <2>1 DEF TrackInv, Disturbed, InFlight
  <2> QED BY <2>2, <2>3 DEF AlertsInv
<1>2. ASSUME NEW new \in Actions \cup {0}, Patch(new)
      PROVE  AlertsInv'
  <2>1. /\ UNCHANGED <<deleted, inbox, copies, sent, handling, ingested, lost, jobs, alerts, errors>>
        /\ patches' = patches + 1 /\ action' = new /\ patches < MaxPatches
    BY <1>2 DEF Patch, serverVars
  <2>2. TypeOK'
    BY <1>0, <2>1 DEF TypeOK
  <2>3. CarrierInv' /\ Disturbed' /\ \A e \in Events : ToEnqueue(e)' = ToEnqueue(e)
    BY <1>0, <2>1 DEF CarrierInv, InHand, Disturbed, ToEnqueue
  <2>4. \A e \in Events : ToEnqueue(e) \in Nat
    BY DEF ToEnqueue
  <2> QED BY <1>0, <2>1, <2>2, <2>3, <2>4, JobsStay
<1>3. CASE Delete \/ DeleteDevice
  <2>1. /\ UNCHANGED <<action, patches, inbox, copies, sent, handling, ingested, lost, jobs, alerts, errors>>
        /\ deleted \subseteq deleted' /\ deleted' \subseteq {"trigger", "device"} /\ deleted' # {}
    BY <1>0, <1>3 DEF Delete, DeleteDevice, TypeOK, serverVars
  <2>2. TypeOK'
    BY <1>0, <2>1 DEF TypeOK
  <2>3. CarrierInv' /\ Disturbed' /\ \A e \in Events : ToEnqueue(e)' = ToEnqueue(e)
    BY <1>0, <2>1 DEF CarrierInv, InHand, Disturbed, ToEnqueue
  <2>4. \A e \in Events : ToEnqueue(e) \in Nat
    BY DEF ToEnqueue
  <2> QED BY <1>0, <2>1, <2>2, <2>3, <2>4, JobsStay
<1>4. ASSUME NEW f \in Events, Deliver(f)
      PROVE  AlertsInv'
  <2>1. /\ UNCHANGED <<deleted, action, patches, handling, ingested, lost, jobs, alerts, errors>>
        /\ sent < MaxDeliveries /\ sent' = sent + 1
        /\ copies' = [copies EXCEPT ![f] = @ + 1] /\ inbox' = [inbox EXCEPT ![f] = @ + 1]
    BY <1>4 DEF Deliver, triggerVars
  <2>2. \A e \in Events : /\ copies'[e] = IF e = f THEN copies[e] + 1 ELSE copies[e]
                          /\ inbox'[e] = IF e = f THEN inbox[e] + 1 ELSE inbox[e]
    BY <1>0, <2>1 DEF TypeOK
  <2>3. CarrierInv'
    <3>1. \A e \in Events : InHand(e) \in Nat /\ InHand(e)' = InHand(e)
      BY <2>1 DEF InHand
    <3> QED BY <1>0, <2>1, <2>2, <3>1 DEF CarrierInv
  <2>4. TypeOK'
    <3>1. \A e \in Events : inbox[e] <= copies[e] /\ copies[e] <= sent
      BY <1>0 DEF CarrierInv, InHand
    <3> QED BY <1>0, <2>1, <2>2, <3>1 DEF TypeOK
  <2>5. \A e \in Events : ToEnqueue(e)' = ToEnqueue(e) /\ ToEnqueue(e) \in Nat
    BY <2>1 DEF ToEnqueue
  <2>6. ASSUME ~Disturbed'
        PROVE  /\ ~Disturbed /\ action' = 1 /\ (handling'.at = "enqueue" => handling'.action = 1)
               /\ \A e \in Events : copies'[e] > 0 /\ (copies[e] > 0 => alerts[e] > 0 \/ InFlight(e))
                    => alerts[e] > 0 \/ InFlight(e)'
    <3>1. ~Disturbed
      BY <2>1, <2>6 DEF Disturbed
    <3>2. \A e \in Events : InFlight(e) \/ e = f => InFlight(e)'
      BY <1>0, <2>1, <2>2 DEF InFlight
    <3> QED BY <1>0, <2>1, <2>2, <3>1, <3>2 DEF TrackInv
  <2> QED BY <1>0, <2>1, <2>2, <2>3, <2>4, <2>5, <2>6, JobsStay
<1>5. ASSUME NEW f \in Events, CheckTrigger(f)
      PROVE  AlertsInv'
  <2>1. /\ UNCHANGED <<deleted, action, patches, copies, sent, ingested, lost, jobs, alerts, errors>>
        /\ handling = NoMsg /\ inbox[f] > 0 /\ inbox' = [inbox EXCEPT ![f] = @ - 1]
        /\ handling' = IF "trigger" \in deleted THEN NoMsg ELSE [event |-> f, at |-> "ingest", action |-> 0]
    BY <1>5 DEF CheckTrigger, triggerVars
  <2>2. /\ \A e \in Events : inbox'[e] = IF e = f THEN inbox[e] - 1 ELSE inbox[e]
        /\ \A e \in Events : InHand(e) = 0 /\ ToEnqueue(e) = 0
        /\ \A e \in Events : InHand(e)' = ToEnqueue(e)'
        /\ \A e \in Events : ToEnqueue(e)' = IF e = f /\ "trigger" \notin deleted THEN 1 ELSE 0
    BY <1>0, <2>1 DEF TypeOK, InHand, ToEnqueue, NoMsg, None
  <2>3. CarrierInv'
    BY <1>0, <2>1, <2>2 DEF CarrierInv, NoMsg, None
  <2>4. TypeOK'
    <3>1. inbox' \in [Events -> 0..MaxDeliveries]
      BY <1>0, <2>1, <2>2 DEF TypeOK
    <3>2. handling' \in [event: Events \cup {None}, at: {"idle", "ingest", "actions", "enqueue", "ack"},
                         action: Actions \cup {0}]
      BY <2>1 DEF NoMsg
    <3> QED BY <1>0, <2>1, <3>1, <3>2 DEF TypeOK
  <2>5. ASSUME ~Disturbed'
        PROVE  /\ ~Disturbed /\ action' = 1 /\ (handling'.at = "enqueue" => handling'.action = 1)
               /\ \A e \in Events : copies'[e] > 0 /\ (copies[e] > 0 => alerts[e] > 0 \/ InFlight(e))
                    => alerts[e] > 0 \/ InFlight(e)'
    <3>1. ~Disturbed /\ "trigger" \notin deleted
      BY <2>1, <2>5 DEF Disturbed
    <3>2. \A e \in Events : InFlight(e) => InFlight(e)'
      BY <1>0, <2>1, <2>2, <3>1 DEF InFlight, NoMsg, None
    <3> QED BY <1>0, <2>1, <3>1, <3>2 DEF TrackInv
  <2> QED BY <1>0, <2>1, <2>2, <2>3, <2>4, <2>5, JobsStay
(* The handler moves on with its message, or gives it up. *)
<1>6. ASSUME UNCHANGED <<deleted, action, patches, inbox, copies, sent, jobs, alerts>>,
             handling.at # "idle", ingested' \subseteq Events,
             lost' \in BOOLEAN, lost => lost', errors' \in 0..MaxErrors, errors' \in {errors, errors + 1},
             \/ /\ handling'.event = handling.event /\ handling.at # "ack" /\ handling' \in [event: Events \cup {None},
                     at: {"actions", "enqueue", "ack"}, action: Actions \cup {0}]
                /\ handling'.at = "ack" => action = 0
                /\ handling'.at = "enqueue" => handling'.action = action
             \/ handling' = NoMsg /\ (handling.at = "ack" \/ lost')
      PROVE  AlertsInv'
  <2>1. /\ \A e \in Events : InHand(e)' <= InHand(e) /\ ToEnqueue(e)' <= ToEnqueue(e)
        /\ \A e \in Events : /\ InHand(e) \in Nat /\ InHand(e)' \in Nat
                             /\ ToEnqueue(e) \in Nat /\ ToEnqueue(e)' \in Nat
    <3>1. CASE handling' = NoMsg
      BY <1>0, <3>1 DEF InHand, ToEnqueue, NoMsg
    <3>2. CASE handling'.event = handling.event /\ handling.at # "ack"
      BY <3>2 DEF InHand, ToEnqueue
    <3> QED BY <1>6, <3>1, <3>2
  <2>2. CarrierInv'
    <3>1. handling'.event = None <=> handling'.at = "idle"
      BY <1>0, <1>6 DEF CarrierInv, NoMsg
    <3> QED BY <1>0, <1>6, <2>1, <3>1 DEF CarrierInv
  <2>3. TypeOK'
    <3>1. handling' \in [event: Events \cup {None}, at: {"idle", "ingest", "actions", "enqueue", "ack"},
                         action: Actions \cup {0}]
      BY <1>6 DEF NoMsg
    <3> QED BY <1>0, <1>6, <3>1 DEF TypeOK
  <2>4. ASSUME ~Disturbed'
        PROVE  /\ ~Disturbed /\ action' = 1 /\ (handling'.at = "enqueue" => handling'.action = 1)
               /\ \A e \in Events : copies'[e] > 0 /\ (copies[e] > 0 => alerts[e] > 0 \/ InFlight(e))
                    => alerts[e] > 0 \/ InFlight(e)'
    <3>1. ~Disturbed /\ ~lost'
      BY <1>0, <1>6, <2>4 DEF Disturbed
    <3>2. action = 1
      BY <1>0, <3>1 DEF TrackInv
    <3>3. \A e \in Events : InFlight(e) => InFlight(e)'
      BY <1>0, <1>6, <3>1, <3>2 DEF InFlight
    <3> QED BY <1>6, <3>1, <3>2, <3>3 DEF NoMsg
  <2> QED BY <1>0, <1>6, <2>1, <2>2, <2>3, <2>4, JobsStay
<1>7. CASE Ingest
  <2>1. handling.event \in Events
    BY <1>0, <1>7 DEF Ingest, CarrierInv, TypeOK
  <2>2. /\ handling' = [handling EXCEPT !.at = "actions"] /\ handling.at = "ingest"
        /\ ingested' = ingested \cup {handling.event}
        /\ UNCHANGED <<deleted, action, patches, inbox, copies, sent, lost, jobs, alerts, errors>>
    BY <1>7 DEF Ingest, triggerVars
  <2> QED BY <1>0, <1>6, <2>1, <2>2 DEF TypeOK
<1>8. CASE GetActions
  <2>1. /\ handling' = [handling EXCEPT !.at = IF action = 0 THEN "ack" ELSE "enqueue", !.action = action]
        /\ handling.at = "actions"
        /\ UNCHANGED <<deleted, action, patches, inbox, copies, sent, ingested, lost, jobs, alerts, errors>>
    BY <1>8 DEF GetActions, triggerVars
  <2> QED BY <1>0, <1>6, <2>1 DEF TypeOK
<1>9. CASE Acknowledge
  <2>1. /\ handling' = NoMsg /\ handling.at = "ack"
        /\ UNCHANGED <<deleted, action, patches, inbox, copies, sent, ingested, lost, jobs, alerts, errors>>
    BY <1>9 DEF Acknowledge, Return, triggerVars
  <2> QED BY <1>0, <1>6, <2>1 DEF TypeOK
<1>10. CASE HandleFails
  <2>1. /\ handling' = NoMsg /\ handling.at \in {"ingest", "actions", "enqueue"}
        /\ lost' = TRUE /\ errors < MaxErrors /\ errors' = errors + 1
        /\ UNCHANGED <<deleted, action, patches, inbox, copies, sent, ingested, jobs, alerts>>
    BY <1>10 DEF HandleFails, Return, Error, triggerVars
  <2> QED BY <1>0, <1>6, <2>1 DEF TypeOK
<1>11. CASE CrashServer
  <2> DEFINE pending(e) == inbox[e] + InHand(e)
  <2>1. PICK early \in SUBSET {e \in Events : pending(e) > 0} :
          /\ inbox' = [e \in Events |-> IF e \in early THEN 0 ELSE pending(e)]
          /\ lost' = (lost \/ early # {})
    BY <1>11 DEF CrashServer, InHand
  <2>2. /\ UNCHANGED <<deleted, action, patches, copies, sent, ingested, jobs, alerts>>
        /\ handling' = NoMsg /\ errors < MaxErrors /\ errors' = errors + 1
    BY <1>11 DEF CrashServer, Return, Error, triggerVars
  <2>3. \A e \in Events : /\ inbox'[e] = 0 \/ inbox'[e] = pending(e)
                          /\ InHand(e)' = 0 /\ ToEnqueue(e)' = 0
                          /\ InHand(e) \in {0, 1} /\ ToEnqueue(e) \in {0, 1}
    BY <1>0, <2>1, <2>2 DEF InHand, ToEnqueue, NoMsg
  <2>4. CarrierInv'
    BY <1>0, <2>2, <2>3 DEF CarrierInv, NoMsg
  <2>5. TypeOK'
    <3>1. \A e \in Events : inbox'[e] \in 0..MaxDeliveries
      BY <1>0, <2>3 DEF CarrierInv, TypeOK
    <3>2. inbox' \in [Events -> 0..MaxDeliveries]
      BY <2>1, <3>1
    <3>3. handling' \in [event: Events \cup {None}, at: {"idle", "ingest", "actions", "enqueue", "ack"},
                         action: Actions \cup {0}]
      BY <2>2 DEF NoMsg
    <3>4. lost' \in BOOLEAN /\ errors' \in 0..MaxErrors
      BY <1>0, <2>1, <2>2 DEF TypeOK
    <3> QED BY <1>0, <2>2, <3>2, <3>3, <3>4 DEF TypeOK
  <2>6. ASSUME ~Disturbed'
        PROVE  /\ ~Disturbed /\ action' = 1 /\ (handling'.at = "enqueue" => handling'.action = 1)
               /\ \A e \in Events : copies'[e] > 0 /\ (copies[e] > 0 => alerts[e] > 0 \/ InFlight(e))
                    => alerts[e] > 0 \/ InFlight(e)'
    <3>1. ~Disturbed /\ early = {}
      <4>1. ~lost' /\ deleted' = {} /\ ~(patches' > 0) /\ ~(errors' > MaxRetry)
        BY <2>6 DEF Disturbed
      <4>2. ~lost /\ early = {}
        BY <2>1, <4>1
      <4>3. ~(errors > MaxRetry)
        BY <1>0, <2>2, <4>1
      <4> QED BY <2>2, <4>1, <4>2, <4>3 DEF Disturbed
    <3>2. \A e \in Events : InFlight(e) => InFlight(e)'
      <4>1. \A e \in Events : inbox'[e] = inbox[e] + InHand(e)
        BY <2>1, <3>1
      <4>2. \A e \in Events : inbox[e] > 0 \/ handling.event = e => inbox'[e] > 0
        BY <1>0, <4>1 DEF InHand
      <4> QED BY <2>2, <4>2 DEF InFlight
    <3> QED BY <1>0, <2>2, <3>1, <3>2 DEF TrackInv, NoMsg
  <2> QED BY <1>0, <2>2, <2>3, <2>4, <2>5, <2>6, JobsStay
<1>12. ASSUME NEW j \in Jobs, Enqueue(j)
       PROVE  AlertsInv'
  <2> DEFINE f == handling.event
             x == [event |-> f, action |-> handling.action, at |-> "queued", retried |-> 0, late |-> FALSE]
  <2>1. /\ handling.at = "enqueue" /\ jobs[j] = NoJob /\ jobs' = [jobs EXCEPT ![j] = x]
        /\ handling' = [handling EXCEPT !.at = "ack"]
        /\ UNCHANGED <<deleted, action, patches, inbox, copies, sent, ingested, lost, alerts, errors>>
    BY <1>12 DEF Enqueue, triggerVars
  <2>2. f \in Events /\ f # None
    BY <1>0, <2>1 DEF CarrierInv, TypeOK
  <2>3. x \in Job
    <3>1. handling.action \in Actions \cup {0} /\ 0 \in 0..MaxRetry
      BY <1>0, AlertsAssumption DEF TypeOK
    <3> QED BY <2>2, <3>1 DEF Job, Active
  <2>4. TypeOK'
    <3>1. jobs' \in [Jobs -> Job]
      BY <1>0, <2>1, <2>3 DEF TypeOK, Job
    <3> QED BY <1>0, <2>1, <3>1 DEF TypeOK, Job
  <2>5. CarrierInv'
    BY <1>0, <2>1, <2>2, <2>3 DEF CarrierInv, InHand, TypeOK
  <2>6. CountInv'
    <3>1. ASSUME NEW e \in Events
          PROVE  alerts[e] + Cardinality(Waiting(e)') + inbox[e] + ToEnqueue(e)' <= copies[e] + errors
      <4>1. Cardinality(Waiting(e)') = IF e = f THEN Cardinality(Waiting(e)) + 1 ELSE Cardinality(Waiting(e))
        <5>1. j \notin Waiting(e)
          BY <1>0, <2>1 DEF Waiting, NoJob, None
        <5>2. x \in Job /\ x.event = f /\ x.at \in Trying
          BY <2>3 DEF Trying
        <5> HIDE DEF x
        <5> QED BY <1>0, <2>1, <5>1, <5>2, WaitingMoves
      <4>2. ToEnqueue(e) = (IF e = f THEN 1 ELSE 0) /\ ToEnqueue(e)' = 0
        BY <1>0, <2>1 DEF ToEnqueue, TypeOK
      <4>3. Cardinality(Waiting(e)) \in Nat /\ alerts[e] \in Nat
        BY <1>0, JobsFinite DEF Waiting, TypeOK
      <4>4. alerts[e] + Cardinality(Waiting(e)) + inbox[e] + ToEnqueue(e) <= copies[e] + errors
        BY <1>0 DEF CountInv
      <4> QED BY <1>0, <4>1, <4>2, <4>3, <4>4
    <3> QED BY <2>1, <3>1 DEF CountInv
  <2>7. LateInv'
    BY <1>0, <2>1, <2>3 DEF LateInv, TypeOK
  <2>8. TrackInv'
    <3> SUFFICES ASSUME ~Disturbed' PROVE TrackInv'
      BY DEF TrackInv
    <3>1. ~Disturbed
      BY <2>1 DEF Disturbed
    <3>2. \A i \in Jobs : i # j => jobs'[i] = jobs[i]
      BY <1>0, <2>1 DEF TypeOK
    <3>3. jobs'[j] = x
      BY <1>0, <2>1 DEF TypeOK
    <3>4. \A e \in Events : InFlight(e) => InFlight(e)'
      <4>1. \A e \in Events : e = f => InFlight(e)'
        BY <2>3, <3>3 DEF InFlight
      <4>2. ASSUME NEW e \in Events, NEW i \in Jobs, jobs[i].event = e, jobs[i].at \in {"queued", "found", "create"}
            PROVE  InFlight(e)'
        BY <2>1, <2>2, <3>2, <4>2 DEF InFlight, NoJob
      <4> QED BY <2>1, <4>1, <4>2 DEF InFlight
    <3> QED BY <1>0, <2>1, <2>3, <3>1, <3>2, <3>3, <3>4 DEF TrackInv, TypeOK
  <2> QED BY <2>4, <2>5, <2>6, <2>7, <2>8 DEF AlertsInv
(* Retry keeps a job in the queue as often as there are retries left. *)
<1>13. ASSUME NEW j \in Jobs, jobs[j].at \in {"queued"} \cup Active, Retry(j),
              UNCHANGED <<triggerVars, serverVars, alerts>>,
              errors' \in {errors, errors + 1}, errors' <= MaxErrors,
              jobs[j].at = "ack" => errors' = errors + 1,
              errors' = errors + 1 \/ Disturbed' \/ ~Rendered(jobs[j].event)
       PROVE  AlertsInv'
  <2>1. PICK x \in Job :
          /\ jobs' = [jobs EXCEPT ![j] = x]
          /\ x.event = jobs[j].event /\ x.action = jobs[j].action /\ x.late = jobs[j].late
          /\ \/ jobs[j].retried < MaxRetry /\ x.at = "queued" /\ x.retried = jobs[j].retried + 1
             \/ jobs[j].retried = MaxRetry /\ x.at = "archived" /\ x.retried = jobs[j].retried
    <3>1. jobs[j] \in Job
      BY <1>0 DEF TypeOK, Job
    <3> DEFINE tried == jobs[j].retried
               at == IF tried < MaxRetry THEN "queued" ELSE "archived"
               next == IF tried < MaxRetry THEN tried + 1 ELSE tried
               x == [jobs[j] EXCEPT !.at = at, !.retried = next]
    <3>2. next \in 0..MaxRetry /\ at \in {"queued", "archived"}
      BY <3>1 DEF Job
    <3>3. jobs' = [jobs EXCEPT ![j] = x]
      BY <1>0, <1>13 DEF Retry, TypeOK
    <3>4. /\ x \in Job /\ x.event = jobs[j].event /\ x.action = jobs[j].action
          /\ x.late = jobs[j].late /\ x.at = at /\ x.retried = next
      <4> HIDE DEF at, next
      <4> QED BY <3>1, <3>2 DEF Job
    <3>5. tried < MaxRetry \/ tried = MaxRetry
      BY <3>1 DEF Job
    <3> QED BY <3>3, <3>4, <3>5
  <2>2. x.late => deleted # {} /\ x.at \notin {"create", "ack", "done"}
    BY <1>0, <2>1 DEF LateInv
  <2>3. ASSUME ~Disturbed', Rendered(x.event)
        PROVE  x.retried <= errors' /\ x.at # "archived" /\ (jobs[j].at \in Trying => x.at \in Trying)
    <3>1. ~Disturbed /\ errors' = errors + 1 /\ errors' <= MaxRetry
      BY <1>0, <1>13, <2>1, <2>3 DEF Disturbed, triggerVars, serverVars
    <3>2. jobs[j].retried <= errors /\ jobs[j].retried \in Nat
      BY <1>0, <2>1, <2>3, <3>1 DEF TrackInv, TypeOK
    <3> QED BY <1>0, <2>1, <3>1, <3>2 DEF Trying
  <2>4. jobs[j].at \notin Trying => jobs[j].at = "ack"
    BY <1>13 DEF Trying, Active
  <2> QED BY <1>13, <2>1, <2>2, <2>3, <2>4, JobMoves
(* A job goes on. *)
<1>14. ASSUME NEW j \in Jobs, NEW at \in {"found", "create", "done"}, NEW late \in BOOLEAN,
              jobs' = [jobs EXCEPT ![j].at = at, ![j].late = late],
              UNCHANGED <<triggerVars, serverVars, alerts, errors>>,
              jobs[j].at \in {"queued"} \cup Active, late => deleted # {} /\ at = "found",
              at = "done" <=> jobs[j].at = "ack"
       PROVE  AlertsInv'
  <2> DEFINE x == [jobs[j] EXCEPT !.at = at, !.late = late]
  <2>1. jobs[j] \in Job /\ jobs' = [jobs EXCEPT ![j] = x]
    BY <1>0, <1>14 DEF TypeOK, Job
  <2>2. /\ x \in Job /\ x.event = jobs[j].event /\ x.action = jobs[j].action
        /\ x.at = at /\ x.late = late /\ x.retried = jobs[j].retried
    BY <2>1 DEF Job, Active
  <2>3. ~Disturbed' /\ Rendered(x.event) => x.retried <= errors
    BY <1>0, <1>14, <2>2 DEF TrackInv, Disturbed, triggerVars, serverVars
  <2>4. errors <= MaxErrors
    BY <1>0 DEF TypeOK
  <2> HIDE DEF x
  <2> QED BY <1>0, <1>14, <2>1, <2>2, <2>3, <2>4, JobMoves DEF Trying, Active
<1>15. ASSUME NEW j \in Jobs, GetActionConfig(j)
       PROVE  AlertsInv'
  <2>1. CASE jobs[j].action = action
    BY <1>0, <1>14, <1>15, <2>1 DEF GetActionConfig, TypeOK
  <2>2. CASE jobs[j].action # action
    <3>1. Disturbed'
      <4>1. Disturbed
        BY <1>0, <1>15, <2>2 DEF GetActionConfig, TrackInv
      <4> QED BY <1>15, <4>1 DEF GetActionConfig, Disturbed, triggerVars, serverVars
    <3>2. errors <= MaxErrors
      BY <1>0 DEF TypeOK
    <3> QED BY <1>13, <1>15, <2>2, <3>1, <3>2 DEF GetActionConfig
  <2> QED BY <2>1, <2>2
<1>16. ASSUME NEW j \in Jobs, GetByID(j)
       PROVE  AlertsInv'
  <2> DEFINE fails == deleted # {} \/ <<jobs[j].action, jobs[j].event>> \in Unrendered
  <2>1. CASE ~fails
    <3>1. jobs' = [jobs EXCEPT ![j].at = "create", ![j].late = FALSE]
      <4>1. jobs[j].late = FALSE /\ jobs[j] \in Job
        BY <1>0, <2>1 DEF LateInv, TypeOK, Job
      <4>2. jobs' = [jobs EXCEPT ![j].at = "create"]
        BY <1>16, <2>1 DEF GetByID, Step
      <4>3. [jobs[j] EXCEPT !.at = "create"] = [jobs[j] EXCEPT !.at = "create", !.late = FALSE]
        BY <4>1 DEF Job
      <4> QED BY <4>2, <4>3
    <3> QED BY <1>14, <1>16, <3>1 DEF GetByID, Active
  <2>2. CASE fails
    <3>1. Disturbed' \/ ~Rendered(jobs[j].event)
      <4>1. ~Disturbed => jobs[j].action = 1
        BY <1>0, <1>16 DEF GetByID, TrackInv
      <4>2. Disturbed <=> Disturbed'
        BY <1>16 DEF GetByID, Disturbed, triggerVars, serverVars
      <4> QED BY <2>2, <4>1, <4>2 DEF Disturbed, Rendered
    <3>2. errors <= MaxErrors
      BY <1>0 DEF TypeOK
    <3> QED BY <1>13, <1>16, <2>2, <3>1, <3>2 DEF GetByID, Active
  <2> QED BY <2>1, <2>2
<1>17. ASSUME NEW j \in Jobs, Create(j)
       PROVE  AlertsInv'
  <2> DEFINE x == [jobs[j] EXCEPT !.at = "ack"]
  <2>1. /\ jobs[j].at = "create" /\ alerts' = [alerts EXCEPT ![jobs[j].event] = @ + 1]
        /\ jobs[j] \in Job /\ jobs' = [jobs EXCEPT ![j] = x]
        /\ UNCHANGED <<triggerVars, serverVars, errors>>
    BY <1>0, <1>17 DEF Create, Step, TypeOK, Job
  <2>2. /\ x \in Job /\ x.event = jobs[j].event /\ x.action = jobs[j].action /\ x.at = "ack"
        /\ x.late = jobs[j].late /\ x.retried = jobs[j].retried
    BY <2>1 DEF Job, Active
  <2>3. ~x.late /\ errors <= MaxErrors
    BY <1>0, <2>1, <2>2 DEF LateInv, TypeOK
  <2>4. alerts'[x.event] > 0
    <3>1. jobs[j].event \in Events
      BY <1>0, <2>1 DEF CarrierInv, Job
    <3> QED BY <1>0, <2>1, <2>2, <3>1 DEF TypeOK
  <2>5. ~Disturbed' /\ Rendered(x.event) => x.retried <= errors
    BY <1>0, <2>1, <2>2 DEF TrackInv, Disturbed, triggerVars, serverVars
  <2> HIDE DEF x
  <2> QED BY <1>0, <2>1, <2>2, <2>3, <2>4, <2>5, JobMoves DEF Trying, Active
<1>18. ASSUME NEW j \in Jobs, Ack(j)
       PROVE  AlertsInv'
  <2>1. jobs' = [jobs EXCEPT ![j].at = "done", ![j].late = FALSE]
    <3>1. jobs[j].late = FALSE /\ jobs[j] \in Job
      BY <1>0, <1>18 DEF Ack, LateInv, TypeOK, Job
    <3>2. [jobs[j] EXCEPT !.at = "done"] = [jobs[j] EXCEPT !.at = "done", !.late = FALSE]
      BY <3>1 DEF Job
    <3> QED BY <1>18, <3>2 DEF Ack, Step
  <2> QED BY <1>14, <1>18, <2>1 DEF Ack, Active
<1>19. ASSUME NEW j \in Jobs, ProcessFails(j)
       PROVE  AlertsInv'
  BY <1>0, <1>13, <1>19 DEF ProcessFails, Error, TypeOK
<1> QED
  BY <1>1, <1>2, <1>3, <1>4, <1>5, <1>7, <1>8, <1>9, <1>10, <1>11, <1>12, <1>15, <1>16, <1>17,
     <1>18, <1>19 DEF Next, Handle, Work

(* Every reachable state satisfies the inductive invariant. *)
LEMMA AlertsInvCorrect == Spec => []AlertsInv
<1>1. Init => AlertsInv
  <2> SUFFICES ASSUME Init PROVE AlertsInv
    OBVIOUS
  <2> USE AlertsAssumption
  <2>1. TypeOK
    <3>1. /\ 1 \in Actions /\ 0 \in 0..MaxPatches /\ 0 \in 0..MaxDeliveries /\ 0 \in 0..MaxErrors
          /\ 0 \in 0..MaxDeliveries + MaxErrors /\ 0 \in 0..MaxRetry
      BY DEF Actions
    <3>2. NoJob \in Job
      BY <3>1 DEF NoJob, Job
    <3> QED BY <3>1, <3>2 DEF Init, TypeOK, NoMsg, Job
  <2>2. CarrierInv /\ LateInv /\ TrackInv
    BY DEF Init, CarrierInv, LateInv, TrackInv, InHand, NoMsg, NoJob, None
  <2>3. CountInv
    <3>1. \A e \in Events : Waiting(e) = {} /\ ToEnqueue(e) = 0
      BY DEF Init, Waiting, Trying, ToEnqueue, NoJob, NoMsg, None
    <3>2. \A e \in Events : Cardinality(Waiting(e)) = 0
      BY <3>1, FS_EmptySet
    <3>3. errors = 0 /\ \A e \in Events : alerts[e] = 0 /\ inbox[e] = 0 /\ copies[e] = 0
      BY DEF Init
    <3> QED BY ONLY <3>1, <3>2, <3>3 DEF CountInv
  <2> QED BY <2>1, <2>2, <2>3 DEF AlertsInv
<1>2. AlertsInv /\ [Next]_vars => AlertsInv'
  BY AlertsInductive
<1> QED BY <1>1, <1>2, PTL DEF Spec

(* Type correctness, for any events, messages, jobs and failures. *)
THEOREM AlertsTypeCorrect == Spec => []TypeOK
<1>1. AlertsInv => TypeOK
  BY DEF AlertsInv
<1> QED BY <1>1, AlertsInvCorrect, PTL

(* However MQTT, Handle, asynq and the worker repeat themselves, an event  *)
(* gets at most one alert for each message and each failure, and none from *)
(* a job that was taken up after the deletion of trigger or device.        *)
THEOREM JustifiedCorrect == Spec => []AlertsJustified
<1>1. AlertsInv => AlertsJustified
  <2> SUFFICES ASSUME AlertsInv PROVE AlertsJustified
    OBVIOUS
  <2>1. ASSUME NEW e \in Events
        PROVE  alerts[e] <= copies[e] + errors
    <3>1. alerts[e] + Cardinality(Waiting(e)) + inbox[e] + ToEnqueue(e) <= copies[e] + errors
      BY DEF AlertsInv, CountInv
    <3>2. Cardinality(Waiting(e)) \in Nat /\ ToEnqueue(e) \in Nat
      BY JobsFinite DEF Waiting, ToEnqueue
    <3>3. alerts[e] \in Nat /\ inbox[e] \in Nat /\ copies[e] \in Nat /\ errors \in Nat
      BY AlertsAssumption DEF AlertsInv, TypeOK
    <3> QED BY <3>1, <3>2, <3>3
  <2> QED BY <2>1 DEF AlertsInv, LateInv, AlertsJustified
<1> QED BY <1>1, AlertsInvCorrect, PTL

(* Unless something of Excused happened, an event the broker accepted is   *)
(* an alert already, or a message, the handler or a live job carries it.   *)
THEOREM TrackedCorrect == Spec => []FiringTracked
<1>1. AlertsInv => FiringTracked
  BY DEF AlertsInv, TrackInv, FiringTracked, Excused, Rendered
<1> QED BY <1>1, AlertsInvCorrect, PTL
=============================================================================
