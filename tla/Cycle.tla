-------------------------------- MODULE Cycle --------------------------------
(***************************************************************************)
(* cycle.Tracker (src/cycle/cycle.go): the durations of the last Window    *)
(* cycles and their statistics.  Every method is one critical section, so  *)
(* it is one step, of whichever goroutine calls it.                        *)
(*                                                                         *)
(* `log' is a history variable: every duration End recorded since Reset.   *)
(* Slices become sequences, from 1; the sorted copy of the window becomes  *)
(* its order statistics.  Percentiles are computed with integers, where    *)
(* the code multiplies floats and rounds to the nearest nanosecond.        *)
(***************************************************************************)
EXTENDS Integers, Sequences, FiniteSetsExt

CONSTANTS
  Window,     \* t.window: New ignores a WithWindow that is not positive
  MaxTime,    \* bound on the clock
  MaxCycles   \* bound on the cycles recorded between resets

ASSUME WindowAssumption == Window \in Nat \ {0}
ASSUME BoundAssumption == MaxTime \in Nat /\ MaxCycles \in Nat

VARIABLES
  inFlightStartedAt,  \* t.inFlightStartedAt, or NoTime for its zero value
  durations,          \* t.durations, oldest first
  totalCount,         \* t.totalCount
  log,
  now                 \* the clock

vars == <<inFlightStartedAt, durations, totalCount, log, now>>

Time == 0 .. MaxTime
NoTime == -1

Init ==
  /\ inFlightStartedAt = NoTime
  /\ durations = <<>> /\ totalCount = 0 /\ log = <<>>
  /\ now = 0

-----------------------------------------------------------------------------

\* Start discards the cycle in flight, if there is one.
Start ==
  /\ inFlightStartedAt' = now
  /\ UNCHANGED <<durations, totalCount, log, now>>

\* A plausible slip: the window evicts one cycle late.
EvictLate(s) == IF Len(s) > Window THEN Tail(s) ELSE s

\* A full window makes room by dropping its oldest cycle.
Evict(s) == IF Len(s) >= Window THEN Tail(s) ELSE s

\* End records the cycle in flight.
End ==
  /\ inFlightStartedAt /= NoTime
  /\ totalCount < MaxCycles
  /\ LET d == now - inFlightStartedAt IN
       /\ durations' = Append(Evict(durations), d)
       /\ log' = Append(log, d)
  /\ totalCount' = totalCount + 1
  /\ inFlightStartedAt' = NoTime
  /\ UNCHANGED now

\* Cancel discards the cycle in flight.
Cancel ==
  /\ inFlightStartedAt' = NoTime
  /\ UNCHANGED <<durations, totalCount, log, now>>

\* A plausible slip: Reset keeps the cycles in the window.
ResetCounter ==
  /\ totalCount' = 0 /\ log' = <<>>
  /\ UNCHANGED <<inFlightStartedAt, durations, now>>

\* Reset forgets the cycles recorded, not the one in flight.
Reset ==
  /\ durations' = <<>> /\ totalCount' = 0 /\ log' = <<>>
  /\ UNCHANGED <<inFlightStartedAt, now>>

Tick ==
  /\ now < MaxTime
  /\ now' = now + 1
  /\ UNCHANGED <<inFlightStartedAt, durations, totalCount, log>>

Next == Start \/ End \/ Cancel \/ Reset \/ Tick

Spec == Init /\ [][Next]_vars

-----------------------------------------------------------------------------
(***************************************************************************)
(* Stats, of a window s that is not empty.                                 *)
(***************************************************************************)

Samples(s) == {s[i] : i \in DOMAIN s}
Below(s, v) == {i \in DOMAIN s : s[i] < v}
Above(s, v) == {i \in DOMAIN s : s[i] > v}

\* sorted[k]: the least sample with more than k samples up to it.
Sorted(s, k) == Min({v \in Samples(s) : Len(s) - Cardinality(Above(s, v)) > k})

Total(s) ==
  LET sum[n \in 0 .. Len(s)] == IF n = 0 THEN 0 ELSE sum[n - 1] + s[n]
  IN  sum[Len(s)]

Mean(s) == Total(s) \div Len(s)

\* A plausible slip: the index is a share of n, not of n - 1.
PercentileOfN(s, p) ==
  LET idx == p * Len(s)
      lo  == idx \div 100
  IN  IF lo >= Len(s) - 1 THEN Sorted(s, Len(s) - 1)
      ELSE Sorted(s, lo)
             + ((idx % 100) * (Sorted(s, lo + 1) - Sorted(s, lo)) + 50) \div 100

\* percentile, with p in hundredths: linear interpolation between neighbours.
Percentile(s, p) ==
  LET idx == p * (Len(s) - 1)
      lo  == idx \div 100
  IN  IF lo >= Len(s) - 1 THEN Sorted(s, Len(s) - 1)
      ELSE Sorted(s, lo)
             + ((idx % 100) * (Sorted(s, lo + 1) - Sorted(s, lo)) + 50) \div 100

Stats(s) ==
  [last |-> s[Len(s)], min |-> Sorted(s, 0), max |-> Sorted(s, Len(s) - 1),
   mean |-> Mean(s), p50 |-> Percentile(s, 50), p95 |-> Percentile(s, 95)]

-----------------------------------------------------------------------------

\* Every variable has its type; the window holds Window cycles at most.
TypeOK ==
  /\ inFlightStartedAt \in {NoTime} \union 0 .. now
  /\ durations \in Seq(Time) /\ Len(durations) <= Window
  /\ totalCount \in 0 .. MaxCycles
  /\ log \in Seq(Time)
  /\ now \in Time

\* The window is the latest cycles recorded since Reset, oldest first: all of
\* them until there are more than Window; Count counts every one, so HasSamples
\* says whether Stats has anything to show (cycle.go:46-49, 141-151).  The count
\* is since Reset although cycle.go:51-52, 133-134 and 191-192 promise one over
\* the Tracker's whole life: Reset clears it, and its own comment says so.
WindowIsLatest ==
  /\ totalCount = Len(log)
  /\ Len(durations) = IF totalCount < Window THEN totalCount ELSE Window
  /\ \A i \in DOMAIN durations : durations[i] = log[totalCount - Len(durations) + i]

\* The statistics describe the cycles since Reset: each lies between the
\* shortest and the longest of the latest Window cycles, and at most p hundredths
\* of them lie below the p-th percentile, 100 - p hundredths above it, rounded
\* up (cycle.go:190-207, 218-244).
StatsDescribe ==
  totalCount > 0 =>
    LET first == IF totalCount > Window THEN totalCount - Window + 1 ELSE 1
        recent == SubSeq(log, first, totalCount)
        st == Stats(durations)
        Share(p) == (p * (Len(recent) - 1) + 99) \div 100
        Splits(p, v) == /\ Cardinality(Below(recent, v)) <= Share(p)
                        /\ Cardinality(Above(recent, v)) <= Share(100 - p)
    IN  /\ st.last = log[totalCount]
        /\ st.min = Min(Samples(recent)) /\ st.max = Max(Samples(recent))
        /\ \A v \in {st.last, st.mean, st.p50, st.p95} : st.min <= v /\ v <= st.max
        /\ st.p50 <= st.p95
        /\ Splits(50, st.p50) /\ Splits(95, st.p95)
=============================================================================
