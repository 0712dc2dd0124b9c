---------------------------- MODULE MetricBuckets ----------------------------
(***************************************************************************)
(* The outcome and latency counters of src/server/storage.go: kept in      *)
(* memory per time bucket, upserted into the metric_buckets table that the *)
(* blue and the green process share, forgotten in memory once a later      *)
(* bucket is open.                                                         *)
(*                                                                         *)
(* A histogram of one category is the number of its samples; time is the   *)
(* number of the open bucket; a database transaction is one step           *)
(* (BEGIN IMMEDIATE lets one process write at a time).                     *)
(***************************************************************************)
EXTENDS Integers, FiniteSets

CONSTANTS
    Instances,   \* processes, each under the random id of one openLocalStore
    LastBucket,  \* bound: time stops here
    MaxSamples,  \* bound: samples one process records
    Retention,   \* metricRetention, in buckets
    None

Buckets == 0 .. LastBucket
NoBucket == -1   \* s.bucket before the first flush

ASSUME MetricAssumption ==
    /\ LastBucket \in Nat
    /\ MaxSamples \in Nat
    /\ Retention \in Nat \ {0}
    /\ None \notin Buckets

VARIABLES
    now,       \* the open bucket by the clock
    state,     \* of each process: off, up, down
    bucket,    \* s.bucket
    pending,   \* s.pending
    rows,      \* metric_buckets
    writer,    \* the clock as RecordMetric read it, before it has s.mu
    reader,    \* the clock as Status read it, before it has s.mu
    recorded,  \* history: samples counted under each bucket
    behind     \* history: a flush ran on a clock older than s.bucket

vars == <<now, state, bucket, pending, rows, writer, reader, recorded, behind>>

LOCAL INSTANCE Functions

Open(i) == {b \in Buckets : pending[i][b] > 0}
Samples(i) == SumFunctionOnSet(recorded[i], Buckets)

-----------------------------------------------------------------------------
(* flushMetrics, under s.mu *)

\* What commits: this process's running totals, and the sweep of rows older
\* than metricRetention.
Upserted(i, edge) ==
    [b \in Buckets |-> [j \in Instances |->
        IF b < edge THEN 0
        ELSE IF j = i /\ pending[i][b] > 0 THEN pending[i][b] ELSE rows[b][j]]]

\* now - metricRetention falls somewhere in a bucket.
Edges(t) == {t - Retention, t - Retention + 1}

Forgotten(i, t) == [b \in Buckets |-> IF b = t THEN pending[i][b] ELSE 0]

\* Mutant: a bucket is forgotten although its transaction failed.
FlushForgetsFailed(i, t, kept) ==
    /\ bucket' = [bucket EXCEPT ![i] = t]
    /\ behind' = [behind EXCEPT ![i] = @ \/ t < bucket[i]]
    /\ \/ UNCHANGED rows
       \/ \E edge \in Edges(t) : rows' = Upserted(i, edge)
    /\ kept = Forgotten(i, t)

\* Mutant: the upsert adds to the row instead of replacing it.
FlushAdds(i, t, kept) ==
    /\ bucket' = [bucket EXCEPT ![i] = t]
    /\ behind' = [behind EXCEPT ![i] = @ \/ t < bucket[i]]
    /\ \/ kept = pending[i] /\ UNCHANGED rows
       \/ /\ rows' = [b \in Buckets |-> [rows[b] EXCEPT ![i] = @ + pending[i][b]]]
          /\ kept \in {pending[i], Forgotten(i, t)}

\* `kept` is s.pending afterwards.  A transaction may fail whole, or commit and
\* still report an error.
Flush(i, t, kept) ==
    /\ bucket' = [bucket EXCEPT ![i] = t]
    /\ behind' = [behind EXCEPT ![i] = @ \/ t < bucket[i]]
    /\ \/ kept = pending[i] /\ UNCHANGED rows
       \/ /\ Open(i) # {}
          /\ \E edge \in Edges(t) : rows' = Upserted(i, edge)
          /\ kept \in {pending[i], Forgotten(i, t)}

AfterFlush(i, t) == {pending[i], Forgotten(i, t)}

-----------------------------------------------------------------------------
(* RecordMetric, called by the one goroutine of writeMetrics *)

RecordClock(i) ==
    /\ state[i] = "up"
    /\ writer[i] = None
    /\ Samples(i) < MaxSamples
    /\ writer' = [writer EXCEPT ![i] = now]
    /\ UNCHANGED <<now, state, bucket, pending, rows, reader, recorded, behind>>

\* The sample is counted under s.bucket whether or not the flush worked.
Record(i) ==
    LET t == writer[i] IN
    /\ state[i] = "up"
    /\ t # None
    /\ \E kept \in AfterFlush(i, t) :
          /\ IF t # bucket[i]
             THEN Flush(i, t, kept)
             ELSE kept = pending[i] /\ UNCHANGED <<bucket, rows, behind>>
          /\ pending' = [pending EXCEPT ![i] = [kept EXCEPT ![t] = @ + 1]]
    /\ recorded' = [recorded EXCEPT ![i][t] = @ + 1]
    /\ writer' = [writer EXCEPT ![i] = None]
    /\ UNCHANGED <<now, state, reader>>

-----------------------------------------------------------------------------
(* Status, one call at a time under the gateway's statusMu.  What it reads  *)
(* after its flush changes nothing.                                         *)

StatusClock(i) ==
    /\ state[i] = "up"
    /\ reader[i] = None
    /\ reader' = [reader EXCEPT ![i] = now]
    /\ UNCHANGED <<now, state, bucket, pending, rows, writer, recorded, behind>>

Status(i) ==
    /\ state[i] = "up"
    /\ reader[i] # None
    /\ \E kept \in AfterFlush(i, reader[i]) :
          /\ Flush(i, reader[i], kept)
          /\ pending' = [pending EXCEPT ![i] = kept]
    /\ reader' = [reader EXCEPT ![i] = None]
    /\ UNCHANGED <<now, state, writer, recorded>>

-----------------------------------------------------------------------------
(* The process *)

Start(i) ==
    /\ state[i] = "off"
    /\ state' = [state EXCEPT ![i] = "up"]
    /\ UNCHANGED <<now, bucket, pending, rows, writer, reader, recorded, behind>>

Ends(i) ==
    /\ state[i] = "up"
    /\ state' = [state EXCEPT ![i] = "down"]
    /\ writer' = [writer EXCEPT ![i] = None]
    /\ reader' = [reader EXCEPT ![i] = None]
    /\ pending' = [pending EXCEPT ![i] = [b \in Buckets |-> 0]]
    /\ UNCHANGED <<now, recorded>>

\* Close reads the clock under s.mu.
Close(i) ==
    /\ Ends(i)
    /\ \E kept \in AfterFlush(i, now) : Flush(i, now, kept)

\* A crash, or os.Exit after a drain that timed out.
Crash(i) == Ends(i) /\ UNCHANGED <<bucket, rows, behind>>

Tick ==
    /\ now < LastBucket
    /\ now' = now + 1
    /\ UNCHANGED <<state, bucket, pending, rows, writer, reader, recorded, behind>>

-----------------------------------------------------------------------------
Init ==
    /\ now = 0
    /\ state = [i \in Instances |-> "off"]
    /\ bucket = [i \in Instances |-> NoBucket]
    /\ pending = [i \in Instances |-> [b \in Buckets |-> 0]]
    /\ rows = [b \in Buckets |-> [i \in Instances |-> 0]]
    /\ writer = [i \in Instances |-> None]
    /\ reader = [i \in Instances |-> None]
    /\ recorded = [i \in Instances |-> [b \in Buckets |-> 0]]
    /\ behind = [i \in Instances |-> FALSE]

Step(i) ==
    \/ Start(i) \/ Close(i) \/ Crash(i)
    \/ RecordClock(i) \/ Record(i)
    \/ StatusClock(i) \/ Status(i)

Next == Tick \/ \E i \in Instances : Step(i)

Spec == Init /\ [][Next]_vars

-----------------------------------------------------------------------------
(* Properties *)

TypeOK ==
    /\ now \in Buckets
    /\ state \in [Instances -> {"off", "up", "down"}]
    /\ bucket \in [Instances -> Buckets \cup {NoBucket}]
    /\ pending \in [Instances -> [Buckets -> Nat]]
    /\ rows \in [Buckets -> [Instances -> Nat]]
    /\ writer \in [Instances -> Buckets \cup {None}]
    /\ reader \in [Instances -> Buckets \cup {None}]
    /\ recorded \in [Instances -> [Buckets -> Nat]]
    /\ behind \in [Instances -> BOOLEAN]

\* No sample is counted twice, whatever flushes fail, are repeated after a
\* commit that reported an error, or meet the other process's.
NothingCountedTwice ==
    \A i \in Instances, b \in Buckets :
        rows[b][i] <= recorded[i][b] /\ pending[i][b] <= recorded[i][b]

\* Retention may have swept the rows of this bucket.
Swept(b) == b < now - Retention + 1

\* A running process has each of its samples in memory or in the table, until
\* retention: a failed flush loses nothing.  The one exception is a flush on a
\* clock older than the bucket in use.
NothingLost ==
    \A i \in Instances, b \in Buckets :
        state[i] = "up" /\ ~behind[i]
        => \/ pending[i][b] = recorded[i][b]
           \/ pending[i][b] = 0 /\ (rows[b][i] = recorded[i][b] \/ Swept(b))

\* "flushMetrics upserts this process's running totals and forgets closed
\* buckets once they are stored": a running total never falls, so neither does
\* its row before retention.
RunningTotalsNeverFall ==
    [][\A i \in Instances, b \in Buckets :
          rows'[b][i] < rows[b][i] => Swept(b)']_vars

=============================================================================
