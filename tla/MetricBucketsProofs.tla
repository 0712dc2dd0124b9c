------------------------- MODULE MetricBucketsProofs -------------------------
(***************************************************************************)
(* Proofs about MetricBuckets, for every set of processes, every number of *)
(* buckets and samples and every retention.                                *)
(***************************************************************************)
EXTENDS MetricBuckets, TLAPS

\* A clock that was read is not ahead of the clock.
ClocksRead ==
    \A i \in Instances :
        /\ writer[i] # None => writer[i] \in 0 .. now
        /\ reader[i] # None => reader[i] \in 0 .. now

\* While no flush ran on an overtaken clock, nothing is counted beyond the bucket
\* in use, and the bucket in use has never been forgotten.
InOrder ==
    \A i \in Instances : state[i] # "down" /\ ~behind[i] =>
        /\ \A b \in Buckets : b > bucket[i] => recorded[i][b] = 0 /\ pending[i][b] = 0
        /\ \A b \in Buckets : b = bucket[i] => pending[i][b] = recorded[i][b]

\* NothingLost, also of a process that has yet to start.
Kept ==
    \A i \in Instances, b \in Buckets :
        state[i] # "down" /\ ~behind[i]
        => \/ pending[i][b] = recorded[i][b]
           \/ pending[i][b] = 0 /\ (rows[b][i] = recorded[i][b] \/ Swept(b))

MetricInv == TypeOK /\ ClocksRead /\ NothingCountedTwice /\ InOrder /\ Kept

-----------------------------------------------------------------------------
\* An upsert stores this process's totals and leaves the other's rows, except
\* for those it sweeps.
LEMMA UpsertedRow ==
    ASSUME TypeOK, NEW i \in Instances, NEW j \in Instances, NEW b \in Buckets,
           NEW t \in 0 .. now, NEW edge \in Edges(t)
    PROVE  /\ Upserted(i, edge) \in [Buckets -> [Instances -> Nat]]
           /\ \/ Upserted(i, edge)[b][j] = 0 /\ Swept(b)
              \/ j = i /\ pending[i][b] > 0 /\ Upserted(i, edge)[b][j] = pending[i][b]
              \/ (j # i \/ pending[i][b] = 0) /\ Upserted(i, edge)[b][j] = rows[b][j]
<1>1. t \in Int /\ edge \in Int /\ b \in Int /\ now \in Int /\ Retention \in Int
  BY MetricAssumption DEF Edges, Buckets, TypeOK
<1>2. edge <= now - Retention + 1
  BY <1>1 DEF Edges
<1>3. b < edge => Swept(b)
  BY <1>1, <1>2 DEF Swept
<1>4. Upserted(i, edge)[b][j] =
         IF b < edge THEN 0
         ELSE IF j = i /\ pending[i][b] > 0 THEN pending[i][b] ELSE rows[b][j]
  BY DEF Upserted
<1>5. pending[i][b] \in Nat
  BY DEF TypeOK
<1>6. Upserted(i, edge) \in [Buckets -> [Instances -> Nat]]
  BY DEF Upserted, TypeOK
<1> QED BY <1>3, <1>4, <1>5, <1>6

\* RecordMetric flushes when its clock has left the bucket; Status and Close
\* always do.
Flushed(i, t, kept) ==
    \/ kept \in AfterFlush(i, t) /\ Flush(i, t, kept)
    \/ t = bucket[i] /\ kept = pending[i] /\ UNCHANGED <<bucket, rows, behind>>

\* What a flush leaves: totals kept or, once stored, forgotten except for bucket
\* t, and rows that hold what is forgotten.
LEMMA FlushEffect ==
    ASSUME MetricInv, NEW i \in Instances, NEW t \in 0 .. now, NEW kept,
           Flushed(i, t, kept)
    PROVE  /\ kept \in [Buckets -> Nat]
           /\ rows' \in [Buckets -> [Instances -> Nat]]
           /\ \A b \in Buckets : kept[b] <= recorded[i][b]
           /\ \A j \in Instances, b \in Buckets :
                 /\ rows'[b][j] <= recorded[j][b]
                 /\ \/ rows'[b][j] = rows[b][j]
                    \/ Swept(b)
                    \/ j = i /\ pending[i][b] > 0 /\ rows'[b][j] = pending[i][b]
           /\ \A b \in Buckets :
                 \/ kept[b] = pending[i][b]
                 \/ b # t /\ kept[b] = 0 /\ (rows'[b][i] = pending[i][b] \/ Swept(b))
<1> USE DEF MetricInv
<1>1. pending[i] \in [Buckets -> Nat] /\ Forgotten(i, t) \in [Buckets -> Nat]
  BY DEF TypeOK, Forgotten
<1>2. kept = pending[i] \/ kept = Forgotten(i, t)
  BY DEF AfterFlush, Flushed
<1>3. /\ kept \in [Buckets -> Nat]
      /\ \A b \in Buckets : kept[b] = pending[i][b] \/ (b # t /\ kept[b] = 0)
  BY <1>1, <1>2 DEF Forgotten
<1>4. \A b \in Buckets : kept[b] <= recorded[i][b]
  <2>1. \A b \in Buckets : pending[i][b] <= recorded[i][b] /\ recorded[i][b] \in Nat
    BY DEF NothingCountedTwice, TypeOK
  <2> QED BY <1>3, <2>1
<1>5. CASE kept = pending[i] /\ UNCHANGED rows
  BY <1>3, <1>4, <1>5 DEF NothingCountedTwice, TypeOK
<1>6. CASE \E edge \in Edges(t) : rows' = Upserted(i, edge)
  <2> PICK edge \in Edges(t) : rows' = Upserted(i, edge)
    BY <1>6
  <2>1. rows' \in [Buckets -> [Instances -> Nat]]
    BY UpsertedRow DEF TypeOK
  <2>2. \A j \in Instances, b \in Buckets :
           \/ rows'[b][j] = 0 /\ Swept(b)
           \/ j = i /\ pending[i][b] > 0 /\ rows'[b][j] = pending[i][b]
           \/ (j # i \/ pending[i][b] = 0) /\ rows'[b][j] = rows[b][j]
    BY UpsertedRow
  <2>3. \A j \in Instances, b \in Buckets :
           /\ recorded[j][b] \in Nat /\ rows[b][j] <= recorded[j][b]
           /\ pending[i][b] <= recorded[i][b]
    BY DEF NothingCountedTwice, TypeOK
  <2>4. \A j \in Instances, b \in Buckets : rows'[b][j] <= recorded[j][b]
    BY <2>2, <2>3
  <2>5. \A b \in Buckets : kept[b] # pending[i][b] => pending[i][b] > 0
    BY <1>1, <1>3
  <2>6. \A b \in Buckets :
           \/ kept[b] = pending[i][b]
           \/ b # t /\ kept[b] = 0 /\ (rows'[b][i] = pending[i][b] \/ Swept(b))
    BY <1>1, <1>3, <2>2, <2>5
  <2> QED BY <1>3, <1>4, <2>1, <2>2, <2>4, <2>6
<1> QED BY <1>5, <1>6, <1>2 DEF Flush, Flushed

\* On a clock that was not overtaken, a flush keeps the order of the buckets, and
\* every total it forgets is in the table.
LEMMA FlushOrder ==
    ASSUME MetricInv, NEW i \in Instances, NEW t \in 0 .. now, NEW kept,
           Flushed(i, t, kept), state[i] = "up", ~behind'[i]
    PROVE  /\ bucket'[i] = t
           /\ \A b \in Buckets : b > t => recorded[i][b] = 0 /\ kept[b] = 0
           /\ \A b \in Buckets : b = t => kept[b] = recorded[i][b]
           /\ \A b \in Buckets :
                 \/ kept[b] = recorded[i][b]
                 \/ kept[b] = 0 /\ (rows'[b][i] = recorded[i][b] \/ Swept(b))
<1> USE DEF MetricInv
<1>1. t \in Int /\ bucket[i] \in Int /\ Buckets \subseteq Int
  BY MetricAssumption DEF TypeOK, Buckets, NoBucket
<1>2. ~behind[i] /\ bucket'[i] = t /\ bucket[i] <= t
  <2>1. CASE Flush(i, t, kept)
    <3>1. behind'[i] = (behind[i] \/ t < bucket[i])
      BY <2>1, Zenon DEF Flush, TypeOK
    <3>2. bucket'[i] = t
      BY <2>1 DEF Flush, TypeOK
    <3>3. ~behind[i] /\ ~(t < bucket[i])
      BY <3>1, Zenon
    <3> QED BY <1>1, <3>2, <3>3
  <2>2. CASE t = bucket[i] /\ UNCHANGED <<bucket, rows, behind>>
    BY <1>1, <2>2
  <2> QED BY <2>1, <2>2 DEF Flushed
<1>3. \A b \in Buckets :
         \/ kept[b] = pending[i][b]
         \/ b # t /\ kept[b] = 0 /\ (rows'[b][i] = pending[i][b] \/ Swept(b))
  BY FlushEffect
<1>4. \A b \in Buckets :
         \/ rows'[b][i] = rows[b][i]
         \/ Swept(b)
         \/ pending[i][b] > 0
  BY FlushEffect
<1>5. \A b \in Buckets : b > bucket[i] => recorded[i][b] = 0 /\ pending[i][b] = 0
  BY <1>2 DEF InOrder
<1>6. \A b \in Buckets : b = bucket[i] => pending[i][b] = recorded[i][b]
  BY <1>2 DEF InOrder
<1>7. \A b \in Buckets : b > t => recorded[i][b] = 0 /\ kept[b] = 0
  BY <1>1, <1>2, <1>3, <1>5
<1>8. \A b \in Buckets : b = t => kept[b] = recorded[i][b]
  BY <1>1, <1>2, <1>3, <1>5, <1>6
<1>9. ASSUME NEW b \in Buckets
      PROVE  \/ kept[b] = recorded[i][b]
             \/ kept[b] = 0 /\ (rows'[b][i] = recorded[i][b] \/ Swept(b))
  <2>1. \/ pending[i][b] = recorded[i][b]
        \/ pending[i][b] = 0 /\ (rows[b][i] = recorded[i][b] \/ Swept(b))
    BY <1>2 DEF Kept
  <2> QED BY <1>3, <1>4, <2>1
<1> QED BY <1>2, <1>7, <1>8, <1>9

\* The other process's totals and order are its own; of its rows a flush touches
\* only those it sweeps.
LEMMA OtherKept ==
    ASSUME MetricInv, NEW i \in Instances, NEW t \in 0 .. now, NEW kept,
           Flushed(i, t, kept), NEW j \in Instances \ {i}, state[j] # "down", ~behind[j],
           NEW b \in Buckets
    PROVE  \/ pending[j][b] = recorded[j][b]
           \/ pending[j][b] = 0 /\ (rows'[b][j] = recorded[j][b] \/ Swept(b))
<1>1. rows'[b][j] = rows[b][j] \/ Swept(b)
  BY FlushEffect
<1> QED BY <1>1 DEF MetricInv, Kept

\* Only the process that flushes has its bucket and its clock's history changed.
LEMMA FlushTouches ==
    ASSUME MetricInv, NEW i \in Instances, NEW t \in 0 .. now, NEW kept, Flushed(i, t, kept)
    PROVE  /\ t \in Buckets
           /\ bucket' \in [Instances -> Buckets \cup {NoBucket}]
           /\ behind' \in [Instances -> BOOLEAN]
           /\ \A j \in Instances \ {i} : bucket'[j] = bucket[j] /\ behind'[j] = behind[j]
<1> USE DEF MetricInv, TypeOK
<1>1. t \in Buckets
  BY MetricAssumption DEF Buckets
<1>2. CASE Flush(i, t, kept)
  BY <1>1, <1>2 DEF Flush
<1>3. CASE UNCHANGED <<bucket, rows, behind>>
  BY <1>1, <1>3
<1> QED BY <1>2, <1>3 DEF Flushed

-----------------------------------------------------------------------------
\* A flush after which the process goes on (Status), or stops (Close).
LEMMA StatusOrClose ==
    ASSUME MetricInv, NEW i \in Instances, Status(i) \/ Close(i)
    PROVE  MetricInv'
<1> USE DEF MetricInv
<1> DEFINE Effect(t, kept) ==
            /\ Flush(i, t, kept)
            /\ state[i] = "up"
            /\ UNCHANGED <<now, recorded>>
            /\ \/ pending' = [pending EXCEPT ![i] = kept] /\ state' = state
               \/ /\ pending' = [pending EXCEPT ![i] = [b \in Buckets |-> 0]]
                  /\ state' = [state EXCEPT ![i] = "down"]
<1>1. PICK t \in 0 .. now : \E kept \in AfterFlush(i, t) : Effect(t, kept)
  <2>1. CASE Status(i)
    BY <2>1 DEF Status, ClocksRead
  <2>2. CASE Close(i)
    <3>1. now \in 0 .. now
      BY MetricAssumption DEF TypeOK, Buckets
    <3> QED BY <2>2, <3>1 DEF Close, Ends
  <2> QED BY <2>1, <2>2
<1>2. PICK kept \in AfterFlush(i, t) : Effect(t, kept)
  BY <1>1
<1>3. Flushed(i, t, kept)
  BY <1>2 DEF Flushed
<1>4. ClocksRead'
  BY <1>2 DEF Status, Close, Ends, ClocksRead, TypeOK
<1>5. /\ kept \in [Buckets -> Nat] /\ rows' \in [Buckets -> [Instances -> Nat]]
      /\ \A b \in Buckets : kept[b] <= recorded[i][b]
      /\ \A j \in Instances, b \in Buckets : rows'[b][j] <= recorded[j][b]
  BY <1>3, FlushEffect
<1>6. TypeOK'
  <2>1. bucket' \in [Instances -> Buckets \cup {NoBucket}] /\ behind' \in [Instances -> BOOLEAN]
    BY <1>3, FlushTouches
  <2>2. [b \in Buckets |-> 0] \in [Buckets -> Nat]
    OBVIOUS
  <2>3. pending' \in [Instances -> [Buckets -> Nat]]
    BY <1>2, <1>5, <2>2 DEF TypeOK
  <2>4. state' \in [Instances -> {"off", "up", "down"}]
    BY <1>2 DEF TypeOK
  <2>5. /\ writer' \in [Instances -> Buckets \cup {None}]
        /\ reader' \in [Instances -> Buckets \cup {None}]
    BY DEF Status, Close, Ends, TypeOK
  <2> QED BY <1>2, <1>5, <2>1, <2>3, <2>4, <2>5 DEF TypeOK
<1>7. ASSUME NEW j \in Instances, NEW b \in Buckets
      PROVE  rows'[b][j] <= recorded'[j][b] /\ pending'[j][b] <= recorded'[j][b]
  <2>1. pending[j][b] <= recorded[j][b] /\ recorded[j][b] \in Nat /\ recorded' = recorded
    BY <1>2 DEF NothingCountedTwice, TypeOK
  <2>2. CASE pending' = [pending EXCEPT ![i] = kept]
    BY <1>5, <2>1, <2>2 DEF TypeOK
  <2>3. CASE pending' = [pending EXCEPT ![i] = [c \in Buckets |-> 0]]
    <3>1. pending'[j][b] = pending[j][b] \/ pending'[j][b] = 0
      BY <2>3 DEF TypeOK
    <3> QED BY <1>5, <2>1, <3>1
  <2> QED BY <1>2, <2>2, <2>3
<1>8. ASSUME NEW j \in Instances, state'[j] # "down", ~behind'[j]
      PROVE  /\ \A b \in Buckets : b > bucket'[j] => recorded'[j][b] = 0 /\ pending'[j][b] = 0
             /\ \A b \in Buckets : b = bucket'[j] => pending'[j][b] = recorded'[j][b]
             /\ \A b \in Buckets :
                   \/ pending'[j][b] = recorded'[j][b]
                   \/ pending'[j][b] = 0 /\ (rows'[b][j] = recorded'[j][b] \/ Swept(b)')
  <2>1. \A b \in Buckets : Swept(b)' <=> Swept(b)
    BY <1>2 DEF Swept
  <2>2. CASE j = i
    <3>1. pending'[i] = kept
      BY <1>2, <1>8, <2>2 DEF Status, Close, Ends, TypeOK
    <3> QED BY <1>2, <1>3, <1>8, <2>1, <2>2, <3>1, FlushOrder
  <2>3. CASE j # i
    <3>1. /\ pending'[j] = pending[j] /\ state[j] # "down"
          /\ bucket'[j] = bucket[j] /\ behind'[j] = behind[j]
      BY <1>2, <1>3, <1>8, <2>3, FlushTouches DEF TypeOK
    <3> QED BY <1>2, <1>3, <1>8, <2>1, <2>3, <3>1, OtherKept DEF InOrder
  <2> QED BY <2>2, <2>3
<1>9. InOrder' /\ Kept'
  BY <1>8 DEF InOrder, Kept
<1> QED BY <1>4, <1>6, <1>7, <1>9 DEF NothingCountedTwice

\* A sample is counted in memory and in the history alike.
LEMMA RecordStep ==
    ASSUME MetricInv, NEW i \in Instances, Record(i)
    PROVE  MetricInv'
<1> USE DEF MetricInv
<1> PICK t \in 0 .. now : t = writer[i]
  BY DEF Record, ClocksRead
<1>1. PICK kept \in AfterFlush(i, t) :
         /\ Flushed(i, t, kept)
         /\ pending' = [pending EXCEPT ![i] = [kept EXCEPT ![t] = @ + 1]]
  BY DEF Record, Flushed
<1>2. /\ state[i] = "up"
      /\ recorded' = [recorded EXCEPT ![i][t] = @ + 1]
      /\ writer' = [writer EXCEPT ![i] = None]
      /\ UNCHANGED <<now, state, reader>>
  BY DEF Record
<1>3. ClocksRead'
  BY <1>2 DEF ClocksRead, TypeOK
<1>4. /\ kept \in [Buckets -> Nat] /\ rows' \in [Buckets -> [Instances -> Nat]]
      /\ \A b \in Buckets : kept[b] <= recorded[i][b]
      /\ \A j \in Instances, b \in Buckets : rows'[b][j] <= recorded[j][b]
  BY <1>1, FlushEffect
<1>5. /\ t \in Buckets
      /\ bucket' \in [Instances -> Buckets \cup {NoBucket}] /\ behind' \in [Instances -> BOOLEAN]
  BY <1>1, FlushTouches
<1>6. /\ pending'[i] = [kept EXCEPT ![t] = kept[t] + 1]
      /\ recorded'[i] = [recorded[i] EXCEPT ![t] = recorded[i][t] + 1]
      /\ \A j \in Instances \ {i} : pending'[j] = pending[j] /\ recorded'[j] = recorded[j]
  BY <1>1, <1>2 DEF TypeOK
<1>7. /\ pending'[i] \in [Buckets -> Nat] /\ recorded'[i] \in [Buckets -> Nat]
      /\ pending'[i][t] = kept[t] + 1 /\ recorded'[i][t] = recorded[i][t] + 1
  BY <1>4, <1>5, <1>6 DEF TypeOK
<1>8. ASSUME NEW b \in Buckets, b # t
      PROVE  pending'[i][b] = kept[b] /\ recorded'[i][b] = recorded[i][b]
  BY <1>4, <1>5, <1>6, <1>8 DEF TypeOK
<1>9. TypeOK'
  <2>1. pending' \in [Instances -> [Buckets -> Nat]]
    BY <1>1, <1>7 DEF TypeOK
  <2>2. recorded' \in [Instances -> [Buckets -> Nat]]
    BY <1>2, <1>7 DEF TypeOK
  <2>3. writer' \in [Instances -> Buckets \cup {None}]
    BY <1>2 DEF TypeOK
  <2> QED BY <1>2, <1>4, <1>5, <2>1, <2>2, <2>3 DEF TypeOK
<1>10. ASSUME NEW j \in Instances, NEW b \in Buckets
      PROVE  rows'[b][j] <= recorded'[j][b] /\ pending'[j][b] <= recorded'[j][b]
  <2>1. /\ pending[j][b] <= recorded[j][b] /\ recorded[j][b] \in Nat
        /\ kept[b] \in Nat /\ rows'[b][j] \in Nat
    BY <1>4 DEF NothingCountedTwice, TypeOK
  <2>2. CASE j = i
    <3>1. kept[b] <= recorded[i][b] /\ rows'[b][i] <= recorded[i][b]
      BY <1>4
    <3>2. CASE b = t
      BY <1>7, <2>1, <2>2, <3>1, <3>2
    <3>3. CASE b # t
      BY <1>8, <2>1, <2>2, <3>1, <3>3
    <3> QED BY <3>2, <3>3
  <2>3. CASE j # i
    BY <1>4, <1>6, <2>1, <2>3
  <2> QED BY <2>2, <2>3
<1>11. ASSUME NEW j \in Instances, state'[j] # "down", ~behind'[j]
      PROVE  /\ \A b \in Buckets : b > bucket'[j] => recorded'[j][b] = 0 /\ pending'[j][b] = 0
             /\ \A b \in Buckets : b = bucket'[j] => pending'[j][b] = recorded'[j][b]
             /\ \A b \in Buckets :
                   \/ pending'[j][b] = recorded'[j][b]
                   \/ pending'[j][b] = 0 /\ (rows'[b][j] = recorded'[j][b] \/ Swept(b)')
  <2>1. \A b \in Buckets : Swept(b)' <=> Swept(b)
    BY <1>2 DEF Swept
  <2>2. CASE j = i
    <3>1. /\ bucket'[i] = t
          /\ \A b \in Buckets : b > t => recorded[i][b] = 0 /\ kept[b] = 0
          /\ \A b \in Buckets : b = t => kept[b] = recorded[i][b]
          /\ \A b \in Buckets :
                \/ kept[b] = recorded[i][b]
                \/ kept[b] = 0 /\ (rows'[b][i] = recorded[i][b] \/ Swept(b))
      BY <1>1, <1>2, <1>11, <2>2, FlushOrder
    <3>2. \A b \in Buckets : b > t => b # t
      BY <1>5, MetricAssumption DEF Buckets
    <3>3. pending'[i][t] = recorded'[i][t]
      BY <1>5, <1>7, <3>1
    <3>4. \A b \in Buckets : b > bucket'[i] => recorded'[i][b] = 0 /\ pending'[i][b] = 0
      BY <1>8, <3>1, <3>2
    <3>5. \A b \in Buckets :
             \/ pending'[i][b] = recorded'[i][b]
             \/ pending'[i][b] = 0 /\ (rows'[b][i] = recorded'[i][b] \/ Swept(b)')
      BY <1>8, <2>1, <3>1, <3>3
    <3> QED BY <2>2, <3>1, <3>3, <3>4, <3>5
  <2>3. CASE j # i
    <3>1. /\ pending'[j] = pending[j] /\ recorded'[j] = recorded[j] /\ state[j] # "down"
          /\ bucket'[j] = bucket[j] /\ behind'[j] = behind[j]
      BY <1>1, <1>2, <1>6, <1>11, <2>3, FlushTouches
    <3> QED BY <1>1, <1>11, <2>1, <2>3, <3>1, OtherKept DEF InOrder
  <2> QED BY <2>2, <2>3
<1>12. InOrder' /\ Kept'
  BY <1>11 DEF InOrder, Kept
<1> QED BY <1>3, <1>9, <1>10, <1>12 DEF NothingCountedTwice

\* Starting, crashing, reading the clock and the passing of time count nothing;
\* what was swept stays swept.
LEMMA QuietStep ==
    ASSUME MetricInv,
           \/ Tick
           \/ \E i \in Instances : Start(i) \/ Crash(i) \/ RecordClock(i) \/ StatusClock(i)
    PROVE  MetricInv'
<1> USE DEF MetricInv
<1>1. now \in Nat /\ now' \in Nat /\ now <= now' /\ now' \in Buckets /\ Retention \in Int
  BY MetricAssumption DEF Tick, Start, Crash, Ends, RecordClock, StatusClock, TypeOK, Buckets
<1>2. \A b \in Buckets : Swept(b) => Swept(b)'
  <2> SUFFICES ASSUME NEW b \in Buckets, b < now - Retention + 1
               PROVE  b < now' - Retention + 1
    BY DEF Swept
  <2>1. b \in Int /\ now \in Int /\ now' \in Int /\ Retention \in Int
    BY <1>1 DEF Buckets
  <2>2. \A x, y, z, n \in Int : x < y - n + 1 /\ y <= z => x < z - n + 1
    OBVIOUS
  <2> QED BY <1>1, <2>1, <2>2
<1>3. CASE Tick
  <2>1. TypeOK' /\ NothingCountedTwice' /\ InOrder'
    BY <1>1, <1>3 DEF Tick, TypeOK, NothingCountedTwice, InOrder
  <2>2. Kept'
    BY <1>2, <1>3 DEF Tick, Kept
  <2>3. ClocksRead'
    BY <1>1, <1>3 DEF Tick, ClocksRead
  <2> QED BY <2>1, <2>2, <2>3
<1>4. ASSUME NEW i \in Instances, Start(i) \/ RecordClock(i) \/ StatusClock(i)
      PROVE  MetricInv'
  <2>1. UNCHANGED <<now, bucket, pending, rows, recorded, behind>>
    BY <1>4 DEF Start, RecordClock, StatusClock
  <2>2. now \in 0 .. now
    BY <1>1
  <2>3. TypeOK' /\ ClocksRead'
    BY <1>4, <2>2 DEF Start, RecordClock, StatusClock, TypeOK, ClocksRead
  <2>4. \A j \in Instances : state'[j] # "down" => state[j] # "down"
    BY <1>4 DEF Start, RecordClock, StatusClock, TypeOK
  <2>5. \A b \in Buckets : Swept(b)' <=> Swept(b)
    BY <2>1 DEF Swept
  <2> QED BY <2>1, <2>3, <2>4, <2>5 DEF NothingCountedTwice, InOrder, Kept
<1>5. ASSUME NEW i \in Instances, Crash(i)
      PROVE  MetricInv'
  <2>1. /\ pending' = [pending EXCEPT ![i] = [b \in Buckets |-> 0]]
        /\ state' = [state EXCEPT ![i] = "down"]
        /\ UNCHANGED <<now, bucket, rows, recorded, behind>>
    BY <1>5 DEF Crash, Ends
  <2>2. [b \in Buckets |-> 0] \in [Buckets -> Nat]
    OBVIOUS
  <2>3. TypeOK' /\ ClocksRead'
    BY <1>5, <2>1, <2>2 DEF Crash, Ends, TypeOK, ClocksRead
  <2>4. \A j \in Instances, b \in Buckets :
           /\ recorded[j][b] \in Nat /\ pending[j][b] <= recorded[j][b]
           /\ pending'[j][b] = 0 \/ pending'[j][b] = pending[j][b]
    BY <2>1 DEF TypeOK, NothingCountedTwice
  <2>5. NothingCountedTwice'
    BY <2>1, <2>4 DEF NothingCountedTwice
  <2>6. \A j \in Instances : state'[j] # "down" => state[j] # "down" /\ pending'[j] = pending[j]
    BY <2>1 DEF TypeOK
  <2>7. \A b \in Buckets : Swept(b)' <=> Swept(b)
    BY <2>1 DEF Swept
  <2>8. InOrder' /\ Kept'
    BY <2>1, <2>6, <2>7 DEF InOrder, Kept
  <2> QED BY <2>3, <2>5, <2>8
<1> QED BY <1>3, <1>4, <1>5

-----------------------------------------------------------------------------
\* Before anything is recorded nothing can be lost.
LEMMA InitMetric == Init => MetricInv
<1> SUFFICES ASSUME Init PROVE MetricInv
  OBVIOUS
<1>1. TypeOK /\ ClocksRead
  BY MetricAssumption DEF Init, TypeOK, ClocksRead, Buckets
<1>2. NothingCountedTwice /\ InOrder /\ Kept
  BY DEF Init, NothingCountedTwice, InOrder, Kept
<1> QED BY <1>1, <1>2 DEF MetricInv

\* The invariant of the metrics store of any number of processes.
THEOREM MetricInvariant == Spec => []MetricInv
<1>1. ASSUME MetricInv, [Next]_vars PROVE MetricInv'
  <2>1. CASE UNCHANGED vars
    BY <1>1, <2>1 DEF vars, MetricInv, TypeOK, ClocksRead, NothingCountedTwice, InOrder, Kept, Swept
  <2>2. CASE Tick
    BY <1>1, <2>2, QuietStep
  <2>3. ASSUME NEW i \in Instances, Step(i) PROVE MetricInv'
    BY <1>1, <2>3, QuietStep, RecordStep, StatusOrClose DEF Step
  <2> QED BY <1>1, <2>1, <2>2, <2>3 DEF Next
<1> QED BY <1>1, InitMetric, PTL DEF Spec

\* MetricBuckets!NothingCountedTwice: failed, repeated and overlapping flushes
\* never make a sample count twice.
THEOREM CountedOnce == Spec => []NothingCountedTwice
<1>1. MetricInv => NothingCountedTwice
  BY DEF MetricInv
<1> QED BY <1>1, MetricInvariant, PTL

\* Type correctness, with counts that are numbers (MetricBuckets!TypeOK).
THEOREM MetricTypes == Spec => []TypeOK
<1>1. MetricInv => TypeOK
  BY DEF MetricInv
<1> QED BY <1>1, MetricInvariant, PTL

\* MetricBuckets!NothingLost: a process that never flushed on an overtaken clock
\* has every sample in memory or in the table until retention.
THEOREM FailedFlushLosesNothing == Spec => []NothingLost
<1>1. MetricInv => NothingLost
  BY DEF MetricInv, Kept, NothingLost
<1> QED BY <1>1, MetricInvariant, PTL

=============================================================================
