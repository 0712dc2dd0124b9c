----------------------------- MODULE LocalStore -----------------------------
(***************************************************************************)
(* The process-local half of src/server/cache.go: storeLocal, localGet and *)
(* removeLocalLocked, each atomic under c.mu.  Values and errors live in   *)
(* two maps with a FIFO order each; values are bounded in bytes and in     *)
(* number, errors in number.                                               *)
(*                                                                         *)
(* Abstracted: a value is its cacheEntryMemorySize, an error is its code,  *)
(* and expiresAt is whether it has passed.                                 *)
(***************************************************************************)
EXTENDS Integers, FiniteSets, Sequences, SequencesExt

CONSTANTS
    Keys,
    Sizes,      \* sizes of the values offered, some larger than MaxBytes
    Codes,      \* errors offered
    MaxBytes,   \* c.maxBytes
    ValueCap,   \* persistentLocalEntryCap
    ErrorCap,   \* errorLocalEntryCap
    None

ASSUME BoundsAssumption ==
    /\ Sizes \subseteq Nat \ {0}
    /\ MaxBytes \in Nat \ {0}
    /\ ValueCap \in Nat \ {0}
    /\ ErrorCap \in Nat \ {0}
ASSUME NoneAssumption == None \notin [item : Sizes \cup Codes, live : BOOLEAN]

VARIABLES
    entries,     \* c.entries
    errEntries,  \* c.errEntries
    order,       \* c.order, oldest first
    errOrder,    \* c.errOrder
    usedBytes,   \* c.usedBytes
    last         \* history: what was stored last under each key

vars == <<entries, errEntries, order, errOrder, usedBytes, last>>

Size(k) == entries[k].item
Entry(item) == [item |-> item, live |-> TRUE]
Stored(m) == {k \in Keys : m[k] # None}

\* slices.Index and slices.Delete: the first occurrence goes.
Without(s, k) == RemoveFirst(s, k)

\* Mutant: a removed value's bytes stay counted.
BytesKept(k) == usedBytes

\* removeLocalLocked on c.usedBytes: never below zero.
BytesWithout(k) ==
    IF entries[k] = None THEN usedBytes
    ELSE IF usedBytes > Size(k) THEN usedBytes - Size(k) ELSE 0

\* What the eviction loop of storeLocal leaves: it drops from the front of `ord`
\* while the bytes or the number of entries are over their limit.
DroppedBytes(m, ord, n) == SumFunctionOnSet([i \in 1 .. n |-> m[ord[i]].item], 1 .. n)
Overfull(m, ord, used, n) ==
    \/ used - DroppedBytes(m, ord, n) > MaxBytes
    \/ Cardinality(Stored(m)) - n > ValueCap
Evictions(m, ord, used) ==
    CHOOSE n \in 0 .. Len(ord) :
        /\ n = Len(ord) \/ ~Overfull(m, ord, used, n)
        /\ \A i \in 0 .. n - 1 : Overfull(m, ord, used, i)

-----------------------------------------------------------------------------
(* Mutants *)

\* The replaced entry of the same key is not removed first.
StoreValueOverOld(k, size) ==
    /\ size <= MaxBytes
    /\ last' = [last EXCEPT ![k] = size]
    /\ errEntries' = [errEntries EXCEPT ![k] = None]
    /\ errOrder' = Without(errOrder, k)
    /\ LET m == [entries EXCEPT ![k] = Entry(size)]
           ord == Append(order, k)
           used == usedBytes + size
           n == Evictions(m, ord, used)
       IN  /\ entries' = [o \in Keys |-> IF o \in {ord[i] : i \in 1 .. n} THEN None ELSE m[o]]
           /\ order' = SubSeq(ord, n + 1, Len(ord))
           /\ usedBytes' = used - DroppedBytes(m, ord, n)

\* A value leaves the error of its key in place.
StoreValueKeepError(k, size) ==
    /\ size <= MaxBytes
    /\ last' = [last EXCEPT ![k] = size]
    /\ LET m == [entries EXCEPT ![k] = Entry(size)]
           ord == Append(Without(order, k), k)
           used == BytesWithout(k) + size
           n == Evictions(m, ord, used)
       IN  /\ entries' = [o \in Keys |-> IF o \in {ord[i] : i \in 1 .. n} THEN None ELSE m[o]]
           /\ order' = SubSeq(ord, n + 1, Len(ord))
           /\ usedBytes' = used - DroppedBytes(m, ord, n)
    /\ UNCHANGED <<errEntries, errOrder>>

\* Room is made from the new end of the order.
StoreValueDropNewest(k, size) ==
    /\ size <= MaxBytes
    /\ last' = [last EXCEPT ![k] = size]
    /\ errEntries' = [errEntries EXCEPT ![k] = None]
    /\ errOrder' = Without(errOrder, k)
    /\ LET m == [entries EXCEPT ![k] = Entry(size)]
           ord == <<k>> \o Reverse(Without(order, k))
           used == BytesWithout(k) + size
           n == Evictions(m, Tail(ord), used)
       IN  /\ entries' = [o \in Keys |-> IF o \in {ord[i + 1] : i \in 1 .. n} THEN None ELSE m[o]]
           /\ order' = Append(Reverse(SubSeq(ord, n + 2, Len(ord))), k)
           /\ usedBytes' = used - DroppedBytes(m, Tail(ord), n)

-----------------------------------------------------------------------------
(* storeLocal *)

StoreValue(k, size) ==
    /\ size <= MaxBytes
    /\ last' = [last EXCEPT ![k] = size]
    /\ errEntries' = [errEntries EXCEPT ![k] = None]
    /\ errOrder' = Without(errOrder, k)
    /\ LET m == [entries EXCEPT ![k] = Entry(size)]
           ord == Append(Without(order, k), k)
           used == BytesWithout(k) + size
           n == Evictions(m, ord, used)
       IN  /\ entries' = [o \in Keys |-> IF o \in {ord[i] : i \in 1 .. n} THEN None ELSE m[o]]
           /\ order' = SubSeq(ord, n + 1, Len(ord))
           /\ usedBytes' = used - DroppedBytes(m, ord, n)

\* A value larger than the whole cache is not stored; what the key had stays.
StoreTooLarge(size) ==
    /\ size > MaxBytes
    /\ UNCHANGED vars

StoreError(k, code) ==
    /\ last' = [last EXCEPT ![k] = code]
    /\ entries' = [entries EXCEPT ![k] = None]
    /\ order' = Without(order, k)
    /\ usedBytes' = BytesWithout(k)
    /\ LET m == [errEntries EXCEPT ![k] = Entry(code)]
           ord == Append(Without(errOrder, k), k)
       IN  IF Len(ord) > ErrorCap
           THEN /\ errEntries' = [m EXCEPT ![Head(ord)] = None]
                /\ errOrder' = Tail(ord)
           ELSE /\ errEntries' = m
                /\ errOrder' = ord

-----------------------------------------------------------------------------
(* localGet: values first, then errors; what it finds expired it removes.  A *)
(* hit changes nothing.                                                      *)

GetExpiredValue(k) ==
    /\ entries[k] # None
    /\ ~entries[k].live
    /\ entries' = [entries EXCEPT ![k] = None]
    /\ order' = Without(order, k)
    /\ usedBytes' = BytesWithout(k)
    /\ UNCHANGED <<errEntries, errOrder, last>>

GetExpiredError(k) ==
    /\ entries[k] = None
    /\ errEntries[k] # None
    /\ ~errEntries[k].live
    /\ errEntries' = [errEntries EXCEPT ![k] = None]
    /\ errOrder' = Without(errOrder, k)
    /\ UNCHANGED <<entries, order, usedBytes, last>>

\* Time passes an entry's expiresAt.
Expire(k) ==
    /\ \/ /\ entries[k] # None
          /\ entries' = [entries EXCEPT ![k].live = FALSE]
          /\ UNCHANGED errEntries
       \/ /\ errEntries[k] # None
          /\ errEntries' = [errEntries EXCEPT ![k].live = FALSE]
          /\ UNCHANGED entries
    /\ UNCHANGED <<order, errOrder, usedBytes, last>>

-----------------------------------------------------------------------------
Init ==
    /\ entries = [k \in Keys |-> None]
    /\ errEntries = [k \in Keys |-> None]
    /\ order = <<>>
    /\ errOrder = <<>>
    /\ usedBytes = 0
    /\ last = [k \in Keys |-> None]

Next ==
    \E k \in Keys :
        \/ \E size \in Sizes : StoreValue(k, size) \/ StoreTooLarge(size)
        \/ \E code \in Codes : StoreError(k, code)
        \/ GetExpiredValue(k) \/ GetExpiredError(k) \/ Expire(k)

Spec == Init /\ [][Next]_vars

-----------------------------------------------------------------------------
(* Properties *)

EntryType(items) == [item : items, live : BOOLEAN] \cup {None}

TypeOK ==
    /\ entries \in [Keys -> EntryType(Sizes)]
    /\ errEntries \in [Keys -> EntryType(Codes)]
    /\ order \in Seq(Keys)
    /\ errOrder \in Seq(Keys)
    /\ usedBytes \in Nat
    /\ last \in [Keys -> Sizes \cup Codes \cup {None}]

\* usedBytes, adjusted by every store, replacement, eviction and expiry, is the
\* size of what the cache holds (its floor at zero never hides a drift), and
\* what it holds fits, in bytes and in number.
BytesExact ==
    /\ usedBytes = SumFunctionOnSet([k \in Stored(entries) |-> Size(k)], Stored(entries))
    /\ usedBytes <= MaxBytes
    /\ Cardinality(Stored(entries)) <= ValueCap
    /\ Cardinality(Stored(errEntries)) <= ErrorCap

Enumerates(ord, m) ==
    /\ {ord[i] : i \in DOMAIN ord} = Stored(m)
    /\ \A i, j \in DOMAIN ord : ord[i] = ord[j] => i = j

\* Each order lists exactly the keys of its map, once: the eviction loops, which
\* index the map by the order's head, never meet a key that is gone.  No key is
\* in both, so a late error cannot hide behind a value and come back when the
\* value expires.
OrderIsEntries ==
    /\ TypeOK
    /\ Enumerates(order, entries) /\ Enumerates(errOrder, errEntries)
    /\ Stored(entries) \cap Stored(errEntries) = {}

\* Eviction is first in, first out: when making room for another key costs a
\* key its value, every value stored before that one goes too.
Older(a, b) ==
    \E i, j \in DOMAIN order : i < j /\ order[i] = a /\ order[j] = b
OldestGoesFirst ==
    [][\A a, b \in Stored(entries), c \in Keys :
          /\ Older(a, b) /\ c # a
          /\ entries'[c] \notin {None, entries[c]}
          /\ entries'[b] = None
          => entries'[a] = None]_vars

\* To its callers it is a map that may forget.
Content ==
    [k \in Keys |->
        IF entries[k] # None THEN entries[k].item
        ELSE IF errEntries[k] # None THEN errEntries[k].item ELSE None]
Map == INSTANCE EntryMap WITH content <- Content, Items <- Sizes \cup Codes
ImplementsEntryMap == Map!Spec

=============================================================================
