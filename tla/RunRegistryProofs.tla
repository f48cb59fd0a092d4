-------------------------- MODULE RunRegistryProofs --------------------------
(***************************************************************************)
(* Proofs about RunRegistry: as long as one ingest runs at a time and the  *)
(* log is not truncated, every line is counted once, for any records, keys *)
(* and bounds, whatever dies in between.                                   *)
(***************************************************************************)
EXTENDS RunRegistryProperties, FiniteSetTheorems, WellFoundedInduction, TLAPS

\* One process at a time ingests, and nothing shortens the log.
Alone ==
    /\ \A p, q \in Process : p = q
    /\ Garbled \notin Key
    /\ Bound \in [Counter -> Nat] /\ Bound["truncations"] = 0

Line == [key: Key \cup {Garbled}, line: Nat]
RowType == [key: Key, line: Nat, ordinal: Nat]
IngestType ==
    [stage: {"idle", "opened", "read", "seeded"}, from: Nat, tail: Seq(Line), next: [Key -> Nat]]

TypeOK ==
    /\ log \in Seq(Line) /\ fragment \in BOOLEAN
    /\ store \subseteq RowType /\ offset \in Nat
    /\ ingest \in [Process -> IngestType]
    /\ used \in [Counter -> Nat]

\* Lines are numbered by their place, and the offset is within the log.
LogInv ==
    /\ Len(log) = used["lines"] /\ used["truncations"] = 0
    /\ \A i \in 1..Len(log) : log[i].line = i
    /\ offset =< Len(log)

\* The rows are the lines below the offset, each once.
StoreInv ==
    /\ \A r \in store : r.line \in 1..offset /\ r.ordinal < offset
    /\ \A r, s \in store : r.line = s.line => r = s
    /\ \A i \in 1..offset : \E r \in store : r.line = i

\* What an ingest has read is still so when it commits.
ReadInv(p) == ingest[p].stage \in {"read", "seeded"} =>
    /\ offset + Len(ingest[p].tail) =< Len(log)
    /\ \A i \in 1..Len(ingest[p].tail) :
          ingest[p].tail[i] = log[offset + i] /\ ingest[p].tail[i].key \in Key
SeedInv(p) == ingest[p].stage = "seeded" =>
    /\ \A k \in Key : ingest[p].next[k] =< offset
    /\ \A r \in store : r.ordinal < ingest[p].next[r.key]
IngestInv(p) ==
    /\ ingest[p].stage # "idle" => ingest[p].from = offset
    /\ ReadInv(p) /\ SeedInv(p)

IInv == TypeOK /\ LogInv /\ StoreInv /\ \A p \in Process : IngestInv(p)

----------------------------------------------------------------------------
(* Ordinals *)

\* A bounded set of naturals that is not empty has a largest element.
LEMMA MaxExists ==
    ASSUME NEW S \in SUBSET Nat, NEW b \in Nat, S # {}, \A x \in S : x < b
    PROVE  Max(S) \in S /\ \A x \in S : x =< Max(S)
  <1> DEFINE above == {n \in Nat : \A x \in S : x < n}
  <1>1. above \subseteq Nat /\ above # {}
    OBVIOUS
  <1>2. PICK n \in above : \A m \in above : ~(<<m, n>> \in OpToRel(<, Nat))
    BY <1>1, NatLessThanWellFounded, WFMin
  <1>3. \A m \in above : ~(m < n)
    BY <1>2 DEF OpToRel
  <1>4. n - 1 \in S
    <2>1. n \in Nat /\ \A x \in S : x < n
      BY <1>2
    <2>0. n # 0
      <3>1. PICK x \in S : x \in Nat
        OBVIOUS
      <3> QED BY <2>1, <3>1
    <2>2. n - 1 \notin above
      BY <1>3, <2>0, <2>1
    <2>3. PICK x \in S : ~(x < n - 1)
      BY <2>0, <2>1, <2>2
    <2>4. x = n - 1
      BY <2>1, <2>3
    <2> QED BY <2>3, <2>4
  <1>5. n \in Nat /\ \A x \in S : n - 1 >= x
    <2>1. n \in Nat /\ \A x \in S : x < n /\ x \in Nat
      BY <1>2
    <2> QED BY <2>1
  <1> QED BY <1>4, <1>5 DEF Max

\* The next ordinal of a key is above every one it has, and no further than the
\* rows go.
LEMMA NextOrdinalAbove ==
    ASSUME TypeOK, StoreInv, NEW k \in Key
    PROVE  /\ NextOrdinal(k) \in Nat /\ NextOrdinal(k) =< offset
           /\ \A r \in store : r.key = k => r.ordinal < NextOrdinal(k)
  <1>1. Ordinals(k) \subseteq Nat /\ offset \in Nat /\ \A n \in Ordinals(k) : n < offset
    BY DEF Ordinals, StoreInv, TypeOK, RowType
  <1>2. \A r \in store : r.key = k => r.ordinal \in Ordinals(k)
    BY DEF Ordinals
  <1>3. CASE Ordinals(k) = {}
    BY <1>1, <1>2, <1>3 DEF NextOrdinal
  <1>4. CASE Ordinals(k) # {}
    <2>1. Max(Ordinals(k)) \in Ordinals(k) /\ \A n \in Ordinals(k) : n =< Max(Ordinals(k))
      BY <1>1, <1>4, MaxExists
    <2>2. NextOrdinal(k) = Max(Ordinals(k)) + 1
      BY <1>4 DEF NextOrdinal
    <2> QED BY <1>1, <1>2, <2>1, <2>2
  <1> QED BY <1>3, <1>4

\* The records of one key before the i-th of a tail.
Before(tail, i) == {j \in 1..(i - 1) : tail[j].key = tail[i].key}

LEMMA BeforeCounts ==
    ASSUME NEW tail \in Seq(Line), NEW i \in 1..Len(tail)
    PROVE  /\ IsFiniteSet(Before(tail, i)) /\ Cardinality(Before(tail, i)) \in Nat
           /\ Cardinality(Before(tail, i)) =< i - 1
  <1>1. i \in Nat /\ i - 1 \in Nat
    OBVIOUS
  <1>2. IsFiniteSet(1..(i - 1)) /\ Cardinality(1..(i - 1)) = i - 1
    BY <1>1, FS_Interval
  <1>3. Before(tail, i) \subseteq 1..(i - 1)
    BY DEF Before
  <1> QED BY <1>2, <1>3, FS_Subset, FS_CardinalityType

\* Later records of a key have more before them.
LEMMA BeforeGrows ==
    ASSUME NEW tail \in Seq(Line), NEW i \in 1..Len(tail), NEW j \in 1..Len(tail),
           j < i, tail[j].key = tail[i].key
    PROVE  Cardinality(Before(tail, j)) < Cardinality(Before(tail, i))
  <1>1. Before(tail, j) \cup {j} \subseteq Before(tail, i) /\ j \notin Before(tail, j)
    BY DEF Before
  <1>2. /\ IsFiniteSet(Before(tail, j) \cup {j})
        /\ Cardinality(Before(tail, j) \cup {j}) = Cardinality(Before(tail, j)) + 1
    BY <1>1, BeforeCounts, FS_AddElement
  <1>3. Cardinality(Before(tail, j) \cup {j}) =< Cardinality(Before(tail, i))
    BY <1>1, BeforeCounts, FS_Subset
  <1> QED BY <1>2, <1>3, BeforeCounts

----------------------------------------------------------------------------
(* The steps *)

LEMMA InitInv == ASSUME Alone PROVE Init => IInv
  <1> SUFFICES ASSUME Init PROVE IInv
    OBVIOUS
  <1>1. Idle \in IngestType
    BY DEF Idle, IngestType
  <1>2. TypeOK
    <2>1. Counter = {"lines", "tears", "truncations"} /\ <<>> \in Seq(Line) /\ FALSE \in BOOLEAN
      BY DEF Counter
    <2>3. log \in Seq(Line) /\ fragment \in BOOLEAN /\ store \subseteq RowType /\ offset \in Nat
      BY <2>1 DEF Init
    <2>2. ingest \in [Process -> IngestType] /\ used \in [Counter -> Nat]
      BY <1>1 DEF Init
    <2> QED BY <2>2, <2>3 DEF TypeOK
  <1>3. LogInv /\ StoreInv
    BY DEF Init, LogInv, StoreInv, Counter
  <1>4. ASSUME NEW p \in Process PROVE IngestInv(p)
    BY DEF Init, IngestInv, ReadInv, SeedInv, Idle
  <1> QED BY <1>2, <1>3, <1>4 DEF IInv

\* A step of the writers keeps what the table and the ingests rest on.
LEMMA LongerLog ==
    ASSUME IInv, log' \in Seq(Line), Len(log) =< Len(log'),
           \A i \in 1..Len(log) : log'[i] = log[i],
           UNCHANGED <<store, offset, ingest>>
    PROVE  StoreInv' /\ \A p \in Process : IngestInv(p)'
  <1>1. StoreInv'
    BY DEF IInv, StoreInv
  <1>2. ASSUME NEW p \in Process PROVE IngestInv(p)'
    <2>1. IngestInv(p) /\ ingest[p] \in IngestType /\ Len(log) \in Nat /\ Len(log') \in Nat
          /\ offset \in Nat
      BY DEF IInv, TypeOK
    <2>2. ReadInv(p)'
      <3> DEFINE tail == ingest[p].tail
      <3> SUFFICES ASSUME ingest[p].stage \in {"read", "seeded"}
                   PROVE  /\ offset + Len(tail) =< Len(log')
                          /\ \A i \in 1..Len(tail) : tail[i] = log'[offset + i] /\ tail[i].key \in Key
        BY DEF ReadInv
      <3>1. /\ tail \in Seq(Line) /\ Len(tail) \in Nat /\ offset + Len(tail) =< Len(log)
            /\ \A i \in 1..Len(tail) : tail[i] = log[offset + i] /\ tail[i].key \in Key
        BY <2>1 DEF IngestInv, ReadInv, IngestType
      <3> HIDE DEF tail
      <3>2. \A i \in 1..Len(tail) : offset + i \in 1..Len(log)
        BY <2>1, <3>1
      <3> QED BY <2>1, <3>1, <3>2
    <2>3. SeedInv(p)'
      BY <2>1 DEF IngestInv, SeedInv
    <2> QED BY <2>1, <2>2, <2>3 DEF IngestInv
  <1> QED BY <1>1, <1>2

LEMMA RecordStep ==
    ASSUME Alone, IInv, NEW k \in Key, Record(k)
    PROVE  IInv'
  <1> DEFINE line == [key |-> IF fragment THEN Garbled ELSE k, line |-> used'["lines"]]
  <1>1. /\ used' = [used EXCEPT !["lines"] = used["lines"] + 1] /\ used \in [Counter -> Nat]
        /\ log \in Seq(Line) /\ fragment' = FALSE /\ UNCHANGED <<store, offset, ingest>>
    BY DEF Record, Spend, IInv, TypeOK
  <1>2. used'["lines"] = used["lines"] + 1 /\ used'["truncations"] = used["truncations"]
        /\ used' \in [Counter -> Nat]
    BY <1>1 DEF Counter
  <1>3. log' = Append(log, line) /\ line \in Line /\ line.line = used["lines"] + 1
    BY <1>1, <1>2 DEF Record, Line, Counter
  <1> HIDE DEF line
  <1>4. /\ log' \in Seq(Line) /\ Len(log') = Len(log) + 1 /\ Len(log) \in Nat
        /\ \A i \in 1..Len(log) : log'[i] = log[i]
        /\ log'[Len(log) + 1] = line
    BY <1>1, <1>3
  <1>5. TypeOK'
    BY <1>1, <1>2, <1>4 DEF IInv, TypeOK
  <1>6. LogInv'
    <2>1. \A i \in 1..Len(log') : i \in 1..Len(log) \/ i = Len(log) + 1
      BY <1>4
    <2>2. \A i \in 1..Len(log') : log'[i].line = i
      BY <1>3, <1>4, <2>1 DEF IInv, LogInv
    <2> QED BY <1>1, <1>2, <1>4, <2>2 DEF IInv, LogInv, TypeOK
  <1>7. StoreInv' /\ \A p \in Process : IngestInv(p)'
    BY <1>1, <1>4, LongerLog
  <1> QED BY <1>5, <1>6, <1>7 DEF IInv

LEMMA TearStep ==
    ASSUME Alone, IInv, Tear
    PROVE  IInv'
  <1>1. /\ used' = [used EXCEPT !["tears"] = used["tears"] + 1] /\ fragment' = TRUE
        /\ UNCHANGED <<log, store, offset, ingest>>
    BY DEF Tear, Spend
  <1>2. used' \in [Counter -> Nat] /\ used'["lines"] = used["lines"]
        /\ used'["truncations"] = used["truncations"]
    BY <1>1 DEF IInv, TypeOK, Counter
  <1>3. TypeOK' /\ LogInv'
    BY <1>1, <1>2 DEF IInv, TypeOK, LogInv
  <1>4. StoreInv' /\ \A p \in Process : IngestInv(p)'
    BY <1>1, LongerLog DEF IInv, TypeOK
  <1> QED BY <1>3, <1>4 DEF IInv

LEMMA NoTruncation ==
    ASSUME Alone, IInv, Truncate
    PROVE  FALSE
  BY DEF Alone, IInv, LogInv, Truncate, Spend

\* A step of the one ingest that leaves the table alone.
LEMMA IngestStep ==
    ASSUME Alone, IInv, NEW p \in Process, NEW r \in IngestType,
           ingest' = [ingest EXCEPT ![p] = r],
           UNCHANGED <<log, fragment, store, offset, used>>, IngestInv(p)'
    PROVE  IInv'
  <1>1. TypeOK' /\ LogInv' /\ StoreInv'
    BY DEF IInv, TypeOK, LogInv, StoreInv
  <1>2. \A q \in Process : q = p
    BY DEF Alone
  <1>3. \A q \in Process : IngestInv(q)'
    BY <1>2
  <1> QED BY <1>1, <1>3 DEF IInv

LEMMA ReadOffsetStep ==
    ASSUME Alone, IInv, NEW p \in Process, ReadOffset(p)
    PROVE  IInv'
  <1> DEFINE r == [ingest[p] EXCEPT !.stage = "opened", !.from = offset]
  <1>1. ingest[p] \in IngestType /\ ingest \in [Process -> IngestType] /\ offset \in Nat
    BY DEF IInv, TypeOK
  <1>2. r \in IngestType /\ r.stage = "opened" /\ r.from = offset
    BY <1>1 DEF IngestType
  <1>3. ingest' = [ingest EXCEPT ![p] = r] /\ UNCHANGED <<log, fragment, store, offset, used>>
    BY <1>1 DEF ReadOffset, IngestType
  <1> HIDE DEF r
  <1>4. IngestInv(p)'
    BY <1>1, <1>2, <1>3 DEF IngestInv, ReadInv, SeedInv
  <1> QED BY <1>2, <1>3, <1>4, IngestStep

\* An ingest that is over leaves the table as it is.
LEMMA OverStep ==
    ASSUME Alone, IInv, NEW p \in Process, ingest' = [ingest EXCEPT ![p] = Idle],
           UNCHANGED <<log, fragment, store, offset, used>>
    PROVE  IInv'
  <1>1. Idle \in IngestType /\ Idle.stage = "idle"
    BY DEF Idle, IngestType
  <1>2. ingest'[p] = Idle
    BY DEF IInv, TypeOK
  <1>3. IngestInv(p)'
    BY <1>1, <1>2 DEF IngestInv, ReadInv, SeedInv
  <1> QED BY <1>1, <1>3, IngestStep

LEMMA ReadTailStep ==
    ASSUME Alone, IInv, NEW p \in Process, ReadTail(p)
    PROVE  IInv'
  <1> DEFINE from == ingest[p].from
  <1> DEFINE tail == NewLines(from)
  <1> DEFINE r == [ingest[p] EXCEPT !.stage = "read", !.from = Start(from), !.tail = tail]
  <1>1. /\ ingest[p] \in IngestType /\ ingest \in [Process -> IngestType] /\ offset \in Nat
        /\ log \in Seq(Line) /\ Len(log) \in Nat /\ offset =< Len(log)
        /\ UNCHANGED <<log, fragment, store, offset, used>>
    BY DEF IInv, TypeOK, LogInv, ReadTail
  <1>2. from = offset /\ Start(from) = offset
    BY <1>1 DEF IInv, IngestInv, ReadTail, Start
  <1>3. /\ tail = SubSeq(log, offset + 1, Len(log)) /\ tail \in Seq(Line)
        /\ Len(tail) = Len(log) - offset
        /\ \A i \in 1..Len(tail) : tail[i] = log[offset + i]
    BY <1>1, <1>2 DEF NewLines
  <1> HIDE DEF tail, from
  <1>4. CASE tail # <<>> /\ Parses(tail)
    <2>1. ingest' = [ingest EXCEPT ![p] = r]
      BY <1>4 DEF ReadTail, from, tail
    <2>2. /\ r \in IngestType /\ r.stage = "read" /\ r.from = offset /\ r.tail = tail
      BY <1>1, <1>2, <1>3 DEF IngestType
    <2> HIDE DEF r
    <2>3. \A i \in 1..Len(tail) : tail[i].key \in Key
      <3>1. tail \in Seq(Line) /\ \A i \in 1..Len(tail) : tail[i].key # Garbled
        BY <1>3, <1>4 DEF Parses
      <3>2. \A i \in 1..Len(tail) : tail[i] \in Line
        BY <3>1
      <3> QED BY <3>1, <3>2 DEF Line
    <2>4. ingest'[p] = r
      BY <1>1, <2>1
    <2>5. ReadInv(p)'
      <3>1. offset + Len(tail) =< Len(log)
        BY <1>1, <1>3
      <3> QED BY <1>1, <1>3, <2>2, <2>3, <2>4, <3>1 DEF ReadInv
    <2>6. IngestInv(p)'
      BY <1>1, <2>2, <2>4, <2>5 DEF IngestInv, SeedInv
    <2> QED BY <1>1, <2>1, <2>2, <2>6, IngestStep
  <1>5. CASE ~(tail # <<>> /\ Parses(tail))
    <2>1. ingest' = [ingest EXCEPT ![p] = Idle]
      BY <1>5 DEF ReadTail, from, tail
    <2> QED BY <1>1, <2>1, OverStep
  <1> QED BY <1>4, <1>5

LEMMA ReadOrdinalsStep ==
    ASSUME Alone, IInv, NEW p \in Process, ReadOrdinals(p)
    PROVE  IInv'
  <1> DEFINE next == [k \in Key |-> NextOrdinal(k)]
  <1> DEFINE r == [ingest[p] EXCEPT !.stage = "seeded", !.next = next]
  <1>1. /\ ingest[p] \in IngestType /\ ingest \in [Process -> IngestType]
        /\ UNCHANGED <<log, fragment, store, offset, used>> /\ ingest[p].stage = "read"
        /\ TypeOK /\ StoreInv /\ IngestInv(p)
    BY DEF IInv, TypeOK, ReadOrdinals
  <1>2. /\ next \in [Key -> Nat] /\ \A k \in Key : next[k] =< offset
        /\ \A s \in store : s.ordinal < next[s.key]
    BY <1>1, NextOrdinalAbove DEF TypeOK, RowType
  <1> HIDE DEF next
  <1>3. /\ r \in IngestType /\ r.stage = "seeded" /\ r.from = ingest[p].from
        /\ r.tail = ingest[p].tail /\ r.next = next
    BY <1>1, <1>2 DEF IngestType
  <1>4. ingest' = [ingest EXCEPT ![p] = r]
    BY <1>1 DEF ReadOrdinals, IngestType, next
  <1> HIDE DEF r
  <1>5. ingest'[p] = r
    BY <1>1, <1>4
  <1>6. IngestInv(p)'
    BY <1>1, <1>2, <1>3, <1>5 DEF IngestInv, ReadInv, SeedInv
  <1> QED BY <1>1, <1>3, <1>4, <1>6, IngestStep

LEMMA CommitStep ==
    ASSUME Alone, IInv, NEW p \in Process, Commit(p)
    PROVE  IInv'
  <1> DEFINE tail == ingest[p].tail
  <1> DEFINE next == ingest[p].next
  <1> DEFINE rows == {Row(tail, next, i) : i \in 1..Len(tail)}
  <1>1. /\ ingest[p] \in IngestType /\ ingest \in [Process -> IngestType] /\ offset \in Nat
        /\ UNCHANGED <<log, fragment, used>> /\ ingest[p].stage = "seeded"
        /\ ingest' = [ingest EXCEPT ![p] = Idle]
        /\ TypeOK /\ LogInv /\ StoreInv /\ IngestInv(p)
    BY DEF IInv, TypeOK, Commit
  <1>2. /\ tail \in Seq(Line) /\ Len(tail) \in Nat /\ next \in [Key -> Nat]
        /\ ingest[p].from = offset /\ offset + Len(tail) =< Len(log)
        /\ \A i \in 1..Len(tail) : tail[i] = log[offset + i] /\ tail[i].key \in Key
        /\ \A k \in Key : next[k] =< offset
        /\ \A s \in store : s.ordinal < next[s.key]
    BY <1>1 DEF IngestType, IngestInv, ReadInv, SeedInv
  <1>3. /\ store' = store \cup
               {r \in rows : \A s \in store : s.key = r.key => s.ordinal # r.ordinal}
        /\ offset' = offset + Len(tail)
    BY <1>2 DEF Commit
  <1> HIDE DEF tail, next
  <1>4. ASSUME NEW i \in 1..Len(tail)
        PROVE  /\ Row(tail, next, i).key = tail[i].key /\ Row(tail, next, i).key \in Key
               /\ Row(tail, next, i).line = offset + i
               /\ Row(tail, next, i).ordinal = next[tail[i].key] + Cardinality(Before(tail, i))
               /\ Row(tail, next, i) \in RowType
               /\ Row(tail, next, i).ordinal < offset + Len(tail)
               /\ next[tail[i].key] =< Row(tail, next, i).ordinal
    <2>1. i \in Nat /\ tail[i].key \in Key /\ tail[i] = log[offset + i] /\ offset + i \in 1..Len(log)
      BY <1>1, <1>2 DEF TypeOK
    <2>2. tail[i].line = offset + i
      BY <1>1, <2>1 DEF LogInv
    <2>3. /\ Row(tail, next, i) =
               [key |-> tail[i].key, line |-> tail[i].line,
                ordinal |-> next[tail[i].key] + Cardinality(Before(tail, i))]
      BY DEF Row, Before
    <2>4. /\ next[tail[i].key] \in Nat /\ next[tail[i].key] =< offset
          /\ Cardinality(Before(tail, i)) \in Nat /\ Cardinality(Before(tail, i)) =< i - 1
      BY <1>2, <2>1, BeforeCounts
    <2> QED BY SMTT(30), <1>1, <1>2, <2>1, <2>2, <2>3, <2>4 DEF RowType
  <1>5. store' = store \cup rows
    <2>1. ASSUME NEW r \in rows, NEW s \in store, s.key = r.key PROVE s.ordinal # r.ordinal
      <3>1. PICK i \in 1..Len(tail) : r = Row(tail, next, i)
        OBVIOUS
      <3>2. s.ordinal < next[tail[i].key] /\ s.ordinal \in Nat /\ next[tail[i].key] \in Nat
        BY <1>1, <1>2, <1>4, <2>1, <3>1 DEF TypeOK, RowType
      <3>3. next[tail[i].key] =< r.ordinal /\ r.ordinal \in Nat
        BY <1>4, <3>1 DEF RowType
      <3> QED BY <3>2, <3>3
    <2> QED BY <1>3, <2>1
  <1>6. rows \subseteq RowType /\ \A r \in rows : \E i \in 1..Len(tail) : r = Row(tail, next, i)
    BY <1>4
  <1> HIDE DEF rows
  <1>7. TypeOK'
    <2>1. Idle \in IngestType
      BY DEF Idle, IngestType
    <2> QED BY <1>1, <1>2, <1>3, <1>5, <1>6, <2>1 DEF TypeOK
  <1>8. LogInv'
    BY <1>1, <1>2, <1>3 DEF LogInv
  <1>9. StoreInv'
    <2>1. ASSUME NEW r \in store' PROVE r.line \in 1..offset' /\ r.ordinal < offset'
      <3>1. CASE r \in store
        <4>1. r.line \in 1..offset /\ r.ordinal < offset /\ r.ordinal \in Nat
          BY <1>1, <3>1 DEF StoreInv, TypeOK, RowType
        <4> QED BY <1>1, <1>2, <1>3, <4>1
      <3>2. CASE r \in rows
        <4>1. PICK i \in 1..Len(tail) : r = Row(tail, next, i)
          BY <1>6, <3>2
        <4>2. r.line = offset + i /\ r.ordinal < offset + Len(tail)
          BY <1>4, <4>1
        <4> QED BY <1>1, <1>2, <1>3, <4>2
      <3> QED BY <1>5, <3>1, <3>2
    <2>2. ASSUME NEW r \in store', NEW s \in store', r.line = s.line PROVE r = s
      <3>1. \A t \in store : t.line \in Nat /\ t.line =< offset
        BY <1>1 DEF StoreInv
      <3>2. \A t \in rows : \E i \in 1..Len(tail) : t = Row(tail, next, i) /\ t.line = offset + i
        BY <1>4, <1>6
      <3>3. CASE r \in store /\ s \in store
        BY <1>1, <2>2, <3>3 DEF StoreInv
      <3>4. CASE r \in rows /\ s \in rows
        BY <1>1, <1>2, <2>2, <3>2, <3>4
      <3>5. CASE (r \in store /\ s \in rows) \/ (r \in rows /\ s \in store)
        BY <1>1, <1>2, <2>2, <3>1, <3>2, <3>5
      <3> QED BY <1>5, <3>3, <3>4, <3>5
    <2>3. ASSUME NEW i \in 1..offset' PROVE \E r \in store' : r.line = i
      <3>1. CASE i =< offset
        BY <1>1, <1>5, <2>3, <3>1 DEF StoreInv
      <3>2. CASE ~(i =< offset)
        <4>1. i - offset \in 1..Len(tail)
          BY <1>1, <1>2, <1>3, <3>2
        <4>2. Row(tail, next, i - offset) \in rows
          BY <4>1 DEF rows
        <4>3. Row(tail, next, i - offset).line = offset + (i - offset)
          BY <1>4, <4>1
        <4> QED BY <1>1, <1>5, <4>2, <4>3
      <3> QED BY <3>1, <3>2
    <2> QED BY <2>1, <2>2, <2>3 DEF StoreInv
  <1>10. \A q \in Process : IngestInv(q)'
    <2>1. \A q \in Process : q = p
      BY DEF Alone
    <2>2. ingest'[p].stage = "idle"
      BY <1>1 DEF Idle
    <2> QED BY <2>1, <2>2 DEF IngestInv, ReadInv, SeedInv
  <1> QED BY <1>7, <1>8, <1>9, <1>10 DEF IInv

LEMMA NextInv == ASSUME Alone PROVE IInv /\ [Next]_vars => IInv'
  <1> SUFFICES ASSUME IInv, [Next]_vars PROVE IInv'
    OBVIOUS
  <1>1. ASSUME NEW k \in Key, Record(k) PROVE IInv'
    BY <1>1, RecordStep
  <1>2. CASE Tear
    BY <1>2, TearStep
  <1>3. CASE Truncate
    BY <1>3, NoTruncation
  <1>4. ASSUME NEW p \in Process, Ingest(p) PROVE IInv'
    <2>1. CASE Abandon(p)
      BY <2>1, OverStep DEF Abandon
    <2> QED BY <1>4, <2>1, ReadOffsetStep, ReadTailStep, ReadOrdinalsStep, CommitStep DEF Ingest
  <1>5. CASE UNCHANGED vars
    BY <1>5 DEF vars, IInv, TypeOK, LogInv, StoreInv, IngestInv, ReadInv, SeedInv
  <1> QED BY <1>1, <1>2, <1>3, <1>4, <1>5 DEF Next

\* What the registry promises holds as long as ingests do not overlap and the
\* log is not cut: each line that parses is counted once, across processes that
\* die while they write or ingest.
THEOREM CountedOnceAlone == ASSUME Alone PROVE Spec => []CountedOnce
  <1>1. IInv => CountedOnce
    <2> SUFFICES ASSUME IInv PROVE CountedOnce
      OBVIOUS
    <2>1. \A r, s \in store : r.line = s.line => r = s
      BY DEF IInv, StoreInv
    <2>2. ASSUME NEW i \in 1..Len(log), i =< offset PROVE \E r \in store : r.line = log[i].line
      BY <2>2 DEF IInv, StoreInv, LogInv, TypeOK
    <2> QED BY <2>1, <2>2 DEF CountedOnce
  <1> QED BY <1>1, InitInv, NextInv, PTL DEF Spec
=============================================================================
