-------------------------- MODULE InodeReadProofs --------------------------
(***************************************************************************)
(* Proofs about InodeRead, for every number of sources, every content and  *)
(* every set of readers: a read returns bytes of one source, from the      *)
(* place asked for, whether it is served from the cache or after any       *)
(* number of failed attempts.                                              *)
(***************************************************************************)
EXTENDS InodeRead, SequenceTheorems, WellFoundedInduction, TLAPS

-----------------------------------------------------------------------------
(* Every cached range is a piece of one source. *)
CacheSound ==
    \A i \in DOMAIN ranges : \E a \in Adapters : From(ranges[i].data, a, ranges[i].start)

(* What a read in flight can say of its buffer: the bytes that the adapter *)
(* which succeeded counted are that adapter's, whatever failed attempts    *)
(* left behind them.                                                       *)
FetchOK(t) ==
    /\ reading[t] => Len(buf[t]) = size[t] /\ data[t] = NoData
    /\ ~reading[t] => ~busy[t]
    /\ busy[t] => result[t] = "none"
    /\ result[t] = "ok" => by[t] # 0
    /\ reading[t] /\ by[t] # 0 =>
           /\ bytesRead[t] <= size[t]
           /\ \A i \in 1 .. bytesRead[t] : buf[t][i] = <<by[t], offset[t] + i - 1>>

ReadInv ==
    /\ ReadTypeOK
    /\ CacheSound
    /\ ReadExact
    /\ \A t \in Threads : FetchOK(t)

-----------------------------------------------------------------------------
(* Adapters are numbers from 1 on. *)
LEMMA AdapterFacts == 0 \notin Adapters /\ Adapters # {} /\ \A a \in Adapters : a \in Nat
  BY ReadConstants DEF Adapters

(* A nonempty set of numbers has a least element. *)
LEMMA LeastElement ==
    ASSUME NEW S \in SUBSET Nat, S # {}
    PROVE  \E m \in S : \A k \in S : m <= k
<1>1. PICK m \in S : \A k \in S : ~(<<k, m>> \in OpToRel(<, Nat))
    BY WFMin, NatLessThanWellFounded
<1>2. \A k \in S : ~(k < m)
    BY <1>1 DEF OpToRel
<1> QED
    BY <1>2

(* get returns the requested slice of the first range that covers the      *)
(* request.                                                                *)
LEMMA GetFirst ==
    ASSUME NEW rs \in Seq(CachedRange), NEW o \in Nat, NEW s \in Nat, IsCached(rs, o, s)
    PROVE  \E i \in DOMAIN rs :
              /\ Covers(rs[i], o, s)
              /\ \A k \in DOMAIN rs : Covers(rs[k], o, s) => i <= k
              /\ Get(rs, o, s) = Slice(rs[i], o, s)
<1> DEFINE S == {i \in DOMAIN rs : Covers(rs[i], o, s)}
<1>1. S \in SUBSET Nat /\ S # {}
    BY DEF IsCached
<1> HIDE DEF S
<1>2. PICK m \in S : \A k \in S : m <= k
    BY <1>1, LeastElement
<1>3. m \in DOMAIN rs /\ Covers(rs[m], o, s) /\ \A k \in DOMAIN rs : Covers(rs[k], o, s) => m <= k
    BY <1>2 DEF S
<1> DEFINE First(j) == Covers(rs[j], o, s) /\ \A k \in DOMAIN rs : Covers(rs[k], o, s) => j <= k
<1>4. \E j \in DOMAIN rs : First(j)
    BY <1>3
<1>5. PICK c : c = CHOOSE j \in DOMAIN rs : First(j)
    OBVIOUS
<1>6. c \in DOMAIN rs /\ First(c)
    BY <1>4, <1>5, Zenon
<1>7. Get(rs, o, s) = Slice(rs[c], o, s)
    BY <1>5, Zenon DEF Get
<1> QED
    BY <1>6, <1>7

(* A slice of a piece of a source is the piece that was asked for. *)
LEMMA SliceFacts ==
    ASSUME NEW r \in CachedRange, NEW o \in Nat, NEW s \in Nat, Covers(r, o, s)
    PROVE  /\ Slice(r, o, s) \in Seq(Bytes)
           /\ Len(Slice(r, o, s)) = s
           /\ \A a \in Adapters : From(r.data, a, r.start) => From(Slice(r, o, s), a, o)
<1>1. /\ r.start \in Nat /\ r.data \in Seq(Bytes) /\ r.start <= o
      /\ o + s <= r.start + Len(r.data)
    BY DEF CachedRange, Covers
<1> DEFINE m == o - r.start + 1
           n == o - r.start + s
<1>2. m \in Int /\ n \in Int /\ \A i \in m .. n : i \in 1 .. Len(r.data)
    BY <1>1
<1>w. n - m + 1 = s /\ (m <= n <=> s >= 1) /\ r.start + m = o + 1
    BY <1>1
<1>e. \A i \in 1 .. s : m + i - 1 \in m .. n
    BY <1>1
<1>3. \A i \in m .. n : r.data[i] \in Bytes
    BY <1>1, <1>2
<1>4. /\ SubSeq(r.data, m, n) \in Seq(Bytes)
      /\ Len(SubSeq(r.data, m, n)) = IF m <= n THEN n - m + 1 ELSE 0
      /\ \A i \in 1 .. n - m + 1 : SubSeq(r.data, m, n)[i] = r.data[m + i - 1]
    BY <1>2, <1>3, SubSeqProperties
<1>5. Slice(r, o, s) = SubSeq(r.data, m, n)
    BY DEF Slice
<1> HIDE DEF m, n
<1>6. Len(Slice(r, o, s)) = s
    BY <1>w, <1>4, <1>5
<1>7. ASSUME NEW a \in Adapters, From(r.data, a, r.start), NEW i \in DOMAIN Slice(r, o, s)
      PROVE  Slice(r, o, s)[i] = <<a, o + i - 1>>
  <2>1. i \in 1 .. s
    BY <1>4, <1>5, <1>6
  <2>2. m + i - 1 \in DOMAIN r.data /\ Slice(r, o, s)[i] = r.data[m + i - 1]
    <3>1. m + i - 1 \in 1 .. Len(r.data)
        BY <1>2, <1>e, <2>1
    <3>2. Slice(r, o, s)[i] = r.data[m + i - 1]
        BY <1>w, <1>4, <1>5, <2>1
    <3> QED
        BY <1>1, <3>1, <3>2
  <2>3. r.data[m + i - 1] = <<a, r.start + (m + i - 1) - 1>>
    BY <1>7, <2>2 DEF From
  <2>4. r.start + (m + i - 1) - 1 = o + i - 1
    BY <1>1, <1>2, <1>w, <2>1
  <2> QED
    BY <2>2, <2>3, <2>4
<1> QED
    BY <1>4, <1>5, <1>6, <1>7 DEF From

-----------------------------------------------------------------------------
(* A fresh inode satisfies the invariant. *)
LEMMA InitInv == ReadInit => ReadInv
<1> SUFFICES ASSUME ReadInit PROVE ReadInv
    OBVIOUS
<1>1. ReadTypeOK
  <2>1. FailoverTypeOK
    BY DEF ReadInit, FailoverInit, FailoverTypeOK
  <2>2. ranges \in Seq(CachedRange) /\ buf \in [Threads -> Seq(Bytes \cup {Zero})]
    BY DEF ReadInit
  <2> QED
    BY <2>1, <2>2 DEF ReadInit, ReadTypeOK
<1>2. CacheSound /\ ReadExact
    BY DEF ReadInit, CacheSound, ReadExact
<1>3. \A t \in Threads : FetchOK(t)
    BY DEF ReadInit, FailoverInit, FetchOK
<1> QED
    BY <1>1, <1>2, <1>3 DEF ReadInv

(* What tryOperation does to its own variables keeps their types. *)
LEMMA FailoverType ==
    ASSUME FailoverTypeOK, NEW t \in Threads,
           \/ Begin(t) \/ Returns(t)
           \/ \E a \in Adapters : Fails(t, a) \/ Succeeds(t, a)
    PROVE  FailoverTypeOK'
<1>1. CASE Begin(t)
    BY <1>1 DEF FailoverTypeOK, Begin
<1>2. CASE Returns(t)
  <2>1. PICK r \in Outcomes(t) : result' = [result EXCEPT ![t] = r]
    BY <1>2 DEF Returns
  <2>2. r \in {"none", "ok", "err", "cancelled"}
    BY <2>1 DEF Outcomes
  <2> QED
    BY <1>2, <2>1, <2>2 DEF FailoverTypeOK, Returns
<1>3. CASE \E a \in Adapters : Fails(t, a)
    BY <1>3 DEF FailoverTypeOK, Fails
<1>4. CASE \E a \in Adapters : Succeeds(t, a)
    BY <1>4 DEF FailoverTypeOK, Succeeds
<1> QED
    BY <1>1, <1>2, <1>3, <1>4

(* A read that t makes leaves what t's last call said of itself behind,    *)
(* and a step of t leaves the other readers alone.                         *)
LEMMA OthersKept ==
    ASSUME ReadTypeOK, NEW t \in Threads, Read(t), NEW u \in Threads \ {t}, FetchOK(u)
    PROVE  /\ FetchOK(u)'
           /\ data'[u] = data[u] /\ offset'[u] = offset[u] /\ size'[u] = size[u]
<1>1. /\ busy'[u] = busy[u] /\ by'[u] = by[u] /\ result'[u] = result[u]
      /\ reading'[u] = reading[u] /\ buf'[u] = buf[u] /\ bytesRead'[u] = bytesRead[u]
      /\ data'[u] = data[u] /\ offset'[u] = offset[u] /\ size'[u] = size[u]
    BY DEF ReadTypeOK, FailoverTypeOK, Read, ReadHit, ReadMiss, FetchFails, FetchSucceeds,
           FetchReturns, ReadStore, ReadFailed, ReadReturns, Fill, Begin, Fails, Succeeds,
           Returns, failoverVars, cacheVars, readVars
<1>2. FetchOK(u)'
    BY <1>1 DEF FetchOK
<1> QED
    BY <1>1, <1>2

(* What store appends is a piece of one source, if the data are. *)
LEMMA StoreSound ==
    ASSUME CacheSound, ranges \in Seq(CachedRange),
           NEW o \in Nat, NEW d \in Seq(Bytes), NEW a \in Adapters, From(d, a, o),
           ranges' = Store(ranges, o, d)
    PROVE  CacheSound' /\ ranges' \in Seq(CachedRange)
<1>1. CASE d = << >>
    BY <1>1 DEF CacheSound, Store
<1>2. CASE d # << >>
  <2> DEFINE r == [start |-> o, data |-> d]
  <2>1. r \in CachedRange /\ r.start = o /\ r.data = d
    BY DEF CachedRange
  <2>2. ranges' = Append(ranges, r)
    BY <1>2 DEF Store
  <2> HIDE DEF r
  <2>3. /\ ranges' \in Seq(CachedRange)
        /\ \A i \in DOMAIN ranges' :
              \/ i \in DOMAIN ranges /\ ranges'[i] = ranges[i]
              \/ ranges'[i] = r
    BY <2>1, <2>2
  <2> QED
    BY <2>1, <2>3 DEF CacheSound
<1> QED
    BY <1>1, <1>2

(* A hit returns a piece of a cached range, a piece of one source. *)
LEMMA HitInv ==
    ASSUME ReadInv, NEW t \in Threads, NEW o \in Offsets, NEW s \in Sizes, ReadHit(t, o, s)
    PROVE  ReadInv'
<1>0. /\ ReadTypeOK /\ CacheSound /\ ReadExact
      /\ \A u \in Threads : FetchOK(u)
    BY DEF ReadInv
<1>1. o \in Nat /\ s \in Nat /\ ranges \in Seq(CachedRange)
    BY <1>0, ReadConstants DEF ReadTypeOK
<1> DEFINE d == Get(ranges, o, s)
<1>2. d \in Seq(Bytes) /\ Len(d) = s /\ \E a \in Adapters : From(d, a, o)
  <2>1. PICK i \in DOMAIN ranges : Covers(ranges[i], o, s) /\ d = Slice(ranges[i], o, s)
    BY <1>1, GetFirst DEF ReadHit
  <2>2. ranges[i] \in CachedRange
    BY <1>1
  <2>3. PICK a \in Adapters : From(ranges[i].data, a, ranges[i].start)
    BY <1>0 DEF CacheSound
  <2> QED
    BY <1>1, <2>1, <2>2, <2>3, SliceFacts
<1>3. /\ data' = [data EXCEPT ![t] = d]
      /\ offset' = [offset EXCEPT ![t] = o] /\ size' = [size EXCEPT ![t] = s]
      /\ ~reading[t]
      /\ UNCHANGED <<busy, tried, by, result, ranges, isDel, reading, buf, bytesRead>>
    BY DEF ReadHit, failoverVars, cacheVars
<1> HIDE DEF d
<1>4. ReadTypeOK'
    BY <1>0, <1>1, <1>2, <1>3 DEF ReadTypeOK, FailoverTypeOK
<1>5. CacheSound'
    BY <1>0, <1>3 DEF CacheSound
<1>6. ReadExact'
  <2> SUFFICES ASSUME NEW u \in Threads, data'[u] # NoData
               PROVE  /\ Len(data'[u]) <= size'[u]
                      /\ \E a \in Adapters : From(data'[u], a, offset'[u])
    BY DEF ReadExact
  <2>1. CASE u = t
    <3>1. data'[u] = d /\ size'[u] = s /\ offset'[u] = o
        BY <1>0, <1>3, <2>1 DEF ReadTypeOK
    <3> QED
        BY <1>1, <1>2, <3>1
  <2>2. CASE u # t
    <3>1. data'[u] = data[u] /\ size'[u] = size[u] /\ offset'[u] = offset[u]
        BY <1>0, <1>3, <2>2 DEF ReadTypeOK
    <3> QED
        BY <1>0, <3>1 DEF ReadExact
  <2> QED
    BY <2>1, <2>2
<1>7. ASSUME NEW u \in Threads PROVE FetchOK(u)'
  <2>1. CASE u = t
    BY <1>0, <1>3, <2>1 DEF FetchOK
  <2>2. CASE u # t
    <3>1. Read(t)
        BY DEF Read
    <3> QED
        BY <1>0, <2>2, <3>1, OthersKept
  <2> QED
    BY <2>1, <2>2
<1> QED
    BY <1>4, <1>5, <1>6, <1>7 DEF ReadInv

(* A function on 1 .. n is a sequence of length n. *)
LEMMA FunctionIsSeq ==
    ASSUME NEW S, NEW n \in Nat, NEW f \in [1 .. n -> S]
    PROVE  f \in Seq(S) /\ Len(f) = n
<1>1. f \in Seq(S)
    BY SeqDef
<1>2. Len(f) \in Nat /\ 1 .. Len(f) = 1 .. n
    BY <1>1, LenProperties
<1>3. Len(f) = n
    BY <1>2
<1> QED
    BY <1>1, <1>3

(* Writing into the buffer keeps its length; the bytes counted are the     *)
(* adapter's.                                                              *)
LEMMA FillFacts ==
    ASSUME ReadTypeOK, NEW t \in Threads, NEW a \in Adapters, NEW n \in Counts(t, a),
           Len(buf[t]) = size[t], Fill(t, a, n)
    PROVE  /\ n \in Nat /\ n <= size[t]
           /\ buf' \in [Threads -> Seq(Bytes \cup {Zero})]
           /\ Len(buf'[t]) = size[t]
           /\ \A i \in 1 .. n : buf'[t][i] = <<a, offset[t] + i - 1>>
<1>1. offset[t] \in Nat /\ size[t] \in Nat /\ buf[t] \in Seq(Bytes \cup {Zero})
    BY DEF ReadTypeOK
<1>2. n \in Nat /\ n <= size[t]
    BY <1>1 DEF Counts
<1> DEFINE f == [i \in 1 .. size[t] |->
                    IF i <= n THEN <<a, offset[t] + i - 1>> ELSE buf[t][i]]
<1>3. \A i \in 1 .. size[t] : f[i] \in Bytes \cup {Zero}
  <2> SUFFICES ASSUME NEW i \in 1 .. size[t] PROVE f[i] \in Bytes \cup {Zero}
    OBVIOUS
  <2>1. CASE i <= n
    <3>1. offset[t] + i - 1 \in Nat
        BY <1>1
    <3> QED
        BY <2>1, <3>1 DEF Bytes
  <2>2. CASE ~(i <= n)
    <3>1. buf[t][i] \in Bytes \cup {Zero}
        BY <1>1
    <3> QED
        BY <2>2, <3>1
  <2> QED
    BY <2>1, <2>2
<1>4. f \in Seq(Bytes \cup {Zero}) /\ Len(f) = size[t]
  <2>1. f \in [1 .. size[t] -> Bytes \cup {Zero}]
    BY <1>3
  <2> HIDE DEF f
  <2> QED
    BY <1>1, <2>1, FunctionIsSeq
<1>5. buf' = [buf EXCEPT ![t] = f] /\ buf'[t] = f
    BY DEF Fill, ReadTypeOK
<1>6. buf' \in [Threads -> Seq(Bytes \cup {Zero})]
    BY <1>4, <1>5 DEF ReadTypeOK
<1>7. \A i \in 1 .. n : f[i] = <<a, offset[t] + i - 1>>
    BY <1>1, <1>2
<1> QED
    BY <1>2, <1>4, <1>5, <1>6, <1>7

(* The steps of a fetch: nothing is returned or stored yet. *)
LEMMA FetchInv ==
    ASSUME ReadInv, NEW t \in Threads,
           \/ \E o \in Offsets, s \in Sizes : ReadMiss(t, o, s)
           \/ \E a \in Adapters : FetchFails(t, a) \/ FetchSucceeds(t, a)
           \/ FetchReturns(t)
    PROVE  ReadInv'
<1>0. /\ ReadTypeOK /\ CacheSound /\ ReadExact
      /\ \A u \in Threads : FetchOK(u)
    BY DEF ReadInv
<1>1. Read(t)
    BY DEF Read
<1>2. CacheSound' /\ ranges' = ranges /\ isDel' = isDel
    BY <1>0 DEF CacheSound, ReadMiss, FetchFails, FetchSucceeds, FetchReturns, cacheVars
<1>3. FailoverTypeOK'
    BY <1>0, FailoverType
       DEF ReadTypeOK, ReadMiss, FetchFails, FetchSucceeds, FetchReturns
<1>4. ReadTypeOK' /\ FetchOK(t)' /\ data'[t] = NoData
  <2>1. ASSUME NEW o \in Offsets, NEW s \in Sizes, ReadMiss(t, o, s)
        PROVE  ReadTypeOK' /\ FetchOK(t)' /\ data'[t] = NoData
    <3> DEFINE f == [i \in 1 .. s |-> Zero]
    <3>1. o \in Nat /\ s \in Nat
        BY ReadConstants
    <3>2. f \in Seq(Bytes \cup {Zero}) /\ Len(f) = s
      <4>1. f \in [1 .. s -> Bytes \cup {Zero}]
          OBVIOUS
      <4> HIDE DEF f
      <4> QED
          BY <3>1, <4>1, FunctionIsSeq
    <3>3. buf' = [buf EXCEPT ![t] = f]
        BY <2>1 DEF ReadMiss
    <3> HIDE DEF f
    <3>4. buf' \in [Threads -> Seq(Bytes \cup {Zero})] /\ Len(buf'[t]) = s
        BY <1>0, <3>2, <3>3 DEF ReadTypeOK
    <3>5. ReadTypeOK'
        BY <1>0, <1>2, <1>3, <2>1, <3>1, <3>4 DEF ReadTypeOK, ReadMiss
    <3>6. /\ data'[t] = NoData /\ size'[t] = s /\ reading'[t] /\ by'[t] = 0
          /\ result'[t] = "none"
        BY <1>0, <2>1 DEF ReadTypeOK, FailoverTypeOK, ReadMiss, Begin
    <3> QED
        BY <3>4, <3>5, <3>6 DEF FetchOK
  <2>2. ASSUME NEW a \in Adapters, FetchFails(t, a)
        PROVE  ReadTypeOK' /\ FetchOK(t)' /\ data'[t] = NoData
    <3>1. Len(buf[t]) = size[t] /\ data[t] = NoData /\ busy[t] /\ result[t] = "none"
        BY <1>0, <2>2 DEF FetchFails, Fails, Due, FetchOK
    <3>2. PICK n \in Counts(t, a) : Fill(t, a, n)
        BY <2>2 DEF FetchFails
    <3>3. buf' \in [Threads -> Seq(Bytes \cup {Zero})] /\ Len(buf'[t]) = size[t]
        BY <1>0, <3>1, <3>2, FillFacts
    <3>4. ReadTypeOK'
        BY <1>0, <1>2, <1>3, <2>2, <3>3 DEF ReadTypeOK, FetchFails
    <3>5. /\ size'[t] = size[t] /\ data'[t] = NoData /\ by'[t] = 0 /\ reading'[t]
          /\ result'[t] = "none"
        BY <2>2, <3>1 DEF FetchFails, Fails, Due
    <3> QED
        BY <3>3, <3>4, <3>5 DEF FetchOK
  <2>3. ASSUME NEW a \in Adapters, FetchSucceeds(t, a)
        PROVE  ReadTypeOK' /\ FetchOK(t)' /\ data'[t] = NoData
    <3>1. Len(buf[t]) = size[t] /\ data[t] = NoData /\ busy[t] /\ result[t] = "none"
        BY <1>0, <2>3 DEF FetchSucceeds, Succeeds, Due, FetchOK
    <3>2. PICK n \in Counts(t, a) :
              Fill(t, a, n) /\ bytesRead' = [bytesRead EXCEPT ![t] = n]
        BY <2>3 DEF FetchSucceeds
    <3>3. /\ n \in Nat /\ n <= size[t]
          /\ buf' \in [Threads -> Seq(Bytes \cup {Zero})] /\ Len(buf'[t]) = size[t]
          /\ \A i \in 1 .. n : buf'[t][i] = <<a, offset[t] + i - 1>>
        BY <1>0, <3>1, <3>2, FillFacts
    <3>4. ReadTypeOK'
        BY <1>0, <1>2, <1>3, <2>3, <3>2, <3>3 DEF ReadTypeOK, FetchSucceeds
    <3>5. /\ size'[t] = size[t] /\ offset'[t] = offset[t] /\ data'[t] = NoData
          /\ reading'[t] /\ result'[t] = "none"
        BY <2>3, <3>1 DEF FetchSucceeds, Succeeds
    <3>6. by'[t] = a /\ bytesRead'[t] = n
        BY <1>0, <2>3, <3>2 DEF ReadTypeOK, FailoverTypeOK, FetchSucceeds, Succeeds
    <3> QED
        BY <3>3, <3>4, <3>5, <3>6 DEF FetchOK
  <2>4. ASSUME FetchReturns(t)
        PROVE  ReadTypeOK' /\ FetchOK(t)' /\ data'[t] = NoData
    <3>1. /\ UNCHANGED <<reading, offset, size, buf, bytesRead, data, by>> /\ reading[t]
          /\ ~busy'[t] /\ result'[t] \in Outcomes(t)
        BY <1>0, <2>4 DEF ReadTypeOK, FailoverTypeOK, FetchReturns, Returns, readVars
    <3>2. ReadTypeOK'
        BY <1>0, <1>2, <1>3, <3>1 DEF ReadTypeOK
    <3>3. result'[t] = "ok" => by[t] # 0
        BY <3>1 DEF Outcomes
    <3> QED
        BY <1>0, <3>1, <3>2, <3>3 DEF FetchOK
  <2> QED
    BY <2>1, <2>2, <2>3, <2>4
<1>5. \A u \in Threads : FetchOK(u)'
    BY <1>0, <1>1, <1>4, OthersKept
<1>6. ReadExact'
  <2> SUFFICES ASSUME NEW u \in Threads, data'[u] # NoData
               PROVE  /\ Len(data'[u]) <= size'[u]
                      /\ \E a \in Adapters : From(data'[u], a, offset'[u])
    BY DEF ReadExact
  <2>1. data'[u] = data[u] /\ size'[u] = size[u] /\ offset'[u] = offset[u]
    BY <1>0, <1>1, <1>4, OthersKept
  <2> QED
    BY <1>0, <2>1 DEF ReadExact
<1> QED
    BY <1>2, <1>4, <1>5, <1>6 DEF ReadInv

(* The buffer, trimmed to what the adapter that succeeded counted, is a    *)
(* piece of that adapter's source.                                         *)
LEMMA TrimmedFacts ==
    ASSUME ReadInv, NEW t \in Threads, reading[t], by[t] # 0
    PROVE  /\ Trimmed(t) \in Seq(Bytes) /\ Len(Trimmed(t)) <= size[t]
           /\ by[t] \in Adapters /\ From(Trimmed(t), by[t], offset[t])
<1>1. /\ bytesRead[t] \in Nat /\ size[t] \in Nat /\ offset[t] \in Nat
      /\ bytesRead[t] <= size[t] /\ by[t] \in Adapters
      /\ \A i \in 1 .. bytesRead[t] : buf[t][i] = <<by[t], offset[t] + i - 1>>
    BY DEF ReadInv, ReadTypeOK, FailoverTypeOK, FetchOK
<1>2. \A i \in 1 .. bytesRead[t] : buf[t][i] \in Bytes
  <2> SUFFICES ASSUME NEW i \in 1 .. bytesRead[t] PROVE buf[t][i] \in Bytes
    OBVIOUS
  <2>1. offset[t] + i - 1 \in Nat
    BY <1>1
  <2>2. buf[t][i] = <<by[t], offset[t] + i - 1>> /\ by[t] \in Adapters
    BY <1>1
  <2> QED
    BY <2>1, <2>2 DEF Bytes
<1>3. /\ Trimmed(t) \in Seq(Bytes)
      /\ Len(Trimmed(t)) = IF 1 <= bytesRead[t] THEN bytesRead[t] - 1 + 1 ELSE 0
      /\ \A i \in 1 .. bytesRead[t] - 1 + 1 : Trimmed(t)[i] = buf[t][1 + i - 1]
  <2>1. 1 \in Int /\ bytesRead[t] \in Int
    BY <1>1
  <2> QED
    BY <1>2, <2>1, SubSeqProperties DEF Trimmed
<1>4. Len(Trimmed(t)) = bytesRead[t] /\ DOMAIN Trimmed(t) = 1 .. bytesRead[t]
    BY <1>1, <1>3, LenProperties
<1>5. ASSUME NEW i \in 1 .. bytesRead[t] PROVE Trimmed(t)[i] = <<by[t], offset[t] + i - 1>>
  <2>1. Trimmed(t)[i] = buf[t][i]
    BY <1>1, <1>3
  <2> QED
    BY <1>1, <2>1
<1> QED
    BY <1>1, <1>3, <1>4, <1>5 DEF From

(* A read that returns what it fetched, or an error. *)
LEMMA ReturnInv ==
    ASSUME ReadInv, NEW t \in Threads, ReadStore(t) \/ ReadFailed(t)
    PROVE  ReadInv'
<1>0. /\ ReadTypeOK /\ CacheSound /\ ReadExact
      /\ \A u \in Threads : FetchOK(u)
    BY DEF ReadInv
<1>1. Read(t)
    BY DEF Read
<1>2. /\ UNCHANGED <<busy, tried, by, result, isDel, offset, size>>
      /\ reading[t] /\ ~busy[t] /\ ReadReturns(t)
    BY DEF ReadStore, ReadFailed, failoverVars, cacheVars
<1>3. /\ reading' \in [Threads -> BOOLEAN] /\ bytesRead' \in [Threads -> Nat]
      /\ buf' \in [Threads -> Seq(Bytes \cup {Zero})] /\ ~reading'[t]
  <2>1. << >> \in Seq(Bytes \cup {Zero})
    OBVIOUS
  <2>2. buf' \in [Threads -> Seq(Bytes \cup {Zero})]
    BY <1>0, <1>2, <2>1 DEF ReadTypeOK, ReadReturns
  <2> QED
    BY <1>0, <1>2, <2>2 DEF ReadTypeOK, ReadReturns
<1>4. /\ data' \in [Threads -> Seq(Bytes) \cup {NoData}]
      /\ ranges' \in Seq(CachedRange) /\ CacheSound'
      /\ data'[t] # NoData =>
            Len(data'[t]) <= size[t] /\ \E a \in Adapters : From(data'[t], a, offset[t])
  <2>1. CASE ReadStore(t)
    <3>1. by[t] # 0
        BY <1>0, <2>1 DEF ReadStore, FetchOK
    <3>2. /\ Trimmed(t) \in Seq(Bytes) /\ Len(Trimmed(t)) <= size[t]
          /\ by[t] \in Adapters /\ From(Trimmed(t), by[t], offset[t])
        BY <1>2, <3>1, TrimmedFacts
    <3>3. data' = [data EXCEPT ![t] = Trimmed(t)]
        BY <2>1 DEF ReadStore
    <3>4. data' \in [Threads -> Seq(Bytes) \cup {NoData}] /\ data'[t] = Trimmed(t)
        BY <1>0, <3>2, <3>3 DEF ReadTypeOK
    <3>5. offset[t] \in Nat /\ ranges \in Seq(CachedRange)
        BY <1>0 DEF ReadTypeOK
    <3>6. CacheSound' /\ ranges' \in Seq(CachedRange)
        BY <1>0, <2>1, <3>2, <3>5, StoreSound DEF ReadStore
    <3> QED
        BY <3>2, <3>4, <3>6
  <2>2. CASE ReadFailed(t)
    BY <1>0, <2>2 DEF ReadTypeOK, ReadFailed, cacheVars, CacheSound, FetchOK
  <2> QED
    BY <2>1, <2>2
<1>5. ReadTypeOK'
    BY <1>0, <1>2, <1>3, <1>4 DEF ReadTypeOK, FailoverTypeOK
<1>6. FetchOK(t)'
    BY <1>0, <1>2, <1>3 DEF FetchOK
<1>7. \A u \in Threads : FetchOK(u)'
    BY <1>0, <1>1, <1>6, OthersKept
<1>8. ReadExact'
  <2> SUFFICES ASSUME NEW u \in Threads, data'[u] # NoData
               PROVE  /\ Len(data'[u]) <= size'[u]
                      /\ \E a \in Adapters : From(data'[u], a, offset'[u])
    BY DEF ReadExact
  <2>1. CASE u = t
    BY <1>2, <1>4, <2>1
  <2>2. CASE u # t
    <3>1. data'[u] = data[u] /\ size'[u] = size[u] /\ offset'[u] = offset[u]
        BY <1>0, <1>1, <2>2, OthersKept
    <3> QED
        BY <1>0, <3>1 DEF ReadExact
  <2> QED
    BY <2>1, <2>2
<1> QED
    BY <1>4, <1>5, <1>7, <1>8 DEF ReadInv

(* Every step keeps the invariant. *)
LEMMA NextInv == ReadInv /\ [ReadNext]_vars => ReadInv'
<1> SUFFICES ASSUME ReadInv, [ReadNext]_vars PROVE ReadInv'
    OBVIOUS
<1>1. ASSUME NEW t \in Threads, Read(t) PROVE ReadInv'
    BY <1>1, HitInv, FetchInv, ReturnInv DEF Read
<1>2. CASE ClearCache \/ Del \/ UNCHANGED vars
  <2>1. /\ UNCHANGED <<busy, tried, by, result, reading, offset, size, buf, bytesRead, data>>
        /\ ranges' = ranges \/ ranges' = << >>
        /\ isDel' = isDel \/ isDel' = TRUE
    BY <1>2 DEF ClearCache, Del, vars, failoverVars, readVars
  <2>2. ranges' \in Seq(CachedRange) /\ CacheSound'
    <3>1. CASE ranges' = ranges
        BY <3>1 DEF ReadInv, ReadTypeOK, CacheSound
    <3>2. CASE ranges' = << >>
        BY <3>2 DEF CacheSound
    <3> QED
        BY <2>1, <3>1, <3>2
  <2>3. ReadTypeOK'
    BY <2>1, <2>2 DEF ReadInv, ReadTypeOK, FailoverTypeOK
  <2>4. ReadExact' /\ \A t \in Threads : FetchOK(t)'
    BY <2>1 DEF ReadInv, ReadExact, FetchOK
  <2> QED
    BY <2>2, <2>3, <2>4 DEF ReadInv
<1> QED
    BY <1>1, <1>2 DEF ReadNext

(* The invariant holds in every reachable state. *)
THEOREM Invariance == ReadSpec => []ReadInv
  BY InitInv, NextInv, PTL DEF ReadSpec

(* The cache, the buffers and the results of reads keep their types, for   *)
(* any number of sources and readers; in particular no buffer zero is ever *)
(* returned as data.                                                       *)
THEOREM TypeCorrect == ReadSpec => []ReadTypeOK
<1>1. ReadInv => ReadTypeOK
    BY DEF ReadInv
<1> QED
    BY <1>1, Invariance, PTL

(* Inode.Read returns bytes of one source from the place asked for, no     *)
(* more than was asked for.                                                *)
THEOREM ReadsAreExact == ReadSpec => []ReadExact
<1>1. ReadInv => ReadExact
    BY DEF ReadInv
<1> QED
    BY <1>1, Invariance, PTL

(* Appending a range changes no hit: the first range that covers a request *)
(* stays the first.                                                        *)
LEMMA AppendKeepsHits ==
    ASSUME NEW rs \in Seq(CachedRange), NEW r \in CachedRange,
           NEW o \in Nat, NEW s \in Nat, IsCached(rs, o, s)
    PROVE  /\ IsCached(Append(rs, r), o, s)
           /\ Get(Append(rs, r), o, s) = Get(rs, o, s)
<1> DEFINE rr == Append(rs, r)
<1>1. PICK i \in DOMAIN rs :
          /\ Covers(rs[i], o, s)
          /\ \A k \in DOMAIN rs : Covers(rs[k], o, s) => i <= k
          /\ Get(rs, o, s) = Slice(rs[i], o, s)
    BY GetFirst
<1>2. /\ rr \in Seq(CachedRange) /\ Len(rs) \in Nat
      /\ DOMAIN rs = 1 .. Len(rs) /\ DOMAIN rr = 1 .. Len(rs) + 1
      /\ \A k \in DOMAIN rs : rr[k] = rs[k]
    OBVIOUS
<1> HIDE DEF rr
<1>3. i \in DOMAIN rr /\ rr[i] = rs[i]
    BY <1>2
<1>4. IsCached(rr, o, s)
    BY <1>1, <1>3 DEF IsCached
<1>5. PICK j \in DOMAIN rr :
          /\ Covers(rr[j], o, s)
          /\ \A k \in DOMAIN rr : Covers(rr[k], o, s) => j <= k
          /\ Get(rr, o, s) = Slice(rr[j], o, s)
    BY <1>2, <1>4, GetFirst
<1>6. j <= i
    BY <1>1, <1>3, <1>5
<1>7. j \in DOMAIN rs
    BY <1>2, <1>6
<1>8. i <= j
    BY <1>1, <1>2, <1>5, <1>7
<1>9. i = j
    BY <1>2, <1>6, <1>7, <1>8
<1> QED
    BY <1>1, <1>3, <1>4, <1>5, <1>9 DEF rr

(* Until the cache is cleared, a request that was served from it is served *)
(* the same data again, whatever other readers fetch and store.            *)
THEOREM HitsAreRepeatable == ReadSpec => HitsRepeat
<1> DEFINE Repeats ==
        \A o \in Offsets, s \in Sizes :
            IsCached(ranges, o, s) /\ ranges' # << >> =>
                IsCached(ranges', o, s) /\ Get(ranges', o, s) = Get(ranges, o, s)
<1>1. ReadInv /\ [ReadNext]_vars => [Repeats]_vars
  <2> SUFFICES ASSUME ReadInv, ReadNext, NEW o \in Offsets, NEW s \in Sizes,
                      IsCached(ranges, o, s), ranges' # << >>
               PROVE  IsCached(ranges', o, s) /\ Get(ranges', o, s) = Get(ranges, o, s)
    OBVIOUS
  <2>0. o \in Nat /\ s \in Nat /\ ranges \in Seq(CachedRange)
    BY ReadConstants DEF ReadInv, ReadTypeOK
  <2>1. CASE ranges' = ranges
    BY <2>1
  <2>2. CASE ranges' # ranges
    <3>1. PICK t \in Threads : ReadStore(t)
        BY <2>2 DEF ReadNext, Read, ClearCache, Del, ReadHit, ReadMiss, FetchFails, FetchSucceeds,
                    FetchReturns, ReadFailed, cacheVars
    <3>2. Trimmed(t) \in Seq(Bytes)
      <4>1. reading[t] /\ by[t] # 0
          BY <3>1 DEF ReadStore, ReadInv, FetchOK
      <4> QED
          BY <4>1, TrimmedFacts
    <3> DEFINE r == [start |-> offset[t], data |-> Trimmed(t)]
    <3>3. r \in CachedRange
        BY <3>2 DEF ReadInv, ReadTypeOK, CachedRange
    <3>4. ranges' = Append(ranges, r)
        BY <2>2, <3>1 DEF ReadStore, Store
    <3> QED
        BY <2>0, <3>3, <3>4, AppendKeepsHits
  <2> QED
    BY <2>1, <2>2
<1> QED
    BY <1>1, Invariance, PTL DEF ReadSpec, HitsRepeat
=============================================================================
