----------------------------- MODULE InodeRead -----------------------------
(***************************************************************************)
(* Inode.Read with its data cache (filesystem/inode.go), called through    *)
(* FileSystem.Read, which holds the node's lock for reading, and Node.Del, *)
(* which takes it for writing (filesystem/fs.go, node.go).                 *)
(*                                                                         *)
(* tryOperation is used by what Failover promises of it.  A byte is named  *)
(* by the source it came from and its place there, so that data put        *)
(* together from two sources, or from the wrong place, shows.              *)
(***************************************************************************)
EXTENDS Failover, Sequences, SequencesExt

CONSTANTS
    Length,      \* Length[a]: the number of bytes that source a has
    Offsets,     \* the offsets that reads ask for
    Sizes,       \* and their sizes
    MaxRanges    \* bound on the number of cached ranges

ASSUME ReadConstants ==
    /\ NumAdapters \in Nat \ {0}
    /\ Length \in [Adapters -> Nat]
    /\ Offsets \subseteq Nat
    /\ Sizes \subseteq Nat \ {0}
    /\ MaxRanges \in Nat

VARIABLES
    ranges,     \* dataCache.ranges
    isDel,      \* Node.isDel of the node in front of the inode
    reading,    \* reading[t]: t is inside FileSystem.Read
    offset,     \* offset[t], size[t]: what t's last read asked for
    size,
    buf,        \* buf[t]: the buffer that adapters read into
    bytesRead,  \* bytesRead[t]: the last adapter's answer
    data        \* data[t]: what t's last read returned; NoData for nil

cacheVars == <<ranges, isDel>>
readVars  == <<reading, offset, size, buf, bytesRead, data>>
vars == <<busy, tried, by, result, ranges, isDel, reading, offset, size, buf,
          bytesRead, data>>

Bytes  == Adapters \X Nat
Zero   == <<0, 0>>   \* what make([]byte, size) fills the buffer with
NoData == <<Zero>>   \* nil; never returned as data

CachedRange == [start : Nat, data : Seq(Bytes)]

ReadTypeOK ==
    /\ FailoverTypeOK
    /\ ranges \in Seq(CachedRange)
    /\ isDel \in BOOLEAN
    /\ reading \in [Threads -> BOOLEAN]
    /\ offset \in [Threads -> Nat]
    /\ size \in [Threads -> Nat]
    /\ buf \in [Threads -> Seq(Bytes \cup {Zero})]
    /\ bytesRead \in [Threads -> Nat]
    /\ data \in [Threads -> Seq(Bytes) \cup {NoData}]

ReadInit ==
    /\ FailoverInit
    /\ ranges = << >>
    /\ isDel = FALSE
    /\ reading = [t \in Threads |-> FALSE]
    /\ offset = [t \in Threads |-> 0]
    /\ size = [t \in Threads |-> 0]
    /\ buf = [t \in Threads |-> << >>]
    /\ bytesRead = [t \in Threads |-> 0]
    /\ data = [t \in Threads |-> NoData]

-----------------------------------------------------------------------------
(* dataCache.get: the first range that contains the whole request. *)

Covers(r, o, s) == r.start <= o /\ r.start + Len(r.data) >= o + s

(* Mutant: a hit copies from the start of the range, not from the offset. *)
SliceStart(r, o, s) == SubSeq(r.data, 1, s)

(* r.data[startIdx:endIdx] *)
Slice(r, o, s) == SubSeq(r.data, o - r.start + 1, o - r.start + s)

IsCached(rs, o, s) == \E i \in DOMAIN rs : Covers(rs[i], o, s)

Get(rs, o, s) ==
    LET i == CHOOSE j \in DOMAIN rs :
                 /\ Covers(rs[j], o, s)
                 /\ \A k \in DOMAIN rs : Covers(rs[k], o, s) => j <= k
    IN  Slice(rs[i], o, s)

(* Mutant: the new range goes in front. *)
StoreFront(rs, o, d) ==
    IF d = << >> THEN rs ELSE <<[start |-> o, data |-> d]>> \o rs

(* dataCache.store: a copy at the end; nothing is stored of no bytes. *)
Store(rs, o, d) ==
    IF d = << >> THEN rs ELSE Append(rs, [start |-> o, data |-> d])

-----------------------------------------------------------------------------
(* Inode.Read: a hit returns at once. *)
ReadHit(t, o, s) ==
    /\ ~reading[t]
    /\ IsCached(ranges, o, s)
    /\ data' = [data EXCEPT ![t] = Get(ranges, o, s)]
    /\ offset' = [offset EXCEPT ![t] = o]
    /\ size' = [size EXCEPT ![t] = s]
    /\ UNCHANGED <<failoverVars, cacheVars, reading, buf, bytesRead>>

(* A miss: a fresh buffer, then tryOperation. *)
ReadMiss(t, o, s) ==
    /\ ~reading[t]
    /\ ~IsCached(ranges, o, s)
    /\ reading' = [reading EXCEPT ![t] = TRUE]
    /\ Begin(t)
    /\ offset' = [offset EXCEPT ![t] = o]
    /\ size' = [size EXCEPT ![t] = s]
    /\ buf' = [buf EXCEPT ![t] = [i \in 1 .. s |-> Zero]]
    /\ bytesRead' = [bytesRead EXCEPT ![t] = 0]
    /\ data' = [data EXCEPT ![t] = NoData]
    /\ UNCHANGED cacheVars

(* How many bytes adapter a may put into t's buffer: up to the end of the  *)
(* source or less, as a body cut short counts as its end (io.ReadFull in   *)
(* adapters/http.go).                                                      *)
Counts(t, a) == {n \in 0 .. size[t] : offset[t] + n <= Length[a] \/ n = 0}

Fill(t, a, n) ==
    buf' = [buf EXCEPT ![t] =
               [i \in 1 .. size[t] |-> IF i <= n THEN <<a, offset[t] + i - 1>> ELSE @[i]]]

(* The operation on adapter a fails, perhaps half way through the buffer;  *)
(* it returns 0 and the error.                                             *)
FetchFails(t, a) ==
    /\ reading[t]
    /\ Fails(t, a)
    /\ \E n \in Counts(t, a) : Fill(t, a, n)
    /\ bytesRead' = [bytesRead EXCEPT ![t] = 0]
    /\ UNCHANGED <<cacheVars, reading, offset, size, data>>

FetchSucceeds(t, a) ==
    /\ reading[t]
    /\ Succeeds(t, a)
    /\ \E n \in Counts(t, a) :
          /\ Fill(t, a, n)
          /\ bytesRead' = [bytesRead EXCEPT ![t] = n]
    /\ UNCHANGED <<cacheVars, reading, offset, size, data>>

FetchReturns(t) ==
    /\ reading[t]
    /\ Returns(t)
    /\ UNCHANGED <<cacheVars, readVars>>

(* Mutant: the buffer is not trimmed. *)
TrimmedNot(t) == buf[t]

(* buf[:bytesRead] *)
Trimmed(t) == SubSeq(buf[t], 1, bytesRead[t])

(* The buffer and the count go out of scope. *)
ReadReturns(t) ==
    /\ reading' = [reading EXCEPT ![t] = FALSE]
    /\ buf' = [buf EXCEPT ![t] = << >>]
    /\ bytesRead' = [bytesRead EXCEPT ![t] = 0]

(* tryOperation has returned nil: trim, store, return the data. *)
ReadStore(t) ==
    /\ reading[t] /\ ~busy[t] /\ result[t] = "ok"
    /\ Len(ranges) < MaxRanges
    /\ data' = [data EXCEPT ![t] = Trimmed(t)]
    /\ ranges' = Store(ranges, offset[t], Trimmed(t))
    /\ ReadReturns(t)
    /\ UNCHANGED <<failoverVars, isDel, offset, size>>

(* It has returned an error: nothing is stored. *)
ReadFailed(t) ==
    /\ reading[t] /\ ~busy[t] /\ result[t] # "ok"
    /\ ReadReturns(t)
    /\ UNCHANGED <<failoverVars, cacheVars, offset, size, data>>

(* Inode.ClearCache, exported: it takes the cache's own lock only. *)
ClearCache ==
    /\ ranges' = << >>
    /\ UNCHANGED <<failoverVars, isDel, readVars>>

(* Node.Del waits for the readers of the node, marks it and clears the     *)
(* cache.                                                                  *)
Del ==
    /\ \A t \in Threads : ~reading[t]
    /\ isDel' = TRUE
    /\ ranges' = << >>
    /\ UNCHANGED <<failoverVars, readVars>>

-----------------------------------------------------------------------------
Read(t) ==
    \/ \E o \in Offsets, s \in Sizes : ReadHit(t, o, s) \/ ReadMiss(t, o, s)
    \/ \E a \in Adapters : FetchFails(t, a) \/ FetchSucceeds(t, a)
    \/ FetchReturns(t) \/ ReadStore(t) \/ ReadFailed(t)

ReadNext == ClearCache \/ Del \/ \E t \in Threads : Read(t)

ReadSpec == ReadInit /\ [][ReadNext]_vars

-----------------------------------------------------------------------------
(* d is what source a has from place o on. *)
From(d, a, o) == \A i \in DOMAIN d : d[i] = <<a, o + i - 1>>

(* A read returns no more than was asked for, from the place that was      *)
(* asked for, and all of one source: neither the rest of a failed attempt  *)
(* in the buffer, nor the buffer's zeros, nor a neighbouring part of a     *)
(* cached range gets into it (Inode.Read, dataCache.get and store).        *)
ReadExact ==
    \A t \in Threads : data[t] # NoData =>
        /\ Len(data[t]) <= size[t]
        /\ \E a \in Adapters : From(data[t], a, offset[t])

(* What a read found in the cache a later read finds there too, unless the *)
(* cache was cleared: concurrent fetches of overlapping ranges, perhaps    *)
(* from another source, do not change what readers see (store appends, get *)
(* takes the first match).                                                 *)
HitsRepeat ==
    [][\A o \in Offsets, s \in Sizes :
           IsCached(ranges, o, s) /\ ranges' # << >> =>
               IsCached(ranges', o, s) /\ Get(ranges', o, s) = Get(ranges, o, s)]_vars
=============================================================================
