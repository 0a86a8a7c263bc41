------------------------- MODULE AdapterPoolProofs -------------------------
(***************************************************************************)
(* Proofs about AdapterPool, for every number of adapters, every retry     *)
(* limit and every set of callers: whatever the health words do under      *)
(* racing markFailed and markHealthy calls, tryOperation keeps the promise *)
(* of Failover.                                                            *)
(***************************************************************************)
EXTENDS AdapterPool, TLAPS

-----------------------------------------------------------------------------
(* t is putting its list together; t has an adapter in hand. *)
Listing(t) == pc[t] \in {"healthy", "retry", "count", "since"}
Asking(t)  == pc[t] \in {"op", "failed1", "failed2", "failed3"}
Done(t)    == pc[t] \in {"ok1", "ok2"}

Ordered(t) ==
    /\ \A i, j \in DOMAIN list[t] : i < j => list[t][i] < list[t][j]
    /\ \A i \in DOMAIN list[t], b \in tried[t] : b < list[t][i]

(* How far t's call is, and what it can then say of list, tried, by and    *)
(* result.  The list may be empty in the loop only if something was tried. *)
CallOK(t) ==
    /\ Ordered(t)
    /\ pc[t] = "idle" => list[t] = << >>
    /\ pc[t] # "idle" => result[t] = "none"
    /\ Listing(t) =>
           /\ tried[t] = {} /\ by[t] = 0
           /\ \A i \in DOMAIN list[t] : list[t][i] < idx[t]
    /\ pc[t] = "loop" \/ Asking(t) => by[t] = 0
    /\ pc[t] = "loop" /\ list[t] = << >> => tried[t] # {}
    /\ Asking(t) \/ Done(t) => list[t] # << >>
    /\ Done(t) => by[t] = Head(list[t])
    /\ result[t] = "ok" => by[t] \in Adapters \ tried[t]

PoolInv == PoolTypeOK /\ \A t \in Threads : CallOK(t)

-----------------------------------------------------------------------------
(* The adapters are the numbers from 1 to NumAdapters. *)
LEMMA AdapterFacts ==
    /\ Primary \in Adapters /\ 0 \notin Adapters
    /\ \A a \in Adapters : a \in Nat /\ (a < NumAdapters => a + 1 \in Adapters)
    /\ \A c \in 0 .. MaxRetries : c \in Nat
    /\ 0 \in 0 .. MaxRetries /\ MaxRetries \in 0 .. MaxRetries
  BY PoolConstants DEF Adapters, Primary

(* newAdapterPool establishes the invariant. *)
LEMMA InitInv == PoolInit => PoolInv
<1> SUFFICES ASSUME PoolInit PROVE PoolInv
    OBVIOUS
<1>1. PoolTypeOK
    BY AdapterFacts DEF PoolInit, PoolTypeOK, Labels
<1>2. \A t \in Threads : CallOK(t)
    BY AdapterFacts DEF PoolInit, CallOK, Ordered, Listing, Asking, Done
<1> QED
    BY <1>1, <1>2 DEF PoolInv

(* What is left of a list is still a list of adapters. *)
LEMMA ListFacts ==
    ASSUME NEW l \in Seq(Adapters), l # << >>
    PROVE  /\ Head(l) \in Adapters /\ Tail(l) \in Seq(Adapters)
           /\ Len(l) \in Nat /\ Len(l) >= 1 /\ Head(l) = l[1] /\ DOMAIN l = 1 .. Len(l)
           /\ DOMAIN Tail(l) = 1 .. Len(l) - 1
           /\ \A i \in DOMAIN Tail(l) : Tail(l)[i] = l[i + 1]
  OBVIOUS

(* An adapter put at the end of a list is an adapter of the list. *)
LEMMA AppendFacts ==
    ASSUME NEW l \in Seq(Adapters), NEW a \in Adapters
    PROVE  /\ Append(l, a) \in Seq(Adapters)
           /\ Len(l) \in Nat /\ DOMAIN l = 1 .. Len(l)
           /\ DOMAIN Append(l, a) = 1 .. Len(l) + 1
           /\ \A i \in 1 .. Len(l) : Append(l, a)[i] = l[i]
           /\ Append(l, a)[Len(l) + 1] = a
           /\ Append(l, a) # << >>
  OBVIOUS

(* The list that goes into the loop is not empty: a last resort is there.  *)
LEMMA LastResortFacts ==
    ASSUME NEW l \in Seq(Adapters)
    PROVE  /\ LastResort(l) \in Seq(Adapters)
           /\ LastResort(l) # << >>
           /\ l # << >> => LastResort(l) = l
           /\ l = << >> => LastResort(l) = <<Primary>>
  BY AdapterFacts DEF LastResort

-----------------------------------------------------------------------------
(* Taking or passing over an adapter keeps the types. *)
LEMMA ConsiderType ==
    ASSUME PoolTypeOK, NEW t \in Threads, NEW take \in BOOLEAN, Consider(t, take)
    PROVE  PoolTypeOK'
<1> DEFINE l == IF take THEN Append(list[t], idx[t]) ELSE list[t]
<1>1. list[t] \in Seq(Adapters) /\ idx[t] \in Adapters
    BY DEF PoolTypeOK
<1>2. l \in Seq(Adapters) /\ LastResort(l) \in Seq(Adapters)
    BY <1>1, AppendFacts, LastResortFacts
<1>3. list' \in [Threads -> Seq(Adapters)]
    BY <1>2 DEF PoolTypeOK, Consider
<1>4. idx' \in [Threads -> Adapters]
  <2>1. PICK a \in Adapters : idx' = [idx EXCEPT ![t] = a]
    <3>1. CASE idx[t] < NumAdapters
        BY <1>1, <3>1, AdapterFacts DEF Consider
    <3>2. CASE ~(idx[t] < NumAdapters)
        BY <3>2, AdapterFacts DEF Consider
    <3> QED
        BY <3>1, <3>2
  <2> QED
    BY <2>1 DEF PoolTypeOK
<1>5. fc' \in [Threads -> 0 .. MaxRetries]
  <2>1. fc' = [fc EXCEPT ![t] = 0]
    BY DEF Consider
  <2> QED
    BY <2>1, AdapterFacts DEF PoolTypeOK
<1> QED
    BY <1>3, <1>4, <1>5 DEF PoolTypeOK, Consider, Goto, Labels, health

(* A caller that returns has no list left. *)
LEMMA ReturnType ==
    ASSUME PoolTypeOK, NEW t \in Threads, NEW res \in {"ok", "err", "cancelled"}, Return(t, res)
    PROVE  /\ pc' \in [Threads -> Labels]
           /\ list' \in [Threads -> Seq(Adapters)]
           /\ result' \in [Threads -> {"none", "ok", "err", "cancelled"}]
<1>1. << >> \in Seq(Adapters)
    OBVIOUS
<1>2. list' = [list EXCEPT ![t] = << >>]
    BY DEF Return
<1>3. list' \in [Threads -> Seq(Adapters)]
    BY <1>1, <1>2 DEF PoolTypeOK
<1> QED
    BY <1>3 DEF PoolTypeOK, Return, Goto, Labels

(* No step leads out of the types. *)
LEMMA TypePreserved == PoolInv /\ [PoolNext]_poolVars => PoolTypeOK'
<1> SUFFICES ASSUME PoolInv, [PoolNext]_poolVars PROVE PoolTypeOK'
    OBVIOUS
<1>0. PoolTypeOK /\ \A t \in Threads : CallOK(t)
    BY DEF PoolInv
<1> USE AdapterFacts, PoolConstants
<1>1. ASSUME NEW a \in Adapters, Tick(a) PROVE PoolTypeOK'
    BY <1>0, <1>1 DEF PoolTypeOK, Tick
<1>2. ASSUME NEW a \in Adapters, Flip(a) PROVE PoolTypeOK'
  <2>1. up' \in [Adapters -> BOOLEAN]
    BY <1>0, <1>2, Zenon DEF PoolTypeOK, Flip
  <2> QED
    BY <1>0, <1>2, <2>1 DEF PoolTypeOK, Flip, health
<1>3. ASSUME NEW t \in Threads, Cancel(t) PROVE PoolTypeOK'
    BY <1>0, <1>3 DEF PoolTypeOK, Cancel, health
<1>4. ASSUME NEW t \in Threads, Start(t) PROVE PoolTypeOK'
    BY <1>0, <1>4 DEF PoolTypeOK, Start, Goto, Labels, health
<1>5. ASSUME NEW t \in Threads, CheckHealthy(t) PROVE PoolTypeOK'
  <2>1. CASE Consider(t, TRUE)
    BY <1>0, <2>1, ConsiderType
  <2>2. CASE ~Consider(t, TRUE)
    BY <1>0, <1>5, <2>2 DEF PoolTypeOK, CheckHealthy, Goto, Labels, health
  <2> QED
    BY <2>1, <2>2
<1>6. ASSUME NEW t \in Threads, CheckCount(t) PROVE PoolTypeOK'
  <2>1. CASE Consider(t, FALSE)
    BY <1>0, <2>1, ConsiderType
  <2>2. CASE ~Consider(t, FALSE)
    <3>1. idx[t] \in Adapters /\ failCount[idx[t]] \in 0 .. MaxRetries
        BY <1>0 DEF PoolTypeOK
    <3>2. fc' \in [Threads -> 0 .. MaxRetries]
        BY <1>0, <1>6, <2>2, <3>1 DEF PoolTypeOK, CheckCount
    <3> QED
        BY <1>0, <1>6, <2>2, <3>2 DEF PoolTypeOK, CheckCount, Goto, Labels, health
  <2> QED
    BY <2>1, <2>2
<1>7. ASSUME NEW t \in Threads, CheckSince(t) PROVE PoolTypeOK'
  <2>1. (age[idx[t]] > fc[t]) \in BOOLEAN
    OBVIOUS
  <2> QED
    BY <1>0, <1>7, <2>1, ConsiderType DEF CheckSince
<1>8. ASSUME NEW t \in Threads, TryNext(t) PROVE PoolTypeOK'
  <2>1. CASE Return(t, "cancelled")
    BY <1>0, <1>8, <2>1, ReturnType DEF PoolTypeOK, TryNext, health
  <2>2. CASE ~Return(t, "cancelled")
    BY <1>0, <1>8, <2>2 DEF PoolTypeOK, TryNext, Goto, Labels, health
  <2> QED
    BY <2>1, <2>2
<1>9. ASSUME NEW t \in Threads, list[t] # << >>
      PROVE  Head(list[t]) \in Adapters /\ Tail(list[t]) \in Seq(Adapters)
  <2>1. list[t] \in Seq(Adapters)
    BY <1>0 DEF PoolTypeOK
  <2> QED
    BY <1>9, <2>1, ListFacts
<1>10. ASSUME NEW t \in Threads, TryOK(t) PROVE PoolTypeOK'
  <2>1. list[t] # << >>
    BY <1>0, <1>10 DEF TryOK, CallOK, Asking
  <2> QED
    BY <1>0, <1>9, <1>10, <2>1 DEF PoolTypeOK, TryOK, Goto, Labels, health
<1>11. ASSUME NEW t \in Threads, TryFail(t) PROVE PoolTypeOK'
    BY <1>0, <1>11 DEF PoolTypeOK, TryFail, Goto, Labels, health
<1>12. ASSUME NEW t \in Threads, TryEnd(t) PROVE PoolTypeOK'
    BY <1>0, <1>12, ReturnType DEF PoolTypeOK, TryEnd, health
<1>13. ASSUME NEW t \in Threads, MarkFailed1(t) \/ MarkHealthy1(t) PROVE PoolTypeOK'
    BY <1>0, <1>13 DEF PoolTypeOK, MarkFailed1, MarkHealthy1, Goto, Labels
<1>14. ASSUME NEW t \in Threads, MarkFailed2(t) PROVE PoolTypeOK'
  <2>1. list[t] # << >>
    BY <1>0, <1>14 DEF MarkFailed2, CallOK, Asking
  <2>2. PICK c \in 0 .. MaxRetries : failCount' = [failCount EXCEPT ![Head(list[t])] = c]
    <3>1. failCount[Head(list[t])] \in 0 .. MaxRetries
        BY <1>0, <1>9, <2>1 DEF PoolTypeOK
    <3>2. CASE failCount[Head(list[t])] < MaxRetries
      <4>1. failCount[Head(list[t])] + 1 \in 0 .. MaxRetries
          BY <3>1, <3>2
      <4>2. failCount' = [failCount EXCEPT ![Head(list[t])] = failCount[Head(list[t])] + 1]
          BY <1>14, <3>2, Zenon DEF MarkFailed2
      <4> QED
          BY <4>1, <4>2, Zenon
    <3>3. CASE ~(failCount[Head(list[t])] < MaxRetries)
      <4>1. failCount' = [failCount EXCEPT ![Head(list[t])] = failCount[Head(list[t])]]
          BY <1>14, <3>3, Zenon DEF MarkFailed2
      <4> QED
          BY <3>1, <4>1, Zenon
    <3> QED
        BY <3>2, <3>3
  <2>3. failCount' \in [Adapters -> 0 .. MaxRetries]
    BY <1>0, <2>2 DEF PoolTypeOK
  <2> QED
    BY <1>0, <1>14, <2>3 DEF PoolTypeOK, MarkFailed2, Goto, Labels
<1>15. ASSUME NEW t \in Threads, MarkFailed3(t) PROVE PoolTypeOK'
  <2>1. list[t] # << >>
    BY <1>0, <1>15 DEF MarkFailed3, CallOK, Asking
  <2>2. list' \in [Threads -> Seq(Adapters)] /\ tried' \in [Threads -> SUBSET Adapters]
    BY <1>0, <1>9, <1>15, <2>1 DEF PoolTypeOK, MarkFailed3
  <2> QED
    BY <1>0, <1>15, <2>2 DEF PoolTypeOK, MarkFailed3, Goto, Labels
<1>16. ASSUME NEW t \in Threads, MarkHealthy2(t) PROVE PoolTypeOK'
    BY <1>0, <1>16, ReturnType DEF PoolTypeOK, MarkHealthy2
<1>17. CASE UNCHANGED poolVars
    BY <1>0, <1>17 DEF PoolTypeOK, poolVars
<1> QED
    BY <1>1, <1>2, <1>3, <1>4, <1>5, <1>6, <1>7, <1>8, <1>10, <1>11, <1>12, <1>13, <1>14,
       <1>15, <1>16, <1>17
       DEF PoolNext, Step, Choose, Try

-----------------------------------------------------------------------------
(* A call is described by its own variables only. *)
LEMMA CallFrame ==
    ASSUME NEW u \in Threads, CallOK(u),
           pc'[u] = pc[u], idx'[u] = idx[u], list'[u] = list[u],
           tried'[u] = tried[u], by'[u] = by[u], result'[u] = result[u]
    PROVE  CallOK(u)'
  BY DEF CallOK, Ordered, Listing, Asking, Done

(* A step of t leaves the other calls alone. *)
LEMMA OthersKept ==
    ASSUME PoolTypeOK, NEW t \in Threads, Start(t) \/ Choose(t) \/ Try(t),
           NEW u \in Threads \ {t}, CallOK(u)
    PROVE  CallOK(u)'
<1>1. /\ pc'[u] = pc[u] /\ idx'[u] = idx[u] /\ list'[u] = list[u]
      /\ tried'[u] = tried[u] /\ by'[u] = by[u] /\ result'[u] = result[u]
    BY DEF PoolTypeOK, Start, Choose, Try, CheckHealthy, CheckCount, CheckSince, Consider,
           TryNext, TryOK, TryFail, TryEnd, MarkFailed1, MarkFailed2, MarkFailed3,
           MarkHealthy1, MarkHealthy2, Return, Goto
<1> QED
    BY <1>1, CallFrame

(* Building the list: an adapter that is taken comes after those on the    *)
(* list, and the list that goes into the loop is not empty.                *)
LEMMA ConsiderCall ==
    ASSUME PoolTypeOK, NEW t \in Threads, CallOK(t), Listing(t),
           NEW take \in BOOLEAN, Consider(t, take)
    PROVE  CallOK(t)'
<1> DEFINE l == IF take THEN Append(list[t], idx[t]) ELSE list[t]
<1>0. list[t] \in Seq(Adapters) /\ idx[t] \in Adapters
    BY DEF PoolTypeOK
<1>1. l \in Seq(Adapters) /\ DOMAIN l = 1 .. Len(l) /\ Len(l) \in Nat
    BY <1>0, AppendFacts
<1>2. /\ \A i \in DOMAIN l : l[i] \in Adapters /\ l[i] <= idx[t]
      /\ \A i, j \in DOMAIN l : i < j => l[i] < l[j]
  <2>0. /\ \A i \in DOMAIN list[t] : list[t][i] \in Adapters /\ list[t][i] < idx[t]
        /\ \A i, j \in DOMAIN list[t] : i < j => list[t][i] < list[t][j]
    BY <1>0 DEF CallOK, Ordered
  <2>n. idx[t] \in Nat /\ \A i \in DOMAIN list[t] : list[t][i] \in Nat
    BY <1>0, <2>0, AdapterFacts
  <2>i. \A i \in DOMAIN list[t] : list[t][i] <= idx[t]
    BY <2>0, <2>n
  <2>1. CASE take
    <3>1. l = Append(list[t], idx[t])
        BY <2>1
    <3>2. /\ DOMAIN l = 1 .. Len(list[t]) + 1 /\ Len(list[t]) \in Nat
          /\ DOMAIN list[t] = 1 .. Len(list[t])
          /\ l[Len(list[t]) + 1] = idx[t]
          /\ \A i \in DOMAIN list[t] : l[i] = list[t][i]
        BY <1>0, <3>1, AppendFacts
    <3>3. \A i \in DOMAIN l : i \in DOMAIN list[t] \/ i = Len(list[t]) + 1
        BY <3>2
    <3>4. \A i \in DOMAIN l : l[i] \in Adapters /\ l[i] <= idx[t]
        BY <1>0, <2>0, <2>n, <2>i, <3>2, <3>3
    <3>5. ASSUME NEW i \in DOMAIN l, NEW j \in DOMAIN l, i < j PROVE l[i] < l[j]
      <4>1. i \in DOMAIN list[t]
          BY <3>2, <3>5
      <4> QED
          BY <2>0, <3>2, <3>3, <3>5, <4>1
    <3> QED
        BY <3>4, <3>5
  <2>2. CASE ~take
    <3>1. l = list[t]
        BY <2>2
    <3> QED
        BY <2>0, <2>i, <3>1
  <2> QED
    BY <2>1, <2>2
<1>3. tried'[t] = {} /\ by'[t] = 0 /\ result'[t] = "none"
    BY DEF CallOK, Listing, Consider
<1>4. CASE idx[t] < NumAdapters
  <2>1. list'[t] = l /\ idx'[t] = idx[t] + 1 /\ pc'[t] = "healthy"
    BY <1>4 DEF PoolTypeOK, Consider, Goto
  <2>2. \A i \in DOMAIN l : l[i] < idx[t] + 1
    <3> SUFFICES ASSUME NEW i \in DOMAIN l PROVE l[i] < idx[t] + 1
        OBVIOUS
    <3>1. l[i] \in Nat /\ idx[t] \in Nat /\ l[i] <= idx[t]
        BY <1>0, <1>2, AdapterFacts
    <3> QED
        BY <3>1
  <2>3. Ordered(t)'
    BY <1>2, <1>3, <2>1 DEF Ordered
  <2> QED
    BY <1>3, <2>1, <2>2, <2>3 DEF CallOK, Listing, Asking, Done
<1>5. CASE ~(idx[t] < NumAdapters)
  <2>1. list'[t] = LastResort(l) /\ pc'[t] = "loop"
    BY <1>5 DEF PoolTypeOK, Consider, Goto
  <2>2. LastResort(l) # << >> /\ \A i, j \in DOMAIN LastResort(l) :
                                     i < j => LastResort(l)[i] < LastResort(l)[j]
    <3>1. CASE l = << >>
      <4>1. LastResort(l) = <<Primary>> /\ LastResort(l) # << >>
          BY <1>1, <3>1, LastResortFacts
      <4>2. DOMAIN <<Primary>> = 1 .. 1
          OBVIOUS
      <4> QED
          BY <4>1, <4>2
    <3>2. CASE l # << >>
      <4>1. LastResort(l) = l
          BY <1>1, <3>2, LastResortFacts
      <4> QED
          BY <1>2, <3>2, <4>1
    <3> QED
        BY <3>1, <3>2
  <2>3. Ordered(t)'
    BY <1>3, <2>1, <2>2 DEF Ordered
  <2> QED
    BY <1>3, <2>1, <2>2, <2>3 DEF CallOK, Listing, Asking, Done
<1> QED
    BY <1>4, <1>5

(* A step of a call keeps what the call can say of itself. *)
LEMMA CallKept ==
    ASSUME PoolTypeOK, NEW t \in Threads, CallOK(t), Start(t) \/ Choose(t) \/ Try(t)
    PROVE  CallOK(t)'
<1>0. list[t] \in Seq(Adapters)
    BY DEF PoolTypeOK
<1> USE DEF Listing, Asking, Done, Goto
<1>1. CASE Start(t)
    BY <1>1, AdapterFacts DEF PoolTypeOK, Start, CallOK, Ordered
<1>2. CASE CheckHealthy(t)
  <2>1. CASE Consider(t, TRUE)
    BY <1>2, <2>1, ConsiderCall DEF CheckHealthy
  <2>2. CASE ~Consider(t, TRUE)
    BY <1>2, <2>2 DEF PoolTypeOK, CheckHealthy, CallOK, Ordered
  <2> QED
    BY <2>1, <2>2
<1>3. CASE CheckCount(t)
  <2>1. CASE Consider(t, FALSE)
    BY <1>3, <2>1, ConsiderCall DEF CheckCount
  <2>2. CASE ~Consider(t, FALSE)
    BY <1>3, <2>2 DEF PoolTypeOK, CheckCount, CallOK, Ordered
  <2> QED
    BY <2>1, <2>2
<1>4. CASE CheckSince(t)
  <2>1. (age[idx[t]] > fc[t]) \in BOOLEAN
    OBVIOUS
  <2> QED
    BY <1>4, <2>1, ConsiderCall DEF CheckSince
<1>5. CASE TryNext(t)
    BY <1>5 DEF PoolTypeOK, TryNext, Return, CallOK, Ordered
<1>6. CASE TryOK(t)
    BY <1>6 DEF PoolTypeOK, TryOK, CallOK, Ordered
<1>7. CASE TryFail(t)
    BY <1>7 DEF PoolTypeOK, TryFail, CallOK, Ordered
<1>8. CASE TryEnd(t)
    BY <1>8 DEF PoolTypeOK, TryEnd, Return, CallOK, Ordered
<1>9. CASE MarkFailed1(t) \/ MarkFailed2(t)
    BY <1>9 DEF PoolTypeOK, MarkFailed1, MarkFailed2, CallOK, Ordered
<1>10. CASE MarkFailed3(t)
  <2>1. list[t] # << >> /\ by[t] = 0 /\ result[t] = "none" /\ Ordered(t)
    BY <1>10 DEF MarkFailed3, CallOK
  <2>2. /\ list'[t] = Tail(list[t]) /\ tried'[t] = tried[t] \cup {Head(list[t])}
        /\ by'[t] = 0 /\ result'[t] = "none" /\ pc'[t] = "loop"
    BY <1>10, <2>1 DEF PoolTypeOK, MarkFailed3
  <2>3. Ordered(t)'
    <3>1. /\ DOMAIN list[t] = 1 .. Len(list[t]) /\ Len(list[t]) \in Nat /\ Len(list[t]) >= 1
          /\ DOMAIN Tail(list[t]) = 1 .. Len(list[t]) - 1
          /\ \A i \in DOMAIN Tail(list[t]) : Tail(list[t])[i] = list[t][i + 1]
          /\ Head(list[t]) = list[t][1]
        BY <1>0, <2>1, ListFacts
    <3>2. \A i \in DOMAIN Tail(list[t]) : i + 1 \in DOMAIN list[t] /\ 1 < i + 1
        BY <3>1
    <3>3. \A i, j \in DOMAIN Tail(list[t]) : i < j => Tail(list[t])[i] < Tail(list[t])[j]
        BY <2>1, <3>1, <3>2 DEF Ordered
    <3>4. ASSUME NEW i \in DOMAIN Tail(list[t]), NEW b \in tried[t] \cup {Head(list[t])}
          PROVE  b < Tail(list[t])[i]
      <4>1. CASE b \in tried[t]
          BY <2>1, <3>1, <3>2, <4>1 DEF Ordered
      <4>2. CASE b = list[t][1]
        <5>1. 1 \in DOMAIN list[t]
            BY <3>1
        <5> QED
            BY <2>1, <3>1, <3>2, <4>2, <5>1 DEF Ordered
      <4> QED
          BY <3>1, <4>1, <4>2
    <3> QED
        BY <2>2, <3>3, <3>4 DEF Ordered
  <2> QED
    BY <2>2, <2>3 DEF CallOK
<1>11. CASE MarkHealthy1(t)
    BY <1>11 DEF PoolTypeOK, MarkHealthy1, CallOK, Ordered
<1>12. CASE MarkHealthy2(t)
  <2>1. by[t] = Head(list[t]) /\ list[t] # << >> /\ Ordered(t)
    BY <1>12 DEF MarkHealthy2, CallOK
  <2>2. by[t] \in Adapters \ tried[t]
    <3>1. by[t] = list[t][1] /\ 1 \in DOMAIN list[t] /\ by[t] \in Adapters
        BY <1>0, <2>1, ListFacts
    <3>2. \A b \in tried[t] : b < by[t]
        BY <2>1, <3>1 DEF Ordered
    <3> QED
        BY <3>1, <3>2, AdapterFacts
  <2>3. /\ list'[t] = << >> /\ result'[t] = "ok" /\ pc'[t] = "idle"
        /\ tried'[t] = tried[t] /\ by'[t] = by[t]
    BY <1>12 DEF PoolTypeOK, MarkHealthy2, Return
  <2> QED
    BY <2>2, <2>3 DEF CallOK, Ordered
<1> QED
    BY <1>1, <1>2, <1>3, <1>4, <1>5, <1>6, <1>7, <1>8, <1>9, <1>10, <1>11, <1>12
       DEF Choose, Try

(* Every step keeps the invariant. *)
LEMMA NextInv == PoolInv /\ [PoolNext]_poolVars => PoolInv'
<1> SUFFICES ASSUME PoolInv, [PoolNext]_poolVars PROVE PoolInv'
    OBVIOUS
<1>0. PoolTypeOK /\ \A t \in Threads : CallOK(t)
    BY DEF PoolInv
<1>1. PoolTypeOK'
    BY TypePreserved
<1>2. ASSUME NEW u \in Threads PROVE CallOK(u)'
  <2>1. CASE \E t \in Threads : Start(t) \/ Choose(t) \/ Try(t)
    BY <1>0, <2>1, CallKept, OthersKept
  <2>2. CASE UNCHANGED <<pc, idx, list, tried, by, result>>
    BY <1>0, <2>2, CallFrame
  <2> QED
    BY <2>1, <2>2 DEF PoolNext, Step, Tick, Flip, Cancel, poolVars
<1> QED
    BY <1>1, <1>2 DEF PoolInv

(* The invariant holds in every reachable state. *)
THEOREM Invariance == PoolSpec => []PoolInv
  BY InitInv, NextInv, PTL DEF PoolSpec

(* The health words, the counters (cut off at the retry limit) and the     *)
(* locals of tryOperation keep their types, for any number of adapters and *)
(* callers.                                                                *)
THEOREM TypeCorrect == PoolSpec => []PoolTypeOK
<1>1. PoolInv => PoolTypeOK
    BY DEF PoolInv
<1> QED
    BY <1>1, Invariance, PTL

(* tryOperation returns nil only for an operation that an adapter did.  *)
THEOREM OkIsServed == PoolSpec => []OkHasServer
<1>1. PoolInv => OkHasServer
    BY DEF PoolInv, CallOK, OkHasServer
<1> QED
    BY <1>1, Invariance, PTL

(* The adapters are asked in their order, none twice in a call. *)
THEOREM ListsOrdered == PoolSpec => []ListOrdered
<1>1. PoolInv => ListOrdered
    BY DEF PoolInv, CallOK, Ordered, ListOrdered
<1> QED
    BY <1>1, Invariance, PTL

-----------------------------------------------------------------------------
(* The abstract busy bit, and what a step of the pool does to it. *)
Busy == [t \in Threads |-> pc[t] # "idle"]

LEMMA BusySet ==
    ASSUME PoolTypeOK, NEW t \in Threads, NEW label, Goto(t, label)
    PROVE  Busy' = [Busy EXCEPT ![t] = (label # "idle")]
<1>1. \A u \in Threads : pc'[u] = IF u = t THEN label ELSE pc[u]
    BY DEF PoolTypeOK, Goto
<1>2. Busy' = [u \in Threads |-> IF u = t THEN label # "idle" ELSE pc[u] # "idle"]
    BY <1>1, Zenon DEF Busy
<1>3. [Busy EXCEPT ![t] = (label # "idle")]
          = [u \in Threads |-> IF u = t THEN label # "idle" ELSE pc[u] # "idle"]
    BY Zenon DEF Busy
<1> QED
    BY <1>2, <1>3

(* A step inside a call leaves the bit alone. *)
LEMMA BusyKept ==
    ASSUME PoolTypeOK, NEW t \in Threads, NEW label, Goto(t, label),
           pc[t] # "idle", label # "idle"
    PROVE  Busy' = Busy
<1>1. \A u \in Threads : (pc'[u] # "idle") = (pc[u] # "idle")
    BY DEF PoolTypeOK, Goto
<1> QED
    BY <1>1, Zenon DEF Busy

(* Each step of the pool is a step of Failover, or changes nothing of it.  *)
LEMMA StepImplements ==
    PoolInv /\ [PoolNext]_poolVars => [Promise!FailoverNext]_(Promise!failoverVars)
<1> SUFFICES ASSUME PoolInv, [PoolNext]_poolVars
             PROVE  Promise!FailoverNext \/ UNCHANGED Promise!failoverVars
    OBVIOUS
<1>0. PoolTypeOK /\ \A t \in Threads : CallOK(t)
    BY DEF PoolInv
<1>1. ASSUME UNCHANGED <<pc, tried, by, result>> PROVE UNCHANGED Promise!failoverVars
    BY <1>1 DEF Promise!failoverVars
<1>2. ASSUME NEW t \in Threads, NEW label, Goto(t, label), pc[t] # "idle", label # "idle",
             UNCHANGED <<tried, by, result>>
      PROVE  UNCHANGED Promise!failoverVars
  <2>1. Busy' = Busy
    BY <1>0, <1>2, BusyKept
  <2> QED
    BY <1>2, <2>1 DEF Busy, Promise!failoverVars
<1>3. ASSUME NEW t \in Threads, Start(t) PROVE Promise!Begin(t)
  <2>1. Busy' = [Busy EXCEPT ![t] = TRUE]
    <3>1. Goto(t, "healthy")
        BY <1>3 DEF Start
    <3>2. Busy' = [Busy EXCEPT ![t] = ("healthy" # "idle")]
        BY <1>0, <3>1, BusySet
    <3>3. ("healthy" # "idle") = TRUE
        OBVIOUS
    <3> QED
        BY <3>2, <3>3
  <2>2. ~Busy[t]
    BY <1>3 DEF Start, Busy
  <2> QED
    BY <1>3, <2>1, <2>2 DEF Start, Busy, Promise!Begin
<1>4. ASSUME NEW t \in Threads, NEW take \in BOOLEAN, Consider(t, take), pc[t] # "idle"
      PROVE  UNCHANGED Promise!failoverVars
    BY <1>2, <1>4 DEF Consider
<1>5. ASSUME NEW t \in Threads, Choose(t) PROVE UNCHANGED Promise!failoverVars
  <2>1. CASE CheckHealthy(t)
    BY <1>2, <1>4, <2>1 DEF CheckHealthy
  <2>2. CASE CheckCount(t)
    BY <1>2, <1>4, <2>2 DEF CheckCount
  <2>3. CASE CheckSince(t)
    <3>1. (age[idx[t]] > fc[t]) \in BOOLEAN
        OBVIOUS
    <3> QED
        BY <1>4, <2>3, <3>1 DEF CheckSince
  <2> QED
    BY <1>5, <2>1, <2>2, <2>3 DEF Choose
<1>6. ASSUME NEW t \in Threads, NEW res, Return(t, res), pc[t] # "idle",
             res \in Promise!Outcomes(t), UNCHANGED <<tried, by>>
      PROVE  Promise!Returns(t)
  <2>1. Busy' = [Busy EXCEPT ![t] = FALSE]
    BY <1>0, <1>6, BusySet DEF Return
  <2>2. Busy[t]
    BY <1>6 DEF Busy
  <2> QED
    BY <1>6, <2>1, <2>2 DEF Return, Busy, Promise!Returns
<1>7. ASSUME NEW t \in Threads, pc[t] \in {"op", "failed3"}
      PROVE  Head(list[t]) \in Adapters /\ Promise!Due(t, Head(list[t]))
  <2>1. list[t] \in Seq(Adapters) /\ list[t] # << >> /\ by[t] = 0 /\ Ordered(t)
    BY <1>0, <1>7 DEF PoolTypeOK, CallOK, Asking
  <2>2. Head(list[t]) \in Adapters /\ Head(list[t]) = list[t][1] /\ 1 \in DOMAIN list[t]
    BY <2>1, ListFacts
  <2>3. \A b \in tried[t] : b < Head(list[t])
    BY <2>1, <2>2 DEF Ordered
  <2> QED
    BY <1>7, <2>1, <2>2, <2>3 DEF Promise!Due
<1>8. ASSUME NEW t \in Threads, TryNext(t)
      PROVE  Promise!Returns(t) \/ UNCHANGED Promise!failoverVars
  <2>1. CASE Return(t, "cancelled")
    <3>1. by[t] = 0
        BY <1>0, <1>8 DEF TryNext, CallOK
    <3> QED
        BY <1>6, <1>8, <2>1, <3>1 DEF TryNext, Promise!Outcomes
  <2>2. CASE ~Return(t, "cancelled")
    BY <1>2, <1>8, <2>2 DEF TryNext
  <2> QED
    BY <2>1, <2>2
<1>9. ASSUME NEW t \in Threads, TryOK(t) PROVE Promise!Succeeds(t, Head(list[t]))
  <2>1. Busy' = Busy
    BY <1>0, <1>9, BusyKept DEF TryOK
  <2> QED
    BY <1>7, <1>9, <2>1 DEF TryOK, Busy, Promise!Succeeds
<1>10. ASSUME NEW t \in Threads, TryEnd(t) PROVE Promise!Returns(t)
  <2>1. by[t] = 0 /\ tried[t] # {}
    BY <1>0, <1>10 DEF TryEnd, CallOK
  <2>2. "err" \in Promise!Outcomes(t)
    BY <2>1 DEF Promise!Outcomes
  <2> QED
    BY <1>6, <1>10, <2>1, <2>2 DEF TryEnd
<1>11. ASSUME NEW t \in Threads,
              TryFail(t) \/ MarkFailed1(t) \/ MarkFailed2(t) \/ MarkHealthy1(t)
       PROVE  UNCHANGED Promise!failoverVars
    BY <1>2, <1>11 DEF TryFail, MarkFailed1, MarkFailed2, MarkHealthy1
<1>12. ASSUME NEW t \in Threads, MarkFailed3(t) PROVE Promise!Fails(t, Head(list[t]))
  <2>1. Busy' = Busy
    BY <1>0, <1>12, BusyKept DEF MarkFailed3
  <2> QED
    BY <1>7, <1>12, <2>1 DEF MarkFailed3, Busy, Promise!Fails
<1>13. ASSUME NEW t \in Threads, MarkHealthy2(t) PROVE Promise!Returns(t)
  <2>1. by[t] # 0
    <3>1. list[t] \in Seq(Adapters) /\ list[t] # << >> /\ by[t] = Head(list[t])
        BY <1>0, <1>13 DEF MarkHealthy2, PoolTypeOK, CallOK, Done
    <3> QED
        BY <3>1, ListFacts, AdapterFacts
  <2>2. "ok" \in Promise!Outcomes(t)
    BY <2>1 DEF Promise!Outcomes
  <2> QED
    BY <1>6, <1>13, <2>2 DEF MarkHealthy2
<1>14. CASE UNCHANGED <<pc, tried, by, result>>
    BY <1>1, <1>14
<1>15. ASSUME NEW t \in Threads, Start(t) \/ Choose(t) \/ Try(t)
       PROVE  Promise!FailoverNext \/ UNCHANGED Promise!failoverVars
  <2>1. CASE \/ Promise!Begin(t) \/ Promise!Returns(t)
             \/ Promise!Succeeds(t, Head(list[t])) /\ Head(list[t]) \in Adapters
             \/ Promise!Fails(t, Head(list[t])) /\ Head(list[t]) \in Adapters
    BY <2>1 DEF Promise!FailoverNext, Promise!Adapters, Adapters
  <2>2. TryOK(t) \/ MarkFailed3(t) => Head(list[t]) \in Adapters
    BY <1>7 DEF TryOK, MarkFailed3
  <2> QED
    BY <1>3, <1>5, <1>8, <1>9, <1>10, <1>11, <1>12, <1>13, <1>15, <2>1, <2>2 DEF Try
<1> QED
    BY <1>14, <1>15 DEF PoolNext, Step, Tick, Flip, Cancel, poolVars

(* tryOperation, with racing updates of the health words, a last resort    *)
(* and cancellation, keeps the promise that Inode.Read relies on: the      *)
(* adapters are asked in their order, none twice, until one answers.       *)
THEOREM ImplementsFailover == PoolSpec => KeepsFailover
<1>1. PoolInit => Promise!FailoverInit
    BY DEF PoolInit, Promise!FailoverInit
<1> QED
    BY <1>1, StepImplements, Invariance, PTL DEF PoolSpec, KeepsFailover, Promise!FailoverSpec
=============================================================================
