---------------------------- MODULE AdapterPool ----------------------------
(***************************************************************************)
(* The adapters of one inode and tryOperation's failover over them         *)
(* (filesystem/inode.go).                                                  *)
(*                                                                         *)
(* tryOperation holds the pool's lock for reading only, so operations run  *)
(* side by side; isHealthy, failCount and lastAttempt are separate words   *)
(* that markFailed and markHealthy write, and shouldRetry reads, one after *)
(* the other.  Each such access is a step.                                 *)
(*                                                                         *)
(* Time: age[a] is the time since lastAttempt, rounded up to seconds and   *)
(* cut off at maxRetries; time.Since(lastAttempt) > failCount s is         *)
(* age[a] > failCount for every failCount below maxRetries, the only ones  *)
(* that get that far.  failCount is cut off there too.  The ages of two    *)
(* adapters grow independently, which allows more than one clock would.    *)
(***************************************************************************)
EXTENDS Naturals, Sequences

CONSTANTS
    NumAdapters,   \* adapter 1 is the primary, the others are backups
    MaxRetries,    \* defaultMaxRetries
    Threads        \* goroutines that read the file or refresh its metadata

ASSUME PoolConstants == NumAdapters \in Nat \ {0} /\ MaxRetries \in Nat \ {0}

Adapters == 1 .. NumAdapters
Primary  == 1

VARIABLES
    isHealthy, failCount, age,  \* inodeAdapter's fields
    up,        \* external: whether the source behind the adapter answers
    ctxDone,   \* ctxDone[t]: the caller's context is cancelled
    pc,        \* pc[t]: the next step of tryOperation
    idx,       \* idx[t]: the adapter being considered for the list
    fc,        \* fc[t]: shouldRetry's failCount
    list,      \* list[t]: the adapters still to try
    tried,     \* tried[t]: the adapters tried, all of which failed
    by,        \* by[t]: the adapter that did the operation; 0 for none
    result     \* result[t]: what tryOperation returned

health   == <<isHealthy, failCount, age>>
poolVars == <<isHealthy, failCount, age, up, ctxDone, pc, idx, fc, list, tried, by, result>>

Labels == {"idle", "healthy", "retry", "count", "since", "loop", "op",
           "failed1", "failed2", "failed3", "ok1", "ok2"}

PoolTypeOK ==
    /\ isHealthy \in [Adapters -> BOOLEAN]
    /\ failCount \in [Adapters -> 0 .. MaxRetries]
    /\ age \in [Adapters -> 0 .. MaxRetries]
    /\ up \in [Adapters -> BOOLEAN]
    /\ ctxDone \in [Threads -> BOOLEAN]
    /\ pc \in [Threads -> Labels]
    /\ idx \in [Threads -> Adapters]
    /\ fc \in [Threads -> 0 .. MaxRetries]
    /\ list \in [Threads -> Seq(Adapters)]
    /\ tried \in [Threads -> SUBSET Adapters]
    /\ by \in [Threads -> Adapters \cup {0}]
    /\ result \in [Threads -> {"none", "ok", "err", "cancelled"}]

(* newAdapterPool: all healthy, lastAttempt the zero time. *)
PoolInit ==
    /\ isHealthy = [a \in Adapters |-> TRUE]
    /\ failCount = [a \in Adapters |-> 0]
    /\ age = [a \in Adapters |-> MaxRetries]
    /\ up \in [Adapters -> BOOLEAN]
    /\ ctxDone = [t \in Threads |-> FALSE]
    /\ pc = [t \in Threads |-> "idle"]
    /\ idx = [t \in Threads |-> Primary]
    /\ fc = [t \in Threads |-> 0]
    /\ list = [t \in Threads |-> << >>]
    /\ tried = [t \in Threads |-> {}]
    /\ by = [t \in Threads |-> 0]
    /\ result = [t \in Threads |-> "none"]

-----------------------------------------------------------------------------
(* External: time passes; a source goes down or comes back; a caller's     *)
(* context is cancelled.                                                   *)

Tick(a) ==
    /\ age[a] < MaxRetries
    /\ age' = [age EXCEPT ![a] = @ + 1]
    /\ UNCHANGED <<isHealthy, failCount, up, ctxDone, pc, idx, fc, list, tried, by, result>>

Flip(a) ==
    /\ up' = [up EXCEPT ![a] = ~@]
    /\ UNCHANGED <<health, ctxDone, pc, idx, fc, list, tried, by, result>>

Cancel(t) ==
    /\ pc[t] # "idle" /\ ~ctxDone[t]
    /\ ctxDone' = [ctxDone EXCEPT ![t] = TRUE]
    /\ UNCHANGED <<health, up, pc, idx, fc, list, tried, by, result>>

-----------------------------------------------------------------------------
Goto(t, label) == pc' = [pc EXCEPT ![t] = label]

(* A caller enters tryOperation. *)
Start(t) ==
    /\ pc[t] = "idle"
    /\ Goto(t, "healthy")
    /\ idx' = [idx EXCEPT ![t] = Primary]
    /\ tried' = [tried EXCEPT ![t] = {}]
    /\ by' = [by EXCEPT ![t] = 0]
    /\ result' = [result EXCEPT ![t] = "none"]
    /\ ctxDone' = [ctxDone EXCEPT ![t] = FALSE]
    /\ UNCHANGED <<health, up, fc, list>>

(* Mutant: no last resort. *)
LastResortNone(l) == l

(* Mutant: the primary is always tried once more at the end. *)
LastResortAlways(l) == Append(l, Primary)

(* "If no healthy adapters, try primary anyway as last resort". *)
LastResort(l) == IF l = << >> THEN <<Primary>> ELSE l

(* Mutant: the loop over the backups does not stop at the last one. *)
ConsiderPast(t, take) ==
    /\ fc' = [fc EXCEPT ![t] = 0]
    /\ idx' = [idx EXCEPT ![t] = @ + 1]
    /\ list' = [list EXCEPT ![t] = IF take THEN Append(@, idx[t]) ELSE @]
    /\ Goto(t, "healthy")
    /\ UNCHANGED <<health, up, ctxDone, tried, by, result>>

(* The adapter idx[t] is taken on the list, or is not; on to the next one. *)
Consider(t, take) ==
    LET l == IF take THEN Append(list[t], idx[t]) ELSE list[t]
    IN  /\ fc' = [fc EXCEPT ![t] = 0]
        /\ UNCHANGED <<health, up, ctxDone, tried, by, result>>
        /\ IF idx[t] < NumAdapters
             THEN /\ idx' = [idx EXCEPT ![t] = @ + 1]
                  /\ list' = [list EXCEPT ![t] = l]
                  /\ Goto(t, "healthy")
             ELSE /\ idx' = [idx EXCEPT ![t] = Primary]
                  /\ list' = [list EXCEPT ![t] = LastResort(l)]
                  /\ Goto(t, "loop")

(* isHealthy.Load(), in tryOperation and again in shouldRetry. *)
CheckHealthy(t) ==
    /\ pc[t] \in {"healthy", "retry"}
    /\ IF isHealthy[idx[t]]
         THEN Consider(t, TRUE)
         ELSE /\ Goto(t, IF pc[t] = "healthy" THEN "retry" ELSE "count")
              /\ UNCHANGED <<health, up, ctxDone, idx, fc, list, tried, by, result>>

(* shouldRetry: failCount >= maxRetries is final. *)
CheckCount(t) ==
    /\ pc[t] = "count"
    /\ IF failCount[idx[t]] >= MaxRetries
         THEN Consider(t, FALSE)
         ELSE /\ fc' = [fc EXCEPT ![t] = failCount[idx[t]]]
              /\ Goto(t, "since")
              /\ UNCHANGED <<health, up, ctxDone, idx, list, tried, by, result>>

(* shouldRetry: time.Since(lastAttempt) > failCount seconds. *)
CheckSince(t) ==
    /\ pc[t] = "since"
    /\ Consider(t, age[idx[t]] > fc[t])

-----------------------------------------------------------------------------
Return(t, res) ==
    /\ Goto(t, "idle")
    /\ list' = [list EXCEPT ![t] = << >>]
    /\ result' = [result EXCEPT ![t] = res]

(* The loop's head: the context is looked at before every adapter. *)
TryNext(t) ==
    /\ pc[t] = "loop" /\ list[t] # << >>
    /\ \/ /\ ctxDone[t]
          /\ Return(t, "cancelled")
       \/ /\ ~ctxDone[t]
          /\ Goto(t, "op")
          /\ UNCHANGED <<list, result>>
    /\ UNCHANGED <<health, up, ctxDone, idx, fc, tried, by>>

(* The operation, under the caller's context: it may still succeed after   *)
(* a cancellation.                                                         *)
TryOK(t) ==
    /\ pc[t] = "op" /\ up[Head(list[t])]
    /\ by' = [by EXCEPT ![t] = Head(list[t])]
    /\ Goto(t, "ok1")
    /\ UNCHANGED <<health, up, ctxDone, idx, fc, list, tried, result>>

TryFail(t) ==
    /\ pc[t] = "op" /\ (ctxDone[t] \/ ~up[Head(list[t])])
    /\ Goto(t, "failed1")
    /\ UNCHANGED <<health, up, ctxDone, idx, fc, list, tried, by, result>>

(* The end of the list: lastErr, which is nil if nothing was tried. *)
TryEnd(t) ==
    /\ pc[t] = "loop" /\ list[t] = << >>
    /\ Return(t, IF tried[t] = {} THEN "ok" ELSE "err")
    /\ UNCHANGED <<health, up, ctxDone, idx, fc, tried, by>>

(* markFailed: isHealthy = false; failCount + 1; lastAttempt = now. *)
MarkFailed1(t) ==
    /\ pc[t] = "failed1"
    /\ isHealthy' = [isHealthy EXCEPT ![Head(list[t])] = FALSE]
    /\ Goto(t, "failed2")
    /\ UNCHANGED <<failCount, age, up, ctxDone, idx, fc, list, tried, by, result>>

MarkFailed2(t) ==
    /\ pc[t] = "failed2"
    /\ failCount' = [failCount EXCEPT ![Head(list[t])] = IF @ < MaxRetries THEN @ + 1 ELSE @]
    /\ Goto(t, "failed3")
    /\ UNCHANGED <<isHealthy, age, up, ctxDone, idx, fc, list, tried, by, result>>

MarkFailed3(t) ==
    /\ pc[t] = "failed3"
    /\ age' = [age EXCEPT ![Head(list[t])] = 0]
    /\ tried' = [tried EXCEPT ![t] = @ \cup {Head(list[t])}]
    /\ list' = [list EXCEPT ![t] = Tail(@)]
    /\ Goto(t, "loop")
    /\ UNCHANGED <<isHealthy, failCount, up, ctxDone, idx, fc, by, result>>

(* markHealthy: isHealthy = true; failCount = 0.  lastAttempt stays. *)
MarkHealthy1(t) ==
    /\ pc[t] = "ok1"
    /\ isHealthy' = [isHealthy EXCEPT ![Head(list[t])] = TRUE]
    /\ Goto(t, "ok2")
    /\ UNCHANGED <<failCount, age, up, ctxDone, idx, fc, list, tried, by, result>>

MarkHealthy2(t) ==
    /\ pc[t] = "ok2"
    /\ failCount' = [failCount EXCEPT ![Head(list[t])] = 0]
    /\ Return(t, "ok")
    /\ UNCHANGED <<isHealthy, age, up, ctxDone, idx, fc, tried, by>>

-----------------------------------------------------------------------------
Choose(t) == CheckHealthy(t) \/ CheckCount(t) \/ CheckSince(t)

Try(t) ==
    \/ TryNext(t) \/ TryOK(t) \/ TryFail(t) \/ TryEnd(t)
    \/ MarkFailed1(t) \/ MarkFailed2(t) \/ MarkFailed3(t)
    \/ MarkHealthy1(t) \/ MarkHealthy2(t)

Step ==
    \/ \E a \in Adapters : Tick(a) \/ Flip(a)
    \/ \E t \in Threads : Start(t) \/ Choose(t) \/ Try(t)

PoolNext == Step \/ \E t \in Threads : Cancel(t)

PoolSpec == PoolInit /\ [][PoolNext]_poolVars

(* Goroutines in tryOperation run (it waits for nobody: pool.mu is only    *)
(* ever read-locked), time passes, and the file goes on being read.        *)
(* Nothing is assumed of the sources.  No caller cancels: FuseRaw.Read and *)
(* RefreshMeta pass context.Background().                                  *)
FairPoolSpec ==
    /\ PoolInit /\ [][Step]_poolVars
    /\ \A t \in Threads : WF_poolVars(Start(t) \/ Choose(t) \/ Try(t))
    /\ \A a \in Adapters : WF_poolVars(Tick(a))

-----------------------------------------------------------------------------
(* tryOperation returns nil only for an operation some adapter did, and    *)
(* that adapter is not one that failed before in the same call: whatever   *)
(* the health words say, the list it works through is never empty, so that *)
(* a nil lastErr cannot leak out with the data of a failed attempt.        *)
OkHasServer ==
    \A t \in Threads : result[t] = "ok" => by[t] \in Adapters \ tried[t]

(* The list is in order of preference and lies wholly behind the adapters  *)
(* that this call has tried: one call asks each source at most once.       *)
ListOrdered ==
    \A t \in Threads :
        /\ \A i, j \in DOMAIN list[t] : i < j => list[t][i] < list[t][j]
        /\ \A i \in DOMAIN list[t], b \in tried[t] : b < list[t][i]

(* What callers rely on, with busy[t] for "t is inside tryOperation". *)
Promise == INSTANCE Failover WITH busy <- [t \in Threads |-> pc[t] # "idle"]

(* Whatever the health words do in the meantime, each call of tryOperation *)
(* asks the adapters in their order, none twice, stops at the first that   *)
(* answers and returns an error only when it has asked at least one.       *)
KeepsFailover == Promise!FailoverSpec

Served == \E t \in Threads : result[t] = "ok" /\ by[t] # 0

(* A file whose primary source has come back is read again, however often  *)
(* and in whichever order its adapters failed before (the last resort of   *)
(* tryOperation).                                                          *)
PrimaryRecovery == <>[]up[Primary] => []<>Served

(* tryOperation "executes an operation with automatic failover to backup   *)
(* adapters" (filesystem/inode.go:210): a file with a source that has come *)
(* back is read again, be it a backup.                                     *)
BackupRecovery == \A a \in Adapters : <>[]up[a] => []<>Served
=============================================================================
