------------------------------ MODULE Failover ------------------------------
(***************************************************************************)
(* What adapterPool.tryOperation promises its callers (filesystem/inode.go)*)
(* and all that Inode.Read relies on: an operation is done on one adapter  *)
(* after the other, in their order, on none twice, until one succeeds.  An *)
(* error means that none did.  Which adapters are passed over, and when,   *)
(* is left open; AdapterPool is shown to implement this.                   *)
(***************************************************************************)
EXTENDS Naturals

CONSTANTS
    NumAdapters,   \* adapter 1 is the primary, the others are backups
    Threads        \* the goroutines that call tryOperation

Adapters == 1 .. NumAdapters

VARIABLES
    busy,     \* busy[t]: t is inside tryOperation
    tried,    \* tried[t]: the adapters its operation failed on
    by,       \* by[t]: the adapter its operation succeeded on; 0 for none
    result    \* result[t]: what its last tryOperation returned

failoverVars == <<busy, tried, by, result>>

FailoverTypeOK ==
    /\ busy \in [Threads -> BOOLEAN]
    /\ tried \in [Threads -> SUBSET Adapters]
    /\ by \in [Threads -> Adapters \cup {0}]
    /\ result \in [Threads -> {"none", "ok", "err", "cancelled"}]

FailoverInit ==
    /\ busy = [t \in Threads |-> FALSE]
    /\ tried = [t \in Threads |-> {}]
    /\ by = [t \in Threads |-> 0]
    /\ result = [t \in Threads |-> "none"]

Begin(t) ==
    /\ ~busy[t]
    /\ busy' = [busy EXCEPT ![t] = TRUE]
    /\ tried' = [tried EXCEPT ![t] = {}]
    /\ by' = [by EXCEPT ![t] = 0]
    /\ result' = [result EXCEPT ![t] = "none"]

(* a may be tried next. *)
Due(t, a) == busy[t] /\ by[t] = 0 /\ \A b \in tried[t] : b < a

Fails(t, a) ==
    /\ Due(t, a)
    /\ tried' = [tried EXCEPT ![t] = @ \cup {a}]
    /\ UNCHANGED <<busy, by, result>>

Succeeds(t, a) ==
    /\ Due(t, a)
    /\ by' = [by EXCEPT ![t] = a]
    /\ UNCHANGED <<busy, tried, result>>

(* The outcomes open to t: nil once an adapter has succeeded; else an      *)
(* error, if some adapter was tried, or the cancellation.                  *)
Outcomes(t) ==
    IF by[t] # 0 THEN {"ok"}
    ELSE {"cancelled"} \cup {r \in {"err"} : tried[t] # {}}

Returns(t) ==
    /\ busy[t]
    /\ busy' = [busy EXCEPT ![t] = FALSE]
    /\ \E r \in Outcomes(t) : result' = [result EXCEPT ![t] = r]
    /\ UNCHANGED <<tried, by>>

FailoverNext ==
    \E t \in Threads :
        \/ Begin(t) \/ Returns(t)
        \/ \E a \in Adapters : Fails(t, a) \/ Succeeds(t, a)

FailoverSpec == FailoverInit /\ [][FailoverNext]_failoverVars
=============================================================================
