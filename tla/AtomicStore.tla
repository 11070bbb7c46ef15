----------------------------- MODULE AtomicStore -----------------------------
(***************************************************************************)
(* What `Persister::set_storage_safe` promises its callers: the value kept *)
(* under a storage key behaves as one shared cell to which every           *)
(* read-modify-write operation is applied in a single indivisible step,    *)
(* or not at all.                                                          *)
(*                                                                         *)
(* SafeStorage describes the code that keeps this promise with optimistic  *)
(* reads and conditional writes.                                           *)
(***************************************************************************)

CONSTANTS
  Tasks,           \* concurrent callers of the persister
  Ops,             \* the closures they pass as `set_data`
  Outcomes(_, _),  \* Outcomes(o, d): what closure o may answer when given d
  EmptyData,       \* the value read when nothing has been stored yet
  FailResults,     \* the errors of an operation that was not applied
  None             \* no operation, no result

VARIABLES
  data,    \* the contents of the cell
  phase,   \* phase[t]: "idle", "pending" or "done"
  op,      \* op[t]: the operation t has invoked
  result   \* result[t]: its answer, once it is done

vars == <<data, phase, op, result>>

Init ==
  /\ data = EmptyData
  /\ phase = [t \in Tasks |-> "idle"]
  /\ op = [t \in Tasks |-> None]
  /\ result = [t \in Tasks |-> None]

Invoke(t) ==
  /\ phase[t] = "idle"
  /\ phase' = [phase EXCEPT ![t] = "pending"]
  /\ \E o \in Ops : op' = [op EXCEPT ![t] = o]
  /\ UNCHANGED <<data, result>>

(* The operation sees the current contents, and its effect and its answer  *)
(* are those the closure computes from them.                               *)
Commit(t) ==
  /\ phase[t] = "pending"
  /\ \E out \in Outcomes(op[t], data) :
       /\ data' = IF out.changed THEN out.data ELSE data
       /\ result' = [result EXCEPT ![t] = out.res]
  /\ phase' = [phase EXCEPT ![t] = "done"]
  /\ UNCHANGED op

(* An operation that fails leaves no trace.                                *)
Fail(t) ==
  /\ phase[t] = "pending"
  /\ \E e \in FailResults : result' = [result EXCEPT ![t] = e]
  /\ phase' = [phase EXCEPT ![t] = "done"]
  /\ UNCHANGED <<data, op>>

Return(t) ==
  /\ phase[t] = "done"
  /\ phase' = [phase EXCEPT ![t] = "idle"]
  /\ op' = [op EXCEPT ![t] = None]
  /\ result' = [result EXCEPT ![t] = None]
  /\ UNCHANGED data

Next == \E t \in Tasks : Invoke(t) \/ Commit(t) \/ Fail(t) \/ Return(t)

Spec == Init /\ [][Next]_vars
=============================================================================
