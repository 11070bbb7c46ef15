----------------------------- MODULE SafeStorage -----------------------------
(***************************************************************************)
(* `Persister::set_storage_safe`: an optimistic read-modify-write over one *)
(* key of the plugin storage, run by any number of concurrent tasks.       *)
(*                                                                         *)
(* Each attempt reads the value, runs the caller's closure on a copy, and  *)
(* asks the storage to replace exactly the value it has read.  After       *)
(* MAX_SAFE_WRITE_RETRIES refusals the call gives up.                      *)
(*                                                                         *)
(* The storage's conditional write is taken here as `set_item_safe`        *)
(* documents it: it refuses with DataTooOld iff the stored value is no     *)
(* longer the old value it is given.  PluginStorage looks at the code      *)
(* below that call.                                                        *)
(***************************************************************************)
EXTENDS Naturals

CONSTANTS
  Tasks,           \* concurrent callers
  Data,            \* the values the key can hold, once deserialized
  Ops,             \* the closures (`set_data`), with their captured arguments
  Outcomes(_, _),  \* Outcomes(o, d): the answers of closure o given d, one per
                   \* value of what else it reads (the clock)
  Results,         \* what the closures answer
  EmptyData,       \* the deserialized "{}", used when the key is absent
  Absent,          \* the key is not in the storage
  None,            \* no operation, no result
  MAX_SAFE_WRITE_RETRIES,
  MaxCalls         \* bound: calls started in a behaviour

(* The errors `set_storage_safe` produces by itself.                       *)
Exhausted == [tag |-> "Maximum write attempts reached"]
StorageError == [tag |-> "Plugin storage operation failed"]
FailResults == {Exhausted, StorageError}

ASSUME ConstantsAssumption ==
  /\ MAX_SAFE_WRITE_RETRIES \in Nat \ {0}
  /\ MaxCalls \in Nat
  /\ EmptyData \in Data
  /\ Absent \notin Data
  /\ FailResults \cap (Results \cup {None}) = {}

(* A closure maps stored data to stored data.                              *)
ASSUME OutcomesAssumption ==
  \A o \in Ops : \A d \in Data :
    Outcomes(o, d) \subseteq [changed : BOOLEAN, data : Data, res : Results]

VARIABLES
  stored,   \* what the storage holds under the key
  pc,       \* pc[t]: where task t stands in set_storage_safe
  op,       \* op[t]: its closure
  attempt,  \* attempt[t]: refusals it has met
  old,      \* old[t]: the data its current attempt has read (`old_data`)
  new,      \* new[t]: the closure's answer to it (`new_data` and `result`)
  result,   \* result[t]: what the call returns
  calls,    \* calls started so far
  commits,  \* history: successful conditional writes so far
  since     \* history: since[t] is `commits` when t's call started

vars == <<stored, pc, op, attempt, old, new, result, calls, commits, since>>

(* `get_item(..).await?.unwrap_or("{}")`, deserialized.                    *)
Read(s) == IF s = Absent THEN EmptyData ELSE s

Init ==
  /\ stored = Absent
  /\ pc = [t \in Tasks |-> "idle"]
  /\ op = [t \in Tasks |-> None]
  /\ attempt = [t \in Tasks |-> 0]
  /\ old = [t \in Tasks |-> None]
  /\ new = [t \in Tasks |-> None]
  /\ result = [t \in Tasks |-> None]
  /\ calls = 0
  /\ commits = 0
  /\ since = [t \in Tasks |-> 0]

Finish(t, r) ==
  /\ pc' = [pc EXCEPT ![t] = "done"]
  /\ result' = [result EXCEPT ![t] = r]

Call(t) ==
  /\ pc[t] = "idle"
  /\ calls < MaxCalls
  /\ calls' = calls + 1
  /\ pc' = [pc EXCEPT ![t] = "get_data"]
  /\ \E o \in Ops : op' = [op EXCEPT ![t] = o]
  /\ attempt' = [attempt EXCEPT ![t] = 0]
  /\ since' = [since EXCEPT ![t] = commits]
  /\ UNCHANGED <<stored, old, new, result, commits>>

(* The read fails: get_item, decryption or deserialization.                *)
GetDataFails(t) ==
  /\ pc[t] = "get_data"
  /\ Finish(t, StorageError)
  /\ UNCHANGED <<stored, op, attempt, old, new, calls, commits, since>>

(* Mutant: an absent item is not replaced by the default it is read as.    *)
GetRawData(t) ==
  /\ pc[t] = "get_data"
  /\ \E out \in Outcomes(op[t], Read(stored)) :
       IF out.changed
       THEN /\ old' = [old EXCEPT ![t] = stored]
            /\ new' = [new EXCEPT ![t] = out]
            /\ pc' = [pc EXCEPT ![t] = "set_item_safe"]
            /\ UNCHANGED result
       ELSE Finish(t, out.res) /\ UNCHANGED <<old, new>>
  /\ UNCHANGED <<stored, op, attempt, calls, commits, since>>

(* Nothing is awaited between the read and the closure, so both are one    *)
(* step.  A closure that changes nothing, or that fails, ends the call.    *)
GetData(t) ==
  /\ pc[t] = "get_data"
  /\ \E out \in Outcomes(op[t], Read(stored)) :
       \/ /\ out.changed
          /\ old' = [old EXCEPT ![t] = Read(stored)]
          /\ new' = [new EXCEPT ![t] = out]
          /\ pc' = [pc EXCEPT ![t] = "set_item_safe"]
          /\ UNCHANGED result
       \/ /\ ~ out.changed
          /\ Finish(t, out.res)
          /\ UNCHANGED <<old, new>>
  /\ UNCHANGED <<stored, op, attempt, calls, commits, since>>

(* Mutant: the write is unconditional, as set_item is.                     *)
SetItem(t) ==
  /\ pc[t] = "set_item_safe"
  /\ stored' = new[t].data
  /\ commits' = commits + 1
  /\ Finish(t, new[t].res)
  /\ UNCHANGED <<op, attempt, old, new, calls, since>>

SetItemSafe(t) ==
  /\ pc[t] = "set_item_safe"
  /\ Read(stored) = old[t]
  /\ stored' = new[t].data
  /\ commits' = commits + 1
  /\ Finish(t, new[t].res)
  /\ UNCHANGED <<op, attempt, old, new, calls, since>>

Refused(t, limit) ==
  /\ attempt' = [attempt EXCEPT ![t] = @ + 1]
  /\ \/ /\ attempt'[t] < limit
        /\ pc' = [pc EXCEPT ![t] = "get_data"]
        /\ UNCHANGED result
     \/ /\ attempt'[t] = limit
        /\ Finish(t, Exhausted)
  /\ UNCHANGED <<stored, op, old, new, calls, commits, since>>

(* Mutant: one attempt too many.                                           *)
DataTooOldOnceMore(t) ==
  /\ pc[t] = "set_item_safe"
  /\ Read(stored) # old[t]
  /\ Refused(t, MAX_SAFE_WRITE_RETRIES + 1)

(* Mutant: a write of unchanged data may be refused too.                   *)
DataTooOldUnchanged(t) ==
  /\ pc[t] = "set_item_safe"
  /\ Refused(t, MAX_SAFE_WRITE_RETRIES)

(* DataTooOld: another attempt, unless it was the last of the loop.        *)
DataTooOld(t) ==
  /\ pc[t] = "set_item_safe"
  /\ Read(stored) # old[t]
  /\ Refused(t, MAX_SAFE_WRITE_RETRIES)

(* Any other error of the write, which then has not happened.              *)
SetItemSafeFails(t) ==
  /\ pc[t] = "set_item_safe"
  /\ Finish(t, StorageError)
  /\ UNCHANGED <<stored, op, attempt, old, new, calls, commits, since>>

(* The call returns; its locals go out of scope.                           *)
Return(t) ==
  /\ pc[t] = "done"
  /\ pc' = [pc EXCEPT ![t] = "idle"]
  /\ op' = [op EXCEPT ![t] = None]
  /\ old' = [old EXCEPT ![t] = None]
  /\ new' = [new EXCEPT ![t] = None]
  /\ result' = [result EXCEPT ![t] = None]
  /\ UNCHANGED <<stored, attempt, calls, commits, since>>

Step(t) ==
  \/ GetDataFails(t) \/ GetData(t)
  \/ SetItemSafe(t) \/ DataTooOld(t) \/ SetItemSafeFails(t)
  \/ Return(t)

Next == \E t \in Tasks : Call(t) \/ Step(t)

Spec == Init /\ [][Next]_vars

-----------------------------------------------------------------------------
Locations == {"idle", "get_data", "set_item_safe", "done"}

(* The types of the variables.                                             *)
TypeOK ==
  /\ stored \in Data \cup {Absent}
  /\ pc \in [Tasks -> Locations]
  /\ op \in [Tasks -> Ops \cup {None}]
  /\ attempt \in [Tasks -> 0 .. MAX_SAFE_WRITE_RETRIES]
  /\ old \in [Tasks -> Data \cup {None}]
  /\ new \in [Tasks -> [changed : BOOLEAN, data : Data, res : Results]
                         \cup {None}]
  /\ result \in [Tasks -> Results \cup FailResults \cup {None}]
  /\ calls \in Nat
  /\ commits \in Nat
  /\ since \in [Tasks -> Nat]

(* A call only gives up with "Maximum write attempts reached" when at      *)
(* least MAX_SAFE_WRITE_RETRIES other writes have been committed while it  *)
(* was running: the loop never refuses an operation out of its own         *)
(* interference, and contention by fewer writers cannot exhaust it.        *)
ExhaustionNeedsContention ==
  \A t \in Tasks :
    result[t] = Exhausted => commits >= since[t] + MAX_SAFE_WRITE_RETRIES

(* The strengthening of ExhaustionNeedsContention: every refusal so far,   *)
(* and the one that is due if the value read has been replaced, is paid    *)
(* for by a commit of someone else.  A task about to write holds the       *)
(* closure's answer to the very data it will ask to replace.               *)
RefusalsPaidFor ==
  \A t \in Tasks :
    /\ pc[t] \in {"get_data", "set_item_safe"} =>
         /\ commits >= since[t] + attempt[t]
         /\ attempt[t] < MAX_SAFE_WRITE_RETRIES
         /\ op[t] \in Ops
         /\ result[t] = None
    /\ pc[t] = "set_item_safe" =>
         /\ old[t] \in Data
         /\ new[t] \in Outcomes(op[t], old[t])
         /\ new[t].changed
         /\ Read(stored) # old[t] => commits > since[t] + attempt[t]
    /\ pc[t] = "idle" => result[t] = None /\ op[t] = None

(* The abstract cell this module implements: a call takes effect at its    *)
(* successful conditional write, or at the read of an attempt that has     *)
(* nothing to write.                                                       *)
Phase ==
  [t \in Tasks |->
     IF pc[t] \in {"get_data", "set_item_safe"} THEN "pending" ELSE pc[t]]

Cell == INSTANCE AtomicStore WITH
          data <- Read(stored), phase <- Phase, op <- op, result <- result

(* Whatever the interleaving of reads and conditional writes, callers of   *)
(* set_storage_safe cannot tell it from an atomic cell: no update is lost, *)
(* none is applied twice, none is applied to data its closure did not see, *)
(* and a call that returns an error of the storage has changed nothing.    *)
ImplementsCell == Cell!Spec
=============================================================================
