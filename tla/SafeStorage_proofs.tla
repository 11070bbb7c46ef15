-------------------------- MODULE SafeStorage_proofs --------------------------
(***************************************************************************)
(* set_storage_safe implements an atomic cell, for any number of tasks,    *)
(* any closures and any data.                                              *)
(***************************************************************************)
EXTENDS SafeStorage, TLAPS

(* A task in an attempt has a closure, and one about to write has been     *)
(* answered by it: TypeOK alone does not say so, and is not inductive.     *)
IInv == TypeOK /\ RefusalsPaidFor /\ ExhaustionNeedsContention

LEMMA InitIInv == Init => IInv
  BY ConstantsAssumption
  DEF Init, IInv, TypeOK, RefusalsPaidFor, ExhaustionNeedsContention,
      Locations, FailResults

LEMMA ReadData == ASSUME TypeOK PROVE Read(stored) \in Data
  BY ConstantsAssumption DEF TypeOK, Read

LEMMA CallInv ==
  ASSUME IInv, NEW t \in Tasks, Call(t) PROVE IInv'
<1> USE DEF IInv, Call, Locations
<1>1. TypeOK'
  BY ConstantsAssumption DEF TypeOK
<1>2. RefusalsPaidFor'
  BY ConstantsAssumption DEF TypeOK, RefusalsPaidFor
<1>3. ExhaustionNeedsContention'
  BY ConstantsAssumption DEF TypeOK, RefusalsPaidFor, ExhaustionNeedsContention, FailResults
<1> QED
  BY <1>1, <1>2, <1>3

LEMMA FailsInv ==
  ASSUME IInv, NEW t \in Tasks, GetDataFails(t) \/ SetItemSafeFails(t)
  PROVE  IInv'
<1> USE DEF IInv, GetDataFails, SetItemSafeFails, Finish, Locations
<1>1. TypeOK'
  BY DEF TypeOK, FailResults
<1>2. RefusalsPaidFor'
  BY DEF TypeOK, RefusalsPaidFor
<1>3. ExhaustionNeedsContention'
  <2>1. StorageError # Exhausted
    BY DEF StorageError, Exhausted
  <2> QED
    BY <2>1 DEF TypeOK, ExhaustionNeedsContention
<1> QED
  BY <1>1, <1>2, <1>3

LEMMA GetDataInv ==
  ASSUME IInv, NEW t \in Tasks, GetData(t) PROVE IInv'
<1> DEFINE d == Read(stored)
<1>1. PICK out \in Outcomes(op[t], d) :
        \/ /\ out.changed
           /\ old' = [old EXCEPT ![t] = d]
           /\ new' = [new EXCEPT ![t] = out]
           /\ pc' = [pc EXCEPT ![t] = "set_item_safe"]
           /\ UNCHANGED result
        \/ /\ ~ out.changed
           /\ Finish(t, out.res)
           /\ UNCHANGED <<old, new>>
  BY DEF GetData
<1>2. /\ pc[t] = "get_data"
      /\ UNCHANGED <<stored, op, attempt, calls, commits, since>>
  BY DEF GetData
<1>3. d \in Data
  BY ReadData DEF IInv
<1>4. out \in [changed : BOOLEAN, data : Data, res : Results]
  BY <1>2, <1>3, OutcomesAssumption DEF IInv, RefusalsPaidFor
<1>5. out.res \in Results /\ out.res # Exhausted
  BY <1>4, ConstantsAssumption DEF FailResults
<1> HIDE DEF d
<1>6. CASE out.changed /\ pc' = [pc EXCEPT ![t] = "set_item_safe"]
  <2>1. TypeOK'
    BY <1>1, <1>2, <1>3, <1>4, <1>6 DEF IInv, TypeOK, Locations, Finish
  <2>2. Read(stored)' = d
    BY <1>2 DEF Read, d
  <2>3. RefusalsPaidFor'
    <3> SUFFICES ASSUME NEW u \in Tasks PROVE RefusalsPaidFor!(u)'
      BY DEF RefusalsPaidFor
    <3>1. CASE u = t
      BY <1>1, <1>2, <1>3, <1>4, <1>6, <2>2, <3>1
      DEF IInv, TypeOK, RefusalsPaidFor, Finish
    <3>2. CASE u # t
      BY <1>1, <1>2, <1>6, <3>2
      DEF IInv, TypeOK, RefusalsPaidFor, Finish, Read
    <3> QED
      BY <3>1, <3>2
  <2>4. ExhaustionNeedsContention'
    BY <1>1, <1>2, <1>6 DEF IInv, TypeOK, ExhaustionNeedsContention, Finish
  <2> QED
    BY <2>1, <2>3, <2>4 DEF IInv
<1>7. CASE ~ out.changed
  <2>1. TypeOK'
    BY <1>1, <1>2, <1>5, <1>7 DEF IInv, TypeOK, Locations, Finish
  <2>2. RefusalsPaidFor'
    BY <1>1, <1>2, <1>7 DEF IInv, TypeOK, RefusalsPaidFor, Finish, Read
  <2>3. ExhaustionNeedsContention'
    BY <1>1, <1>2, <1>5, <1>7 DEF IInv, TypeOK, ExhaustionNeedsContention, Finish
  <2> QED
    BY <2>1, <2>2, <2>3 DEF IInv
<1> QED
  BY <1>1, <1>6, <1>7

LEMMA SetItemSafeInv ==
  ASSUME IInv, NEW t \in Tasks, SetItemSafe(t) PROVE IInv'
<1>1. /\ new[t] \in [changed : BOOLEAN, data : Data, res : Results]
      /\ new[t].res # Exhausted
  BY OutcomesAssumption, ConstantsAssumption
  DEF IInv, RefusalsPaidFor, SetItemSafe, FailResults
<1>2. TypeOK'
  BY <1>1 DEF IInv, TypeOK, SetItemSafe, Finish, Locations
<1>3. RefusalsPaidFor'
  BY DEF IInv, TypeOK, RefusalsPaidFor, SetItemSafe, Finish
<1>4. ExhaustionNeedsContention'
  BY <1>1, ConstantsAssumption
  DEF IInv, TypeOK, ExhaustionNeedsContention, SetItemSafe, Finish
<1> QED
  BY <1>2, <1>3, <1>4 DEF IInv

LEMMA DataTooOldInv ==
  ASSUME IInv, NEW t \in Tasks, DataTooOld(t) PROVE IInv'
<1>1. TypeOK'
  BY ConstantsAssumption
  DEF IInv, TypeOK, RefusalsPaidFor, DataTooOld, Refused, Finish, Locations,
      FailResults
<1>2. RefusalsPaidFor'
  BY ConstantsAssumption
  DEF IInv, TypeOK, RefusalsPaidFor, DataTooOld, Refused, Finish, Read
<1>3. ExhaustionNeedsContention'
  BY ConstantsAssumption
  DEF IInv, TypeOK, RefusalsPaidFor, ExhaustionNeedsContention, DataTooOld,
      Refused, Finish
<1> QED
  BY <1>1, <1>2, <1>3 DEF IInv

LEMMA ReturnInv ==
  ASSUME IInv, NEW t \in Tasks, Return(t) PROVE IInv'
<1> USE DEF IInv, Return, Locations
<1>1. TypeOK'
  BY DEF TypeOK
<1>2. RefusalsPaidFor'
  BY DEF TypeOK, RefusalsPaidFor, Read
<1>3. ExhaustionNeedsContention'
  BY ConstantsAssumption DEF TypeOK, ExhaustionNeedsContention, FailResults
<1> QED
  BY <1>1, <1>2, <1>3

LEMMA NextIInv == IInv /\ [Next]_vars => IInv'
<1> SUFFICES ASSUME IInv, [Next]_vars PROVE IInv'
  OBVIOUS
<1>1. CASE Next
  BY <1>1, CallInv, FailsInv, GetDataInv, SetItemSafeInv, DataTooOldInv,
     ReturnInv DEF Next, Step
<1>2. CASE UNCHANGED vars
  BY <1>2
  DEF vars, IInv, TypeOK, RefusalsPaidFor, ExhaustionNeedsContention, Read
<1> QED
  BY <1>1, <1>2

LEMMA SpecIInv == Spec => []IInv
  BY InitIInv, NextIInv, PTL DEF Spec

(* The variables keep their types.                                         *)
THEOREM TypeCorrect == Spec => []TypeOK
  BY SpecIInv, PTL DEF IInv

(* Each refusal is paid for by a commit of somebody else's.                *)
THEOREM RefusalsArePaidFor == Spec => []RefusalsPaidFor
  BY SpecIInv, PTL DEF IInv

(* set_storage_safe only gives up after as many foreign commits as it has  *)
(* attempts.                                                               *)
THEOREM GivesUpOnlyUnderContention == Spec => []ExhaustionNeedsContention
  BY SpecIInv, PTL DEF IInv

-----------------------------------------------------------------------------
(* The mapping of each step to a step, or a stutter, of the abstract cell. *)

LEMMA PhaseExcept ==
  ASSUME TypeOK, NEW t \in Tasks, NEW l,
         pc' = [pc EXCEPT ![t] = l]
  PROVE  Phase' = [Phase EXCEPT ![t] =
                     IF l \in {"get_data", "set_item_safe"} THEN "pending"
                     ELSE l]
  BY DEF TypeOK, Phase

LEMMA InitCell == Init => Cell!Init
  BY ConstantsAssumption DEF Init, Cell!Init, Read, Phase

LEMMA GetDataCell ==
  ASSUME IInv, NEW t \in Tasks, GetData(t)
  PROVE  Cell!Commit(t) \/ UNCHANGED Cell!vars
<1>1. PICK out \in Outcomes(op[t], Read(stored)) :
        \/ /\ out.changed
           /\ pc' = [pc EXCEPT ![t] = "set_item_safe"]
           /\ UNCHANGED result
        \/ /\ ~ out.changed
           /\ Finish(t, out.res)
  BY DEF GetData
<1>2. /\ pc[t] = "get_data"
      /\ Read(stored)' = Read(stored)
      /\ op' = op
  BY DEF GetData, Read
<1>3. Phase[t] = "pending"
  BY <1>2 DEF Phase
<1>4. CASE out.changed /\ pc' = [pc EXCEPT ![t] = "set_item_safe"]
  <2>1. Phase' = Phase
    BY <1>2, <1>4 DEF IInv, TypeOK, Phase
  <2> QED
    BY <1>1, <1>2, <1>4, <2>1 DEF Cell!vars, Finish
<1>5. CASE ~ out.changed
  <2>1. Phase' = [Phase EXCEPT ![t] = "done"]
    BY <1>1, <1>5, PhaseExcept DEF Finish, IInv
  <2> QED
    BY <1>1, <1>2, <1>3, <1>5, <2>1 DEF Cell!Commit, Finish
<1> QED
  BY <1>1, <1>4, <1>5

LEMMA SetItemSafeCell ==
  ASSUME IInv, NEW t \in Tasks, SetItemSafe(t) PROVE Cell!Commit(t)
<1>1. /\ new[t] \in Outcomes(op[t], Read(stored))
      /\ new[t].changed
      /\ new[t].data \in Data
  BY OutcomesAssumption DEF SetItemSafe, IInv, RefusalsPaidFor
<1>2. Read(stored)' = new[t].data
  BY <1>1, ConstantsAssumption DEF SetItemSafe, Read
<1>3. Phase[t] = "pending" /\ Phase' = [Phase EXCEPT ![t] = "done"]
  BY PhaseExcept DEF SetItemSafe, Finish, Phase, IInv
<1> QED
  BY <1>1, <1>2, <1>3 DEF SetItemSafe, Finish, Cell!Commit

LEMMA DataTooOldCell ==
  ASSUME IInv, NEW t \in Tasks, DataTooOld(t)
  PROVE  Cell!Fail(t) \/ UNCHANGED Cell!vars
<1>1. Phase[t] = "pending" /\ Read(stored)' = Read(stored) /\ op' = op
  BY DEF DataTooOld, Refused, Phase, Read
<1>2. CASE pc' = [pc EXCEPT ![t] = "get_data"] /\ UNCHANGED result
  <2>1. Phase' = Phase
    BY <1>2 DEF DataTooOld, Refused, IInv, TypeOK, Phase
  <2> QED
    BY <1>1, <1>2, <2>1 DEF Cell!vars
<1>3. CASE Finish(t, Exhausted)
  <2>1. Phase' = [Phase EXCEPT ![t] = "done"]
    BY <1>3, PhaseExcept DEF Finish, IInv
  <2> QED
    BY <1>1, <1>3, <2>1 DEF Finish, Cell!Fail, FailResults
<1> QED
  BY <1>2, <1>3 DEF DataTooOld, Refused

LEMMA FailsCell ==
  ASSUME IInv, NEW t \in Tasks, GetDataFails(t) \/ SetItemSafeFails(t)
  PROVE  Cell!Fail(t)
<1>1. /\ Phase[t] = "pending"
      /\ Read(stored)' = Read(stored) /\ op' = op
      /\ Finish(t, StorageError)
  BY DEF GetDataFails, SetItemSafeFails, Phase, Read
<1>2. Phase' = [Phase EXCEPT ![t] = "done"]
  BY <1>1, PhaseExcept DEF Finish, IInv
<1> QED
  BY <1>1, <1>2 DEF Finish, Cell!Fail, FailResults

LEMMA CallCell ==
  ASSUME IInv, NEW t \in Tasks, Call(t) PROVE Cell!Invoke(t)
<1>1. Phase[t] = "idle" /\ Phase' = [Phase EXCEPT ![t] = "pending"]
  BY PhaseExcept DEF Call, Phase, IInv
<1> QED
  BY <1>1 DEF Call, Cell!Invoke, Read

LEMMA ReturnCell ==
  ASSUME IInv, NEW t \in Tasks, Return(t) PROVE Cell!Return(t)
<1>1. Phase[t] = "done" /\ Phase' = [Phase EXCEPT ![t] = "idle"]
  BY PhaseExcept DEF Return, Phase, IInv
<1> QED
  BY <1>1 DEF Return, Cell!Return, Read

(* Seen by its callers, set_storage_safe is an atomic cell: updates are    *)
(* neither lost nor doubled, nor computed from data that was replaced.     *)
THEOREM SafeStorageImplementsCell == Spec => ImplementsCell
<1>1. IInv /\ [Next]_vars => [Cell!Next]_(Cell!vars)
  <2> SUFFICES ASSUME IInv, [Next]_vars PROVE [Cell!Next]_(Cell!vars)
    OBVIOUS
  <2>1. CASE Next
    BY <2>1, CallCell, FailsCell, GetDataCell, SetItemSafeCell,
       DataTooOldCell, ReturnCell DEF Next, Step, Cell!Next
  <2>2. CASE UNCHANGED vars
    BY <2>2 DEF vars, Cell!vars, Phase, Read
  <2> QED
    BY <2>1, <2>2
<1> QED
  BY <1>1, InitCell, SpecIInv, PTL DEF Spec, ImplementsCell, Cell!Spec
=============================================================================
