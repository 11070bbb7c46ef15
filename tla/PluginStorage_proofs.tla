------------------------ MODULE PluginStorage_proofs -------------------------
(***************************************************************************)
(* The encrypted storage implements a store of plaintexts, for any number  *)
(* of callers, keys and texts.                                             *)
(***************************************************************************)
EXTENDS PluginStorage, TLAPS

(* A request under way, and the ciphertexts made of its texts.             *)
Writing == {"set_item", "set_item_safe"}

SentInv ==
  \A t \in Tasks : pc[t] = "sent" =>
    /\ req[t] \in Requests
    /\ req[t].op \in Writing =>
         sent[t].value \in Ciphertexts /\ sent[t].value.text = req[t].value
    /\ req[t].op = "set_item_safe" =>
         sent[t].old \in Ciphertexts /\ sent[t].old.text = req[t].old

IInv == TypeOK /\ SentInv

LEMMA RequestFields ==
  ASSUME NEW r \in Requests
  PROVE  /\ r.key \in Keys
         /\ r.op \in {"get_item", "remove_item", "set_item", "set_item_safe"}
         /\ r.op \in Writing => r.value \in Texts
         /\ r.op \notin Writing => r.value = None
         /\ r.op = "set_item_safe" => r.old \in Texts
         /\ r.op # "set_item_safe" => r.old = None
  BY DEF Requests, Writing

LEMMA EncryptTypes ==
  ASSUME NEW x \in Texts, NEW n \in 1 .. MaxNonces
  PROVE  encrypt(x, n) \in Ciphertexts /\ encrypt(x, n).text = x
  BY DEF encrypt, Ciphertexts

LEMMA InitIInv == Init => IInv
  BY StorageAssumption DEF Init, IInv, TypeOK, SentInv, Nothing

LEMMA CallInv ==
  ASSUME IInv, NEW t \in Tasks, Call(t) PROVE IInv'
<1> USE StorageAssumption DEF IInv, TypeOK, SentInv
<1>1. PICK r \in Requests :
        /\ nonces + NoncesOf(r) <= MaxNonces
        /\ nonces' = nonces + NoncesOf(r)
        /\ req' = [req EXCEPT ![t] = r]
        /\ sent' = [sent EXCEPT ![t] = Encrypted(r, nonces)]
  BY DEF Call
<1>2. /\ pc' = [pc EXCEPT ![t] = "sent"]
      /\ UNCHANGED <<items, result>>
  BY DEF Call
<1>3. /\ r.op \in Writing =>
           r.value \in Texts /\ nonces + 1 \in 1 .. MaxNonces
      /\ r.op = "set_item_safe" =>
           r.old \in Texts /\ nonces + 2 \in 1 .. MaxNonces
      /\ nonces' \in 0 .. MaxNonces
  BY <1>1, RequestFields DEF NoncesOf, Writing
<1>4. /\ r.op \in Writing =>
           /\ Encrypted(r, nonces).value \in Ciphertexts
           /\ Encrypted(r, nonces).value.text = r.value
      /\ r.op \notin Writing => Encrypted(r, nonces).value = None
  BY <1>3, RequestFields, EncryptTypes DEF Encrypted
<1>5. /\ r.op = "set_item_safe" =>
           /\ Encrypted(r, nonces).old \in Ciphertexts
           /\ Encrypted(r, nonces).old.text = r.old
      /\ r.op # "set_item_safe" => Encrypted(r, nonces).old = None
  BY <1>3, RequestFields, EncryptTypes DEF Encrypted
<1>6. Encrypted(r, nonces) \in [value : Ciphertexts \cup {None},
                                old : Ciphertexts \cup {None}]
  BY <1>4, <1>5 DEF Encrypted
<1>7. TypeOK'
  BY <1>1, <1>2, <1>3, <1>6
<1>8. SentInv'
  BY <1>1, <1>2, <1>4, <1>5
<1> QED
  BY <1>7, <1>8

Answers == {Ok, DataTooOld, Generic, None}
             \cup [tag : {"Ok"}, item : Texts \cup {Absent}]

(* Every step of the controller ends a request, and may write an item.     *)
LEMMA FinishInv ==
  ASSUME IInv, NEW t \in Tasks, NEW r \in Answers, Finish(t, r),
         \/ UNCHANGED items
         \/ \E k \in Keys, c \in Ciphertexts \cup {Absent} :
              items' = [items EXCEPT ![k] = c]
  PROVE  IInv'
<1> USE DEF IInv, TypeOK, SentInv, Finish, Answers
<1>1. items' \in [Keys -> Ciphertexts \cup {Absent}]
  OBVIOUS
<1>2. TypeOK'
  BY <1>1
<1>3. SentInv'
  OBVIOUS
<1> QED
  BY <1>2, <1>3

LEMMA StepInv ==
  ASSUME IInv, Next \/ UNCHANGED vars PROVE IInv'
<1> USE DEF IInv
<1>1. ASSUME NEW t \in Tasks, get_item(t) PROVE IInv'
  <2>1. req[t].key \in Keys
    BY <1>1, RequestFields DEF get_item, Requested, SentInv
  <2>2. PICK r \in Answers : Finish(t, r)
    BY <1>1, <2>1 DEF get_item, TypeOK, Answers, Item, decrypt, Ciphertexts
  <2> QED
    BY <1>1, <2>2, FinishInv DEF get_item
<1>2. ASSUME NEW t \in Tasks, set_item(t) \/ set_item_safe(t) PROVE IInv'
  <2>1. req[t].key \in Keys /\ sent[t].value \in Ciphertexts
    BY <1>2, RequestFields
    DEF set_item, set_item_safe, Requested, SentInv, Writing
  <2>2. PICK r \in Answers : Finish(t, r)
    BY <1>2 DEF set_item, set_item_safe, Answers
  <2> QED
    BY <1>2, <2>1, <2>2, FinishInv DEF set_item, set_item_safe
<1>3. ASSUME NEW t \in Tasks, remove_item(t) PROVE IInv'
  <2>1. req[t].key \in Keys
    BY <1>3, RequestFields DEF remove_item, Requested, SentInv
  <2> QED
    BY <1>3, <2>1, FinishInv DEF remove_item, Answers
<1>4. ASSUME NEW t \in Tasks, ControllerFails(t) PROVE IInv'
  BY <1>4, FinishInv DEF ControllerFails, Answers
<1>5. ASSUME NEW t \in Tasks, Return(t) PROVE IInv'
  BY <1>5 DEF Return, TypeOK, SentInv, Nothing
<1>6. ASSUME UNCHANGED vars PROVE IInv'
  BY <1>6 DEF vars, TypeOK, SentInv
<1> QED
  BY <1>1, <1>2, <1>3, <1>4, <1>5, <1>6, CallInv DEF Next

LEMMA SpecIInv == Spec => []IInv
<1>1. IInv /\ [Next]_vars => IInv'
  BY StepInv
<1> QED
  BY <1>1, InitIInv, PTL DEF Spec

(* Every variable keeps its type.                                          *)
THEOREM PluginStorageTypes == Spec => []TypeOK
  BY SpecIInv, PTL DEF IInv

-----------------------------------------------------------------------------
(* Each step is a step, or a stutter, of the store of plaintexts.          *)
Plaintexts == [k \in Keys |-> IF items[k] = Absent THEN Absent
                              ELSE decrypt(items[k])]
Phase == [t \in Tasks |-> IF pc[t] = "sent" THEN "pending" ELSE pc[t]]

LEMMA PhaseExcept ==
  ASSUME TypeOK, NEW t \in Tasks, NEW l, pc' = [pc EXCEPT ![t] = l]
  PROVE  Phase' = [Phase EXCEPT ![t] = IF l = "sent" THEN "pending" ELSE l]
  BY DEF TypeOK, Phase

LEMMA WriteExcept ==
  ASSUME TypeOK, NEW k \in Keys, NEW c \in Ciphertexts \cup {Absent},
         items' = [items EXCEPT ![k] = c]
  PROVE  Plaintexts' = [Plaintexts EXCEPT ![k] =
                          IF c = Absent THEN Absent ELSE c.text]
  BY DEF TypeOK, Plaintexts, decrypt

(* An answer the store of plaintexts may give as well.                     *)
LEMMA CommitPlain ==
  ASSUME IInv, NEW t \in Tasks, pc[t] = "sent", NEW r, Finish(t, r),
         NEW out \in PlainOutcomes(req[t], Plaintexts), out.res = r,
         Plaintexts' = IF out.changed THEN out.data ELSE Plaintexts
  PROVE  Plain!Commit(t)
<1>1. Phase' = [Phase EXCEPT ![t] = "done"] /\ Phase[t] = "pending"
  BY PhaseExcept DEF Finish, Phase, IInv
<1> QED
  BY <1>1 DEF Plain!Commit, Finish, Phase, Plaintexts

LEMMA GetPlain ==
  ASSUME IInv, NEW t \in Tasks, get_item(t) PROVE Plain!Commit(t)
<1> DEFINE out == [changed |-> FALSE, data |-> Plaintexts,
                   res |-> Item(Plaintexts[req[t].key])]
<1>1. req[t].key \in Keys /\ req[t].op = "get_item" /\ pc[t] = "sent"
  BY RequestFields DEF get_item, Requested, IInv, SentInv
<1>2. out \in PlainOutcomes(req[t], Plaintexts)
  BY <1>1 DEF PlainOutcomes
<1>3. Finish(t, out.res) /\ Plaintexts' = Plaintexts
  BY <1>1 DEF get_item, Plaintexts
<1> QED
  BY <1>1, <1>2, <1>3, CommitPlain

LEMMA SetPlain ==
  ASSUME IInv, NEW t \in Tasks, set_item(t) PROVE Plain!Commit(t)
<1> DEFINE texts == [Plaintexts EXCEPT ![req[t].key] = req[t].value]
           out == [changed |-> TRUE, data |-> texts, res |-> Ok]
<1>1. /\ req[t].key \in Keys /\ req[t].op = "set_item" /\ pc[t] = "sent"
      /\ sent[t].value \in Ciphertexts /\ sent[t].value.text = req[t].value
  BY RequestFields DEF set_item, Requested, IInv, SentInv, Writing
<1>2. out \in PlainOutcomes(req[t], Plaintexts)
  BY <1>1 DEF PlainOutcomes
<1>3. Finish(t, Ok)
  BY DEF set_item
<1>4. items' = [items EXCEPT ![req[t].key] = sent[t].value]
  BY DEF set_item
<1>5. sent[t].value # Absent
  BY <1>1, StorageAssumption
<1>6. Plaintexts' = [Plaintexts EXCEPT ![req[t].key] = sent[t].value.text]
  BY <1>1, <1>4, <1>5, WriteExcept DEF IInv
<1>7. Plaintexts' = texts
  BY <1>1, <1>6
<1> QED
  BY <1>1, <1>2, <1>3, <1>7, CommitPlain

LEMMA RemovePlain ==
  ASSUME IInv, NEW t \in Tasks, remove_item(t) PROVE Plain!Commit(t)
<1> DEFINE texts == [Plaintexts EXCEPT ![req[t].key] = Absent]
           out == [changed |-> TRUE, data |-> texts, res |-> Ok]
<1>1. req[t].key \in Keys /\ req[t].op = "remove_item" /\ pc[t] = "sent"
  BY RequestFields DEF remove_item, Requested, IInv, SentInv
<1>2. out \in PlainOutcomes(req[t], Plaintexts)
  BY <1>1 DEF PlainOutcomes
<1>3. Finish(t, Ok) /\ Plaintexts' = texts
  BY <1>1, WriteExcept DEF remove_item, IInv
<1> QED
  BY <1>1, <1>2, <1>3, CommitPlain

(* Equal ciphertexts are of equal texts: what is written replaces nothing, *)
(* or the text the caller names.                                           *)
LEMMA SafePlain ==
  ASSUME IInv, NEW t \in Tasks, set_item_safe(t) PROVE Plain!Commit(t)
<1> DEFINE key == req[t].key
           texts == [Plaintexts EXCEPT ![key] = req[t].value]
           written == [changed |-> TRUE, data |-> texts, res |-> Ok]
           left == [changed |-> FALSE, data |-> Plaintexts, res |-> DataTooOld]
<1>1. /\ key \in Keys /\ req[t].op = "set_item_safe" /\ pc[t] = "sent"
      /\ sent[t].value \in Ciphertexts /\ sent[t].value.text = req[t].value
      /\ sent[t].old \in Ciphertexts /\ sent[t].old.text = req[t].old
  BY RequestFields DEF set_item_safe, Requested, IInv, SentInv, Writing
<1>2. PlainOutcomes(req[t], Plaintexts) =
        (IF Plaintexts[key] \in {Absent, req[t].old} THEN {written} ELSE {})
          \cup (IF Plaintexts[key] = Absent THEN {} ELSE {left})
  BY <1>1 DEF PlainOutcomes
<1>3. CASE /\ items[key] \in {Absent, sent[t].old}
           /\ items' = [items EXCEPT ![key] = sent[t].value]
           /\ Finish(t, Ok)
  <2>1. Plaintexts[key] \in {Absent, req[t].old}
    BY <1>1, <1>3, StorageAssumption DEF Plaintexts, decrypt
  <2>2. Plaintexts' = texts
    BY <1>1, <1>3, WriteExcept, StorageAssumption DEF IInv
  <2> QED
    BY <1>1, <1>2, <1>3, <2>1, <2>2, CommitPlain
<1>4. CASE /\ items[key] \notin {Absent, sent[t].old}
           /\ Finish(t, DataTooOld)
           /\ UNCHANGED items
  <2>1. Plaintexts[key] # Absent
    <3>1. items[key] \in Ciphertexts
      BY <1>1, <1>4 DEF IInv, TypeOK
    <3> QED
      BY <1>1, <1>4, <3>1, StorageAssumption
      DEF Plaintexts, decrypt, Ciphertexts
  <2>2. Plaintexts' = Plaintexts
    BY <1>4 DEF Plaintexts
  <2> QED
    BY <1>1, <1>2, <1>4, <2>1, <2>2, CommitPlain
<1> QED
  BY <1>3, <1>4 DEF set_item_safe

LEMMA FailPlain ==
  ASSUME IInv, NEW t \in Tasks, ControllerFails(t) PROVE Plain!Fail(t)
<1>1. Phase[t] = "pending" /\ Phase' = [Phase EXCEPT ![t] = "done"]
  BY PhaseExcept DEF ControllerFails, Finish, Phase, IInv
<1> QED
  BY <1>1 DEF Plain!Fail, ControllerFails, Finish, Phase

LEMMA InvokePlain ==
  ASSUME IInv, NEW t \in Tasks, Call(t) PROVE Plain!Invoke(t)
<1>1. Phase[t] = "idle" /\ Phase' = [Phase EXCEPT ![t] = "pending"]
  BY PhaseExcept DEF Call, Phase, IInv
<1> QED
  BY <1>1 DEF Plain!Invoke, Call, Phase

LEMMA ReturnPlain ==
  ASSUME IInv, NEW t \in Tasks, Return(t) PROVE Plain!Return(t)
<1>1. Phase[t] = "done" /\ Phase' = [Phase EXCEPT ![t] = "idle"]
  BY PhaseExcept DEF Return, Phase, IInv
<1> QED
  BY <1>1 DEF Plain!Return, Return, Phase

LEMMA InitPlain == Init => Plain!Init
  BY DEF Init, Plain!Init

(* Nobody can tell the storage from one of plaintexts that may refuse a    *)
(* conditional write.                                                      *)
THEOREM StorageImplementsPlain == Spec => ImplementsPlain
<1>1. IInv /\ [Next]_vars => [Plain!Next]_(Plain!vars)
  <2> SUFFICES ASSUME IInv, [Next]_vars PROVE [Plain!Next]_(Plain!vars)
    OBVIOUS
  <2>1. CASE Next
    BY <2>1, InvokePlain, GetPlain, SetPlain, SafePlain, RemovePlain,
       FailPlain, ReturnPlain DEF Next, Plain!Next
  <2>2. CASE UNCHANGED vars
    BY <2>2 DEF vars, Plain!vars
  <2> QED
    BY <2>1, <2>2
<1> QED
  BY <1>1, InitPlain, SpecIInv, PTL DEF Spec, ImplementsPlain, Plain!Spec
=============================================================================
