---------------------------- MODULE PluginStorage ----------------------------
(***************************************************************************)
(* `PluginStorage` (core/src/storage.rs): the encrypted storage of one     *)
(* plugin, over the key-value store of the host (PluginStorageController). *)
(*                                                                         *)
(* Values are encrypted before the host sees them, under a nonce drawn for *)
(* each encryption.  The controller is the host's: it is taken to do, one  *)
(* call at a time, what its four methods are named for, comparing the      *)
(* values it is given as the opaque strings they are to it.                *)
(***************************************************************************)
EXTENDS Naturals

CONSTANTS
  Tasks,     \* concurrent callers
  Keys,      \* names of items
  Texts,     \* plaintext values
  Absent,    \* no item under the key
  None,      \* no value, no request
  MaxNonces  \* bound: encryptions in a behaviour

(* A ciphertext determines the nonce and the text it was made from.        *)
Ciphertexts == [nonce : 1 .. MaxNonces, text : Texts]
ASSUME StorageAssumption ==
  /\ Absent \notin Texts \cup Ciphertexts
  /\ None \notin Texts \cup Ciphertexts
  /\ MaxNonces \in Nat

encrypt(text, nonce) == [nonce |-> nonce, text |-> text]
decrypt(ciphertext) == ciphertext.text

Requests ==
  [op : {"get_item", "remove_item"}, key : Keys, value : {None}, old : {None}]
    \cup [op : {"set_item"}, key : Keys, value : Texts, old : {None}]
    \cup [op : {"set_item_safe"}, key : Keys, value : Texts, old : Texts]

Ok == [tag |-> "Ok", item |-> None]
Item(text) == [tag |-> "Ok", item |-> text]
DataTooOld == [tag |-> "DataTooOld", item |-> None]
Generic == [tag |-> "Generic", item |-> None]

VARIABLES
  items,   \* the controller's store of ciphertexts
  nonces,  \* nonces drawn so far
  pc,      \* pc[t]: "idle", "sent" to the controller or "done"
  req,     \* req[t]: t's request
  sent,    \* sent[t]: the ciphertexts made of its value and old value
  result   \* result[t]: its answer

vars == <<items, nonces, pc, req, sent, result>>

Nothing == [value |-> None, old |-> None]

Init ==
  /\ items = [k \in Keys |-> Absent]
  /\ nonces = 0
  /\ pc = [t \in Tasks |-> "idle"]
  /\ req = [t \in Tasks |-> None]
  /\ sent = [t \in Tasks |-> Nothing]
  /\ result = [t \in Tasks |-> None]

(* Mutant: only the new value is encrypted.                                *)
PlainOldValue(r, n) ==
  [value |-> IF r.value = None THEN None ELSE encrypt(r.value, n + 1),
   old |-> r.old]

(* Mutant: value and old_value are passed in the wrong order.              *)
SwappedValues(r, n) ==
  LET first == IF r.old = None THEN r.value ELSE r.old
      second == IF r.old = None THEN None ELSE r.value
  IN [value |-> IF first = None THEN None ELSE encrypt(first, n + 1),
      old |-> IF second = None THEN None ELSE encrypt(second, n + 2)]

(* What goes to the controller: value and old_value are each encrypted,    *)
(* under a nonce of its own.                                               *)
Encrypted(r, n) ==
  [value |-> IF r.value = None THEN None ELSE encrypt(r.value, n + 1),
   old |-> IF r.old = None THEN None ELSE encrypt(r.old, n + 2)]

NoncesOf(r) ==
  IF r.op = "set_item_safe" THEN 2 ELSE IF r.op = "set_item" THEN 1 ELSE 0

Call(t) ==
  /\ pc[t] = "idle"
  /\ \E r \in Requests :
       /\ nonces + NoncesOf(r) <= MaxNonces
       /\ nonces' = nonces + NoncesOf(r)
       /\ req' = [req EXCEPT ![t] = r]
       /\ sent' = [sent EXCEPT ![t] = Encrypted(r, nonces)]
  /\ pc' = [pc EXCEPT ![t] = "sent"]
  /\ UNCHANGED <<items, result>>

Requested(t, name) == pc[t] = "sent" /\ req[t].op = name

Finish(t, r) ==
  /\ pc' = [pc EXCEPT ![t] = "done"]
  /\ result' = [result EXCEPT ![t] = r]
  /\ UNCHANGED <<nonces, req, sent>>

get_item(t) ==
  LET c == items[req[t].key] IN
  /\ Requested(t, "get_item")
  /\ Finish(t, IF c = Absent THEN Item(Absent) ELSE Item(decrypt(c)))
  /\ UNCHANGED items

set_item(t) ==
  /\ Requested(t, "set_item")
  /\ items' = [items EXCEPT ![req[t].key] = sent[t].value]
  /\ Finish(t, Ok)

(* The controller can only compare what it holds with what it is given.    *)
set_item_safe(t) ==
  /\ Requested(t, "set_item_safe")
  /\ \/ /\ items[req[t].key] \in {Absent, sent[t].old}
        /\ items' = [items EXCEPT ![req[t].key] = sent[t].value]
        /\ Finish(t, Ok)
     \/ /\ items[req[t].key] \notin {Absent, sent[t].old}
        /\ Finish(t, DataTooOld)
        /\ UNCHANGED items

remove_item(t) ==
  /\ Requested(t, "remove_item")
  /\ items' = [items EXCEPT ![req[t].key] = Absent]
  /\ Finish(t, Ok)

ControllerFails(t) ==
  /\ pc[t] = "sent"
  /\ Finish(t, Generic)
  /\ UNCHANGED items

Return(t) ==
  /\ pc[t] = "done"
  /\ pc' = [pc EXCEPT ![t] = "idle"]
  /\ req' = [req EXCEPT ![t] = None]
  /\ sent' = [sent EXCEPT ![t] = Nothing]
  /\ result' = [result EXCEPT ![t] = None]
  /\ UNCHANGED <<items, nonces>>

Next ==
  \E t \in Tasks :
    \/ Call(t) \/ get_item(t) \/ set_item(t) \/ set_item_safe(t)
    \/ remove_item(t) \/ ControllerFails(t) \/ Return(t)

Spec == Init /\ [][Next]_vars

-----------------------------------------------------------------------------
(* The types of the variables.                                             *)
TypeOK ==
  /\ items \in [Keys -> Ciphertexts \cup {Absent}]
  /\ nonces \in 0 .. MaxNonces
  /\ pc \in [Tasks -> {"idle", "sent", "done"}]
  /\ req \in [Tasks -> Requests \cup {None}]
  /\ sent \in [Tasks -> [value : Ciphertexts \cup {None},
                         old : Ciphertexts \cup {None}]]
  /\ result \in [Tasks -> {Ok, DataTooOld, Generic, None}
                          \cup [tag : {"Ok"}, item : Texts \cup {Absent}]]

(* What is promised of a store of plaintexts: a conditional write never    *)
(* replaces a text other than the old one it names, but may be refused     *)
(* whenever there is an item.                                              *)
PlainOutcomes(r, texts) ==
  LET old == texts[r.key]
      Write(x) == [changed |-> TRUE, data |-> [texts EXCEPT ![r.key] = x],
                   res |-> Ok]
      Leave(answer) == [changed |-> FALSE, data |-> texts, res |-> answer]
  IN CASE r.op = "get_item" -> {Leave(Item(old))}
       [] r.op = "set_item" -> {Write(r.value)}
       [] r.op = "remove_item" -> {Write(Absent)}
       [] r.op = "set_item_safe" ->
            (IF old \in {Absent, r.old} THEN {Write(r.value)} ELSE {})
              \cup (IF old = Absent THEN {} ELSE {Leave(DataTooOld)})

Plain == INSTANCE AtomicStore WITH
  data <- [k \in Keys |-> IF items[k] = Absent THEN Absent
                          ELSE decrypt(items[k])],
  phase <- [t \in Tasks |-> IF pc[t] = "sent" THEN "pending" ELSE pc[t]],
  op <- req, result <- result,
  Ops <- Requests, Outcomes <- PlainOutcomes,
  EmptyData <- [k \in Keys |-> Absent], FailResults <- {Generic}

(* Encryption is invisible to the callers, however their calls interleave: *)
(* what is read is what was written last, under that key, and a safe write *)
(* never discards a text its caller has not named.                         *)
ImplementsPlain == Plain!Spec

(* storage.rs:133, "It will ensure that the value that's being written has *)
(* not been modified, throwing a [PluginStorageError::DataTooOld] error    *)
(* otherwise".  old_value is encrypted anew, under another nonce than the  *)
(* stored ciphertext has: storage.rs:140-143.                              *)
RefusedOnlyIfModified ==
  [][\A t \in Tasks :
       pc'[t] = "done" /\ pc[t] = "sent" /\ result'[t] = DataTooOld =>
         decrypt(items[req[t].key]) # req[t].old]_vars
=============================================================================
