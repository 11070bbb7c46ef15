------------------------ MODULE PaymentNotifications -------------------------
(***************************************************************************)
(* `handle_notif_to_relay` (nip47/sdk_services.rs): the clients of the     *)
(* cached connections are told of a payment, each in an event of either    *)
(* kind of encryption, under the read lock of the cache, which the         *)
(* notification loop replaces under the write lock.                        *)
(***************************************************************************)

CONSTANTS
  Senders,     \* concurrent runs of on_sdk_payment
  Connections  \* connections, one for each client secret

Kinds == {"NIP04", "NIP44"}

VARIABLES
  persisted,           \* the connections in the storage
  active_connections,  \* those in the cache
  pending,             \* whether the loop has been told to resubscribe
  writing,             \* whether it waits for the write lock of the cache
  reading,             \* who holds the read lock of the cache
  unsent               \* unsent[h]: events h, holding the lock, has to send

notifVars ==
  <<persisted, active_connections, pending, writing, reading, unsent>>

NotifInit ==
  /\ persisted = {}
  /\ active_connections = {}
  /\ pending = TRUE
  /\ writing = FALSE
  /\ reading = {}
  /\ unsent = [h \in Senders |-> {}]

(* add_connection, or remove_connection, and trigger_resubscription.       *)
ChangeConnections ==
  /\ \E c \in Connections :
       persisted' = IF c \in persisted THEN persisted \ {c}
                    ELSE persisted \cup {c}
  /\ pending' = TRUE
  /\ UNCHANGED <<active_connections, writing, reading, unsent>>

Resubscribing ==
  /\ pending /\ ~ writing
  /\ pending' = FALSE
  /\ writing' = TRUE
  /\ UNCHANGED <<persisted, active_connections, reading, unsent>>

(* Mutant: the cache is replaced while it is being read.                   *)
CacheLock == TRUE

CacheWriteLock == reading = {}

(* on_resubscribe reads the storage when nobody reads the cache any more.  *)
RefreshCache ==
  /\ writing
  /\ CacheWriteLock
  /\ active_connections' = persisted
  /\ writing' = FALSE
  /\ UNCHANGED <<persisted, pending, reading, unsent>>

TakeReadLock(h) ==
  /\ reading' = reading \cup {h}
  /\ unsent' = [unsent EXCEPT ![h] = active_connections \X Kinds]
  /\ UNCHANGED <<persisted, active_connections, pending, writing>>

(* Mutant: readers do not queue behind a writer that waits.                *)
StartBeforeWriter(h) == h \notin reading /\ TakeReadLock(h)

(* A completed payment is reported.  tokio's RwLock is fair: a reader that *)
(* comes after the writer waits for it.                                    *)
StartNotifying(h) == h \notin reading /\ ~ writing /\ TakeReadLock(h)

(* One event is sent, or fails to be encrypted or sent, which is logged.   *)
SendNotification(h) ==
  /\ h \in reading
  /\ \/ /\ \E e \in unsent[h] : unsent' = [unsent EXCEPT ![h] = @ \ {e}]
        /\ UNCHANGED reading
     \/ unsent[h] = {} /\ reading' = reading \ {h} /\ UNCHANGED unsent
  /\ UNCHANGED <<persisted, active_connections, pending, writing>>

(* The process dies; the loop of the next attach resubscribes at once.     *)
NotifCrash ==
  /\ active_connections' = {}
  /\ pending' = TRUE /\ writing' = FALSE
  /\ reading' = {}
  /\ unsent' = [h \in Senders |-> {}]
  /\ UNCHANGED persisted

NotifTypeOK ==
  /\ persisted \in SUBSET Connections
  /\ active_connections \in SUBSET Connections
  /\ pending \in BOOLEAN /\ writing \in BOOLEAN
  /\ reading \in SUBSET Senders
  /\ unsent \in [Senders -> SUBSET (Connections \X Kinds)]

(* A client whose connection has gone from the cache is told of no more    *)
(* payments, not even of one whose notification has begun before.          *)
DroppedHearsNothing ==
  \A h \in Senders : \A e \in unsent[h] : e[1] \in active_connections
=============================================================================
