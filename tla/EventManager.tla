---------------------------- MODULE EventManager -----------------------------
(***************************************************************************)
(* `EventManager` (event.rs): the host's listeners under a read-write      *)
(* lock, and the flag that pauses notifications.                           *)
(*                                                                         *)
(* A notification looks at the flag, waits for the read lock, and holds it *)
(* until every listener has returned; add and remove take the write lock,  *)
(* and have not begun while they wait for it.  Listeners are the host's:   *)
(* they return, and make no call of the plugin before they do.  The        *)
(* broadcast channel has no receiver in the repository and is left out.    *)
(***************************************************************************)

CONSTANTS
  Notifiers,  \* tasks that may call notify
  Listeners   \* event listeners of the host, by id

VARIABLES
  is_paused,
  listeners,  \* the ids registered
  waiting,    \* who found events not paused, and waits for the read lock
  todo        \* todo[t]: whom t, holding the read lock, has still to call

managerVars == <<is_paused, listeners, waiting, todo>>

ManagerInit ==
  /\ is_paused = FALSE
  /\ listeners = {}
  /\ waiting = {}
  /\ todo = [t \in Notifiers |-> {}]

(* An event is dropped while events are paused.                            *)
Notify(t) ==
  /\ waiting' = IF is_paused THEN waiting ELSE waiting \cup {t}
  /\ UNCHANGED <<is_paused, listeners, todo>>

(* The flag may have changed since; no writer keeps the lock in an await.  *)
ReadLock(t) ==
  /\ t \in waiting
  /\ waiting' = waiting \ {t}
  /\ todo' = [todo EXCEPT ![t] = listeners]
  /\ UNCHANGED <<is_paused, listeners>>

(* The on_event of listener l returns.                                     *)
on_event(t, l) ==
  /\ l \in todo[t]
  /\ todo' = [todo EXCEPT ![t] = @ \ {l}]
  /\ UNCHANGED <<is_paused, listeners, waiting>>

Notified(t) == t \notin waiting /\ todo[t] = {}

(* Mutant: a writer does not wait for the readers.                         *)
NoLock == TRUE

(* The write lock is granted once nobody reads.                            *)
WriteLock == \A t \in Notifiers : todo[t] = {}

add(l) ==
  /\ WriteLock
  /\ listeners' = listeners \cup {l}
  /\ UNCHANGED <<is_paused, waiting, todo>>

remove(l) ==
  /\ WriteLock
  /\ listeners' = listeners \ {l}
  /\ UNCHANGED <<is_paused, waiting, todo>>

Pause(value) == is_paused' = value /\ UNCHANGED <<listeners, waiting, todo>>

ManagerTypeOK ==
  /\ is_paused \in BOOLEAN
  /\ listeners \in SUBSET Listeners
  /\ waiting \in SUBSET Notifiers
  /\ todo \in [Notifiers -> SUBSET Listeners]

(* Once `remove_event_listener` has returned, the listener is not called   *)
(* again: no notification under way has still to call one that has gone.   *)
RemovedHearsNothing == \A t \in Notifiers : todo[t] \subseteq listeners
=============================================================================
