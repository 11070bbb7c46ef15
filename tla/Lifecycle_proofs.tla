-------------------------- MODULE Lifecycle_proofs ---------------------------
(***************************************************************************)
(* Proofs about Lifecycle: types, what a stop leaves behind, the key of    *)
(* the wallet and a runtime that has lost its loop.                        *)
(***************************************************************************)
EXTENDS Lifecycle, TLAPS, SequenceTheorems

(* Locations at which a call holds the mutex across awaits.                *)
Locked == {"set_seckey", "install", "clear", "notify", "pause", "sleep"}

Started == {"on_init", "add_listener", "set_id", "on_connect", "send_info"}
Attaching == Started \cup {"attach", "set_seckey", "install"}

(* The mutex excludes: who is at such a location is the head of the queue. *)
LockInv == \A t \in Tasks : pc[t] \in Locked => Holds(t)

AttemptInv ==
  \A t \in Tasks : /\ pc[t] = "idle" => attempt[t] = 0
                   /\ pc[t] = "handlers" => attempt[t] < MAX_ATTEMPTS

(* Each attach works on a session of its own, whose receiver it holds from *)
(* the moment the runtime is there.                                        *)
SessionInv ==
  \A t \in Tasks :
    /\ pc[t] \in Attaching =>
         /\ at[t] \in 1 .. sessions
         /\ \A u \in Tasks \ {t} : pc[u] \in Attaching => at[u] # at[t]
    /\ pc[t] \in Started => loop[at[t]] = "attaching"
    /\ pc[t] \in {"trigger", "reconnect"} => at[t] \in Sessions
    /\ pc[t] \in {"set_seckey", "install"} => runtime = 0

Base == TypeOK /\ LockInv /\ AttemptInv /\ SessionInv

(* A call still under way into a runtime that is being, or has been,       *)
(* stopped is one that the stop has overtaken.                             *)
OvertakenInv ==
  \A t \in Tasks :
    UnderWay(t) /\ (Clearing \/ runtime # at[t]) => at[t] \in overtaken

(* A listener whose id is not yet set is one that attach has just added.   *)
ListenerInv ==
  \A s \in sdk_listeners \ listener_id :
    \E t \in Tasks : pc[t] = "set_id" /\ at[t] = s

LeftInv ==
  \A s \in Sessions \ overtaken :
    /\ Clearing \/ s # runtime =>
         /\ s \notin connected
         /\ HasReceiver(s) => "Shutdown" \in Range(chan[s])
    /\ (\E t \in Tasks : pc[t] \in {"notify", "pause"}) \/ s # runtime =>
         s \notin sdk_listeners

(* Events are not paused when a stop comes to emit its own, unless attach  *)
(* has not come to resume them.                                            *)
PausedInv ==
  is_paused /\ runtime # 0 =>
    \E t \in Tasks : pc[t] = "on_init" /\ at[t] = runtime

StopInv == OvertakenInv /\ ListenerInv /\ LeftInv /\ PausedInv

(* All that read the stored key have it; nobody has another one while a    *)
(* key is being generated.                                                 *)
KeyInv ==
  /\ ConfiguredKey => \A s \in Sessions : our_keys[s] = 0
  /\ \A t \in Tasks : pc[t] = "set_seckey" =>
       /\ ~ ConfiguredKey
       /\ ~ unread => stored_key = 0
  /\ ~ ConfiguredKey /\ ~ unread =>
       \A s \in Sessions :
         Attached(s) \/ (\E t \in Tasks : pc[t] = "install" /\ at[t] = s) =>
           stored_key # 0 /\ our_keys[s] = stored_key

-----------------------------------------------------------------------------
(* What a step does to the listeners of the host.                          *)
LEMMA ManagerSteps ==
  ASSUME Next
  PROVE  \/ UNCHANGED managerVars
         \/ \E v \in BOOLEAN : Pause(v)
         \/ \E n \in Notifiers : Notify(n) \/ ReadLock(n)
         \/ \E n \in Notifiers, l \in Listeners : on_event(n, l)
         \/ \E l \in Listeners : add(l)
         \/ \E l \in listeners : remove(l)
<1>1. ASSUME NEW t \in Tasks, CallStarts(t)
      PROVE  \/ UNCHANGED managerVars
             \/ \E l \in Listeners : add(l)
             \/ \E l \in listeners : remove(l)
  BY <1>1
  DEF CallStarts, CallAttach, CallStop, CallGetInfo, CallService, Lock,
      on_sdk_payment, on_relay_event, add_event_listener,
      remove_event_listener
<1>2. ASSUME NEW t \in Tasks, AttachStep(t)
      PROVE  \/ UNCHANGED managerVars
             \/ \E v \in BOOLEAN : Pause(v)
             \/ Notify(t)
  BY <1>2
  DEF AttachStep, AttachRefused, get_secret_key, set_seckey, InstallRuntime,
      AttachFails, on_init, AddSdkListener, Connect, on_connect, SpawnLoop
<1>3. ASSUME NEW t \in Tasks, StopStep(t)
      PROVE  \/ UNCHANGED managerVars
             \/ \E v \in BOOLEAN : Pause(v)
             \/ Notify(t)
  BY <1>3
  DEF StopStep, StopGivesUp, Shutdown, RemoveSdkListener, NotifyDisconnected,
      ClearRuntime
<1>4. ASSUME NEW t \in Tasks, ServiceStep(t)
      PROVE  UNCHANGED managerVars \/ Notify(t)
  BY <1>4
  DEF ServiceStep, get_info, handlers, Wake, trigger_resubscription, Reconnect,
      forward_nwc_to_sdk, Reply
<1>5. ASSUME NEW s \in Sessions, LoopStep(s)
      PROVE  UNCHANGED managerVars \/ Notify(s)
  BY <1>5 DEF LoopStep, on_resubscribe, ReceiveAction, on_interval,
              IntervalOver, loopUnchanged
<1>6. ASSUME NEW n \in Notifiers, NotifyStep(n)
      PROVE  ReadLock(n) \/ \E l \in Listeners : on_event(n, l)
  BY <1>6 DEF NotifyStep, BeginReading, ListenerReturns
<1>7. Tasks \subseteq Notifiers /\ Sessions \subseteq Notifiers
  BY LifecycleAssumption DEF Sessions
<1> QED
  BY <1>1, <1>2, <1>3, <1>4, <1>5, <1>6, <1>7 DEF Next, TaskStep

ManagerInv == ManagerTypeOK /\ RemovedHearsNothing

LEMMA ManagerPreserved ==
  ASSUME ManagerInv, Next \/ UNCHANGED vars PROVE ManagerInv'
<1> USE LifecycleAssumption DEF ManagerInv
<1>1. ASSUME UNCHANGED managerVars PROVE ManagerInv'
  BY <1>1 DEF managerVars, ManagerTypeOK, RemovedHearsNothing
<1>2. ASSUME NEW v \in BOOLEAN, Pause(v) PROVE ManagerInv'
  BY <1>2 DEF Pause, ManagerTypeOK, RemovedHearsNothing
<1>3. ASSUME NEW n \in Notifiers, Notify(n) \/ ReadLock(n) PROVE ManagerInv'
  BY <1>3 DEF Notify, ReadLock, ManagerTypeOK, RemovedHearsNothing
<1>4. ASSUME NEW n \in Notifiers, NEW l \in Listeners, on_event(n, l)
      PROVE  ManagerInv'
  BY <1>4 DEF on_event, ManagerTypeOK, RemovedHearsNothing
<1>5. ASSUME NEW l \in Listeners, add(l) PROVE ManagerInv'
  BY <1>5 DEF add, ManagerTypeOK, RemovedHearsNothing
<1>6. ASSUME NEW l \in listeners, remove(l) PROVE ManagerInv'
  BY <1>6 DEF remove, WriteLock, ManagerTypeOK, RemovedHearsNothing
<1> QED
  BY <1>1, <1>2, <1>3, <1>4, <1>5, <1>6, ManagerSteps DEF vars

-----------------------------------------------------------------------------
(* Types, and who is where.  The two flags are Booleans, kept apart.       *)
Flags == ManagerTypeOK /\ unread \in BOOLEAN

LEMMA InitBase == Init => Base /\ ManagerInv
<1> SUFFICES ASSUME Init PROVE Base /\ ManagerInv
  OBVIOUS
<1> USE LifecycleAssumption DEF Init
<1>1. ManagerInv
  BY DEF ManagerInv, ManagerTypeOK, ManagerInit, RemovedHearsNothing
<1>2. unread \in BOOLEAN
  OBVIOUS
<1>3. TypeOK
  BY <1>1, <1>2 DEF TypeOK, ManagerInv, Locations, LoopLocations, Sessions
<1>4. LockInv /\ AttemptInv /\ SessionInv
  BY DEF LockInv, AttemptInv, SessionInv, Locked, Started, Attaching
<1> QED
  BY <1>1, <1>3, <1>4 DEF Base

LEMMA ReturnTypes ==
  ASSUME TypeOK, NEW t \in Tasks, Return(t)
  PROVE  /\ pc' \in [Tasks -> Locations]
         /\ at' \in [Tasks -> 0 .. MaxSessions]
         /\ service' \in [Tasks -> {"trigger", "reconnect"}]
         /\ attempt' \in [Tasks -> 0 .. MAX_ATTEMPTS]
  BY LifecycleAssumption DEF TypeOK, Return, Goto, Locations

LEMMA GotoTypes ==
  ASSUME TypeOK, NEW t \in Tasks, NEW l \in Locations, Goto(t, l)
  PROVE  pc' \in [Tasks -> Locations]
  BY DEF TypeOK, Goto

LEMMA ReleaseTypes ==
  ASSUME TypeOK, LockInv, Release,
         NEW t \in Tasks, Holds(t) \/ pc[t] \in Locked
  PROVE  queue' \in Seq(Tasks)
  BY DEF TypeOK, LockInv, Release, Holds

LEMMA DropTypes ==
  ASSUME TypeOK, NEW s \in Sessions, DropReceiver(s)
  PROVE  /\ loop' \in [Sessions -> LoopLocations]
         /\ chan' \in [Sessions -> Seq(ContextActions)]
  BY DEF TypeOK, DropReceiver, LoopLocations

LEMMA SendTypes ==
  ASSUME TypeOK, NEW s \in Sessions, NEW action \in ContextActions,
         chan' = [chan EXCEPT ![s] = Append(@, action)]
  PROVE  chan' \in [Sessions -> Seq(ContextActions)]
<1>1. Append(chan[s], action) \in Seq(ContextActions)
  BY DEF TypeOK
<1> QED
  BY <1>1 DEF TypeOK

LEMMA PlaceTypes ==
  ASSUME Base, NEW t \in Tasks,
         pc[t] \in Attaching \cup {"trigger", "reconnect"}
  PROVE  at[t] \in Sessions
  BY DEF Base, TypeOK, SessionInv, Sessions

LEMMA CallTypes ==
  ASSUME Base, Flags', NEW t \in Tasks, CallStarts(t)
  PROVE  TypeOK'
<1> USE LifecycleAssumption
    DEF Base, TypeOK, Flags, Locations, LoopLocations, taskVars, clientVars,
        keyVars, historyVars, counters
<1>1. ASSUME CallAttach(t) PROVE TypeOK'
  BY <1>1, GotoTypes
  DEF CallAttach, Lock, Calls
<1>2. ASSUME CallStop(t) PROVE TypeOK'
  BY <1>2, GotoTypes
  DEF CallStop, Lock, Calls
<1>3. ASSUME CallGetInfo(t) PROVE TypeOK'
  BY <1>3, GotoTypes
  DEF CallGetInfo, Lock, Calls
<1>4. ASSUME CallService(t) PROVE TypeOK'
  BY <1>4, GotoTypes
  DEF CallService, Lock, Calls
<1>5. ASSUME on_sdk_payment(t) PROVE TypeOK'
  <2>1. PICK s \in Sessions : at' = [at EXCEPT ![t] = s]
                              /\ overtaken' \in SUBSET Sessions
    BY <1>5 DEF on_sdk_payment
  <2>2. at' \in [Tasks -> 0 .. MaxSessions]
    BY <2>1 DEF Sessions
  <2>3. pc' \in [Tasks -> Locations] /\ calls' \in Nat
    BY <1>5, GotoTypes DEF on_sdk_payment, Calls
  <2>4. UNCHANGED <<runtime, queue, service, attempt, chan, loop, clientVars,
                    keyVars, believes, sessions, faults>>
    BY <1>5 DEF on_sdk_payment
  <2> QED
    BY <2>1, <2>2, <2>3, <2>4
<1>6. ASSUME on_relay_event(t) PROVE TypeOK'
  <2>1. at' \in [Tasks -> 0 .. MaxSessions]
    BY <1>6 DEF on_relay_event, Sessions
  <2>2. pc' \in [Tasks -> Locations] /\ calls' \in Nat
    BY <1>6, GotoTypes DEF on_relay_event, Calls
  <2> QED
    BY <1>6, <2>1, <2>2 DEF on_relay_event
<1>7. ASSUME add_event_listener(t) PROVE TypeOK'
  BY <1>7
  DEF add_event_listener, Calls
<1>8. ASSUME remove_event_listener(t) PROVE TypeOK'
  <2>1. PICK l \in listeners : believes' = [believes EXCEPT ![l] = {}]
    BY <1>8 DEF remove_event_listener
  <2>2. believes' \in [Listeners -> SUBSET (0 .. MaxSessions)]
    BY <2>1
  <2>3. calls' \in Nat
    BY <1>8 DEF remove_event_listener, Calls
  <2> QED
    BY <1>8, <2>2, <2>3 DEF remove_event_listener
<1> QED
  BY <1>1, <1>2, <1>3, <1>4, <1>5, <1>6, <1>7, <1>8 DEF CallStarts

LEMMA AttachTypes ==
  ASSUME Base, Flags', NEW t \in Tasks, AttachStep(t)
  PROVE  TypeOK'
<1> USE LifecycleAssumption
    DEF Base, TypeOK, Flags, Locations, LoopLocations, taskVars, clientVars,
        keyVars, historyVars, counters
<1>1. ASSUME AttachRefused(t) PROVE TypeOK'
  BY <1>1, ReturnTypes, ReleaseTypes
  DEF AttachRefused, Locked
<1>2. ASSUME get_secret_key(t) PROVE TypeOK'
  <2>1. pc' \in [Tasks -> Locations]
    BY <1>2, GotoTypes DEF get_secret_key
  <2>2. our_keys' \in [Sessions -> 0 .. MaxSessions]
    BY <1>2, PlaceTypes DEF get_secret_key, Attaching
  <2>3. faults' \in Nat
    BY <1>2 DEF get_secret_key, Fault
  <2> QED
    BY <1>2, <2>1, <2>2, <2>3 DEF get_secret_key
<1>3. ASSUME set_seckey(t) PROVE TypeOK'
  <2>1. /\ queue' \in Seq(Tasks)
        /\ pc' \in [Tasks -> Locations]
        /\ at' \in [Tasks -> 0 .. MaxSessions]
        /\ service' \in [Tasks -> {"trigger", "reconnect"}]
        /\ attempt' \in [Tasks -> 0 .. MAX_ATTEMPTS]
    <3>1. CASE Release /\ Return(t)
      BY <1>3, <3>1, ReturnTypes, ReleaseTypes DEF set_seckey, Locked
    <3>2. CASE Goto(t, "install") /\ UNCHANGED <<queue, at, service, attempt>>
      BY <3>2, GotoTypes
    <3> QED
      BY <1>3, <3>1, <3>2 DEF set_seckey
  <2>2. /\ our_keys' \in [Sessions -> 0 .. MaxSessions]
        /\ stored_key' \in 0 .. MaxSessions
    <3>1. at[t] \in Sessions
      BY <1>3, PlaceTypes DEF set_seckey, Attaching
    <3>2. at[t] \in 0 .. MaxSessions
      BY <3>1 DEF Sessions
    <3>3. CASE /\ stored_key' = at[t]
               /\ our_keys' = [our_keys EXCEPT ![at[t]] = at[t]]
      BY <3>1, <3>2, <3>3
    <3>4. CASE UNCHANGED <<stored_key, our_keys>>
      BY <3>4
    <3> QED
      BY <1>3, <3>3, <3>4 DEF set_seckey
  <2>3. faults' \in Nat
    BY <1>3 DEF set_seckey, Fault
  <2>4. UNCHANGED <<runtime, chan, loop, clientVars, unread, historyVars,
                    sessions, calls>>
    BY <1>3 DEF set_seckey
  <2> QED
    BY <2>1, <2>2, <2>3, <2>4
<1>4. ASSUME InstallRuntime(t) PROVE TypeOK'
  BY <1>4, GotoTypes, ReleaseTypes, PlaceTypes
  DEF InstallRuntime, Locked, Attaching, Started, Sessions
<1>5. ASSUME AttachFails(t) PROVE TypeOK'
  <2>1. /\ chan' \in [Sessions -> Seq(ContextActions)]
        /\ loop' \in [Sessions -> LoopLocations]
    BY <1>5, PlaceTypes, DropTypes DEF AttachFails, Attaching, Started
  <2> QED
    BY <1>5, <2>1, ReturnTypes DEF AttachFails, Fault
<1>6. ASSUME on_init(t) PROVE TypeOK'
  BY <1>6, GotoTypes
  DEF on_init
<1>7. ASSUME AddSdkListener(t) PROVE TypeOK'
  BY <1>7, GotoTypes, PlaceTypes
  DEF AddSdkListener, Attaching, Started
<1>8. ASSUME Connect(t) PROVE TypeOK'
  BY <1>8, GotoTypes, PlaceTypes
  DEF Connect, Attaching, Started
<1>9. ASSUME on_connect(t) PROVE TypeOK'
  BY <1>9, GotoTypes
  DEF on_connect
<1>10. ASSUME SpawnLoop(t) PROVE TypeOK'
  BY <1>10, DropTypes, ReturnTypes, PlaceTypes
  DEF SpawnLoop, Attaching, Started
<1> QED
  BY <1>1, <1>2, <1>3, <1>4, <1>5, <1>6, <1>7, <1>8, <1>9, <1>10 DEF AttachStep

LEMMA StopTypes ==
  ASSUME Base, Flags', NEW t \in Tasks, StopStep(t)
  PROVE  TypeOK'
<1> USE LifecycleAssumption
    DEF Base, TypeOK, Flags, Locations, LoopLocations, taskVars, clientVars,
        keyVars, historyVars, counters
<1>1. ASSUME StopGivesUp(t) PROVE TypeOK'
  BY <1>1, ReturnTypes, ReleaseTypes
  DEF StopGivesUp, Locked
<1>2. ASSUME Shutdown(t) PROVE TypeOK'
  <2>1. runtime \in Sessions /\ "Shutdown" \in ContextActions
    BY <1>2 DEF Shutdown, Sessions, ContextActions
  <2>2. chan' \in [Sessions -> Seq(ContextActions)]
    BY <1>2, <2>1, SendTypes DEF Shutdown
  <2>3. overtaken' \in SUBSET Sessions
    BY <1>2, <2>1 DEF Shutdown
  <2>4. pc' \in [Tasks -> Locations]
    BY <1>2, GotoTypes DEF Shutdown
  <2>5. connected' \in SUBSET Sessions
    BY <1>2 DEF Shutdown
  <2>6. UNCHANGED <<runtime, queue, at, service, attempt, loop, sdk_listeners,
                    listener_id, keyVars, believes, counters>>
    BY <1>2 DEF Shutdown
  <2> QED
    BY <2>2, <2>3, <2>4, <2>5, <2>6
<1>3. ASSUME RemoveSdkListener(t) PROVE TypeOK'
  BY <1>3, GotoTypes
  DEF RemoveSdkListener
<1>4. ASSUME NotifyDisconnected(t) PROVE TypeOK'
  BY <1>4, GotoTypes
  DEF NotifyDisconnected
<1>5. ASSUME ClearRuntime(t) PROVE TypeOK'
  <2>1. queue' \in Seq(Tasks)
    BY <1>5, ReleaseTypes DEF ClearRuntime, Locked
  <2>2. /\ pc' \in [Tasks -> Locations]
        /\ at' \in [Tasks -> 0 .. MaxSessions]
        /\ service' \in [Tasks -> {"trigger", "reconnect"}]
        /\ attempt' \in [Tasks -> 0 .. MAX_ATTEMPTS]
    BY <1>5, ReturnTypes DEF ClearRuntime
  <2>3. /\ runtime' = 0
        /\ UNCHANGED <<chan, loop, clientVars, keyVars, historyVars, counters>>
    BY <1>5 DEF ClearRuntime
  <2> QED
    BY <2>1, <2>2, <2>3
<1> QED
  BY <1>1, <1>2, <1>3, <1>4, <1>5 DEF StopStep

LEMMA ServiceTypes ==
  ASSUME Base, Flags', NEW t \in Tasks, ServiceStep(t)
  PROVE  TypeOK'
<1> USE LifecycleAssumption
    DEF Base, TypeOK, Flags, Locations, LoopLocations, taskVars, clientVars,
        keyVars, historyVars, counters
<1>1. ASSUME get_info(t) PROVE TypeOK'
  BY <1>1, ReturnTypes, ReleaseTypes
  DEF get_info, Locked
<1>2. ASSUME handlers(t) PROVE TypeOK'
  <2>1. pc' \in [Tasks -> Locations]
    <3>1. CASE Goto(t, service[t])
      BY <3>1, GotoTypes
    <3>2. CASE Goto(t, "sleep")
      BY <3>2, GotoTypes
    <3> QED
      BY <1>2, <3>1, <3>2 DEF handlers
  <2>2. /\ attempt' \in [Tasks -> 0 .. MAX_ATTEMPTS]
        /\ at' \in [Tasks -> 0 .. MaxSessions]
    <3>1. /\ attempt[t] \in 0 .. MAX_ATTEMPTS /\ attempt[t] < MAX_ATTEMPTS
          /\ runtime \in 0 .. MaxSessions
      BY <1>2 DEF handlers, AttemptInv
    <3>2. \/ attempt' = attempt /\ at' = [at EXCEPT ![t] = runtime]
          \/ attempt' = [attempt EXCEPT ![t] = @ + 1] /\ at' = at
      BY <1>2 DEF handlers
    <3>3. attempt[t] + 1 \in 0 .. MAX_ATTEMPTS
      BY <3>1
    <3> QED
      BY <3>1, <3>2, <3>3
  <2>3. queue' \in Seq(Tasks)
    BY <1>2, ReleaseTypes DEF handlers
  <2>4. UNCHANGED <<runtime, service, chan, loop, clientVars, keyVars,
                    historyVars, counters>>
    BY <1>2 DEF handlers
  <2> QED
    BY <2>1, <2>2, <2>3, <2>4
<1>3. ASSUME Wake(t) PROVE TypeOK'
  <2>1. Tail(queue) \in Seq(Tasks)
    BY <1>3 DEF Wake, LockInv, Locked, Holds
  <2>2. queue' \in Seq(Tasks)
    <3>1. Append(Tail(queue), t) \in Seq(Tasks)
      BY <2>1
    <3> QED
      BY <1>3, <2>1, <3>1 DEF Wake, Release
  <2>3. /\ pc' \in [Tasks -> Locations]
        /\ at' \in [Tasks -> 0 .. MaxSessions]
        /\ service' \in [Tasks -> {"trigger", "reconnect"}]
        /\ attempt' \in [Tasks -> 0 .. MAX_ATTEMPTS]
    BY <1>3, GotoTypes, ReturnTypes DEF Wake
  <2> QED
    BY <1>3, <2>2, <2>3 DEF Wake
<1>4. ASSUME trigger_resubscription(t) PROVE TypeOK'
  BY <1>4, ReturnTypes, SendTypes, PlaceTypes
  DEF trigger_resubscription, ContextActions
<1>5. ASSUME Reconnect(t) PROVE TypeOK'
  BY <1>5, GotoTypes, PlaceTypes
  DEF Reconnect
<1>6. ASSUME forward_nwc_to_sdk(t) PROVE TypeOK'
  BY <1>6, ReturnTypes, GotoTypes
  DEF forward_nwc_to_sdk
<1>7. ASSUME Reply(t) PROVE TypeOK'
  BY <1>7, ReturnTypes
  DEF Reply
<1> QED
  BY <1>1, <1>2, <1>3, <1>4, <1>5, <1>6, <1>7 DEF ServiceStep

LEMMA LoopTypes ==
  ASSUME Base, Flags', NEW s \in Sessions, LoopStep(s)
  PROVE  TypeOK'
<1> USE LifecycleAssumption
    DEF Base, TypeOK, Flags, Locations, LoopLocations, taskVars, clientVars,
        keyVars, historyVars, counters, loopUnchanged
<1>1. ASSUME on_resubscribe(s) PROVE TypeOK'
  <2>1. /\ chan' \in [Sessions -> Seq(ContextActions)]
        /\ loop' \in [Sessions -> LoopLocations]
    BY <1>1, DropTypes DEF on_resubscribe
  <2>2. faults' \in Nat
    BY <1>1 DEF on_resubscribe, Fault
  <2> QED
    BY <1>1, <2>1, <2>2 DEF on_resubscribe
<1>2. ASSUME ReceiveAction(s) PROVE TypeOK'
  <2>1. Tail(chan[s]) \in Seq(ContextActions)
    BY <1>2 DEF ReceiveAction
  <2>2. /\ chan' \in [Sessions -> Seq(ContextActions)]
        /\ loop' \in [Sessions -> LoopLocations]
    BY <1>2, <2>1, DropTypes DEF ReceiveAction
  <2> QED
    BY <1>2, <2>2 DEF ReceiveAction
<1>3. ASSUME on_interval(s) \/ IntervalOver(s) PROVE TypeOK'
  BY <1>3 DEF on_interval, IntervalOver
<1> QED
  BY <1>1, <1>2, <1>3 DEF LoopStep

-----------------------------------------------------------------------------
(* Who is where: the mutex, the attempts and the sessions of attach.       *)
Places == LockInv /\ AttemptInv /\ SessionInv

LEMMA AppendHead ==
  ASSUME NEW S, NEW q \in Seq(S), NEW x \in S, q # <<>>
  PROVE  Append(q, x) # <<>> /\ Head(Append(q, x)) = Head(q)
  OBVIOUS

LEMMA WaitingLocks ==
  ASSUME Base, NEW t \in Tasks, NEW location \in Locations \ Locked,
         Goto(t, location), queue' = Append(queue, t)
  PROVE  LockInv'
<1> SUFFICES ASSUME NEW u \in Tasks, pc'[u] \in Locked PROVE Holds(u)'
  BY DEF LockInv
<1>1. Holds(u)
  BY DEF Base, TypeOK, Goto, LockInv
<1> QED
  BY <1>1, AppendHead DEF Base, TypeOK, Holds

(* A task that leaves, or keeps out of, what SessionInv is about.          *)
LEMMA SessionFrame ==
  ASSUME Base, NEW t \in Tasks,
         \A u \in Tasks \ {t} : pc'[u] = pc[u] /\ at'[u] = at[u],
         pc'[t] \notin Attaching \cup {"trigger", "reconnect"},
         UNCHANGED <<sessions, loop, runtime>>
  PROVE  SessionInv'
<1> SUFFICES ASSUME NEW u \in Tasks PROVE SessionInv!(u)'
  BY DEF SessionInv
<1>1. CASE u = t
  BY <1>1 DEF Attaching, Started
<1>2. CASE u # t
  BY <1>2 DEF Base, SessionInv, Attaching, Started
<1> QED
  BY <1>1, <1>2

LEMMA CallPlaces ==
  ASSUME Base, NEW t \in Tasks, CallStarts(t)
  PROVE  Places'
<1> USE DEF Base, TypeOK, Places, Locked, Attaching, Started, taskVars,
        counters
<1>1. ASSUME CallAttach(t) PROVE Places'
  <2>1. LockInv'
    BY <1>1, WaitingLocks DEF CallAttach, Lock, Locations
  <2>2. AttemptInv'
    BY <1>1 DEF CallAttach, Lock, Calls, Goto, AttemptInv
  <2>3. SessionInv'
    <3>1. /\ sessions \in Nat /\ sessions' = sessions + 1
          /\ pc[t] = "idle" /\ pc' = [pc EXCEPT ![t] = "attach"]
          /\ at' = [at EXCEPT ![t] = sessions + 1]
          /\ UNCHANGED <<loop, runtime>>
      BY <1>1 DEF CallAttach, Lock, Calls, Goto, Base, TypeOK
    <3> SUFFICES ASSUME NEW u \in Tasks PROVE SessionInv!(u)'
      BY DEF SessionInv
    <3>2. \A v \in Tasks : pc[v] \in Attaching => at[v] \in 1 .. sessions
      BY DEF Base, SessionInv
    <3> USE DEF Base, TypeOK, SessionInv, Attaching, Started
    <3>3. CASE u = t
      BY <3>1, <3>2, <3>3
    <3>4. CASE u # t
      BY <3>1, <3>2, <3>4
    <3> QED
      BY <3>3, <3>4
  <2> QED
    BY <2>1, <2>2, <2>3
<1>2. ASSUME CallStop(t) PROVE Places'
  <2>1. LockInv'
    BY <1>2, WaitingLocks DEF CallStop, Lock, Locations
  <2>2. AttemptInv'
    BY <1>2 DEF CallStop, Lock, Calls, Goto, AttemptInv
  <2>3. SessionInv'
    BY <1>2 DEF CallStop, Lock, Calls, Goto, SessionInv
  <2> QED
    BY <2>1, <2>2, <2>3
<1>3. ASSUME CallGetInfo(t) PROVE Places'
  <2>1. LockInv'
    BY <1>3, WaitingLocks DEF CallGetInfo, Lock, Locations
  <2>2. AttemptInv'
    BY <1>3 DEF CallGetInfo, Lock, Calls, Goto, AttemptInv
  <2>3. SessionInv'
    BY <1>3 DEF CallGetInfo, Lock, Calls, Goto, SessionInv
  <2> QED
    BY <2>1, <2>2, <2>3
<1>4. ASSUME CallService(t) PROVE Places'
  <2>1. LockInv'
    BY <1>4, WaitingLocks DEF CallService, Lock, Locations
  <2>2. AttemptInv'
    BY <1>4, LifecycleAssumption DEF CallService, Lock, Calls, Goto, AttemptInv
  <2>3. SessionInv'
    BY <1>4 DEF CallService, Lock, Calls, Goto, SessionInv
  <2> QED
    BY <2>1, <2>2, <2>3
<1>5. ASSUME on_sdk_payment(t) PROVE Places'
  BY <1>5 DEF on_sdk_payment, Calls, Goto, LockInv, AttemptInv, SessionInv,
      Holds
<1>6. ASSUME on_relay_event(t) PROVE Places'
  BY <1>6 DEF on_relay_event, Calls, Goto, LockInv, AttemptInv, SessionInv,
      Holds
<1>7. ASSUME add_event_listener(t) \/ remove_event_listener(t) PROVE Places'
  BY <1>7 DEF add_event_listener, remove_event_listener, Calls, LockInv,
      AttemptInv, SessionInv, Holds
<1> QED
  BY <1>1, <1>2, <1>3, <1>4, <1>5, <1>6, <1>7 DEF CallStarts

LEMMA AttachPlaces ==
  ASSUME Base, NEW t \in Tasks, AttachStep(t)
  PROVE  Places'
<1> USE DEF Base, TypeOK, Places, Locked, Attaching, Started, taskVars,
        counters
<1>1. ASSUME AttachRefused(t) PROVE Places'
  BY <1>1 DEF AttachRefused, Return, Goto, Release, LockInv, AttemptInv,
      SessionInv, Holds
<1>2. ASSUME get_secret_key(t) PROVE Places'
  <2>1. LockInv'
    BY <1>2 DEF get_secret_key, Goto, LockInv, Holds
  <2>2. AttemptInv'
    BY <1>2 DEF get_secret_key, Goto, AttemptInv
  <2>3. SessionInv'
    <3>1. /\ pc[t] = "attach" /\ runtime = 0
          /\ \E l \in {"install", "set_seckey"} : pc' = [pc EXCEPT ![t] = l]
          /\ UNCHANGED <<at, loop, runtime, sessions>>
      BY <1>2 DEF get_secret_key, Goto, counters
    <3> QED
      BY <3>1 DEF Base, TypeOK, SessionInv, Attaching, Started
  <2> QED
    BY <2>1, <2>2, <2>3
<1>3. ASSUME set_seckey(t) PROVE Places'
  <2>1. LockInv'
    BY <1>3 DEF set_seckey, Return, Goto, Release, LockInv, Holds
  <2>2. AttemptInv'
    BY <1>3 DEF set_seckey, Return, Goto, AttemptInv
  <2>3. SessionInv'
    <3>1. CASE Return(t)
      BY <1>3, <3>1, SessionFrame
      DEF set_seckey, Return, Goto, counters, Base, TypeOK, Attaching, Started
    <3>2. CASE Goto(t, "install") /\ UNCHANGED at
      <4>1. /\ pc[t] = "set_seckey" /\ pc' = [pc EXCEPT ![t] = "install"]
            /\ UNCHANGED <<at, loop, runtime, sessions>>
        BY <1>3, <3>2 DEF set_seckey, Goto
      <4> QED
        BY <4>1 DEF Base, TypeOK, SessionInv, Attaching, Started
    <3> QED
      BY <1>3, <3>1, <3>2 DEF set_seckey
  <2> QED
    BY <2>1, <2>2, <2>3
<1>4. ASSUME InstallRuntime(t) PROVE Places'
  <2>1. LockInv'
    BY <1>4 DEF InstallRuntime, Goto, Release, LockInv, Holds
  <2>2. AttemptInv'
    BY <1>4 DEF InstallRuntime, Goto, AttemptInv
  <2>3. SessionInv'
    <3>1. /\ pc[t] = "install" /\ pc' = [pc EXCEPT ![t] = "on_init"]
          /\ loop' = [loop EXCEPT ![at[t]] = "attaching"]
          /\ at[t] \in Sessions
          /\ UNCHANGED <<at, sessions>>
      BY <1>4, PlaceTypes DEF InstallRuntime, Goto, counters, Attaching
    <3>2. \A u \in Tasks \ {t} : pc[u] \notin Locked
      BY <3>1 DEF Base, LockInv, Locked, Holds
    <3> QED
      <4> SUFFICES ASSUME NEW u \in Tasks PROVE SessionInv!(u)'
        BY DEF SessionInv
      <4> USE DEF Base, TypeOK, SessionInv, Attaching, Started, Locked
      <4>1. CASE u = t
        BY <3>1, <3>2, <4>1
      <4>2. CASE u # t
        BY <3>1, <3>2, <4>2
      <4> QED
        BY <4>1, <4>2
  <2> QED
    BY <2>1, <2>2, <2>3
<1>5. ASSUME AttachFails(t) PROVE Places'
  BY <1>5 DEF AttachFails, DropReceiver, Return, Goto, LockInv, AttemptInv,
      SessionInv, Holds
<1>6. ASSUME on_init(t) PROVE Places'
  BY <1>6 DEF on_init, Goto, LockInv, AttemptInv, SessionInv, Holds
<1>7. ASSUME AddSdkListener(t) PROVE Places'
  BY <1>7 DEF AddSdkListener, Goto, LockInv, AttemptInv, SessionInv, Holds
<1>8. ASSUME Connect(t) PROVE Places'
  BY <1>8 DEF Connect, Goto, LockInv, AttemptInv, SessionInv, Holds
<1>9. ASSUME on_connect(t) PROVE Places'
  BY <1>9 DEF on_connect, Goto, LockInv, AttemptInv, SessionInv, Holds
<1>10. ASSUME SpawnLoop(t) PROVE Places'
  <2>1. LockInv' /\ AttemptInv'
    BY <1>10 DEF SpawnLoop, DropReceiver, Return, Goto, LockInv, AttemptInv,
                 Holds
  <2>2. SessionInv'
    <3>1. /\ pc[t] \in Started /\ pc' = [pc EXCEPT ![t] = "idle"]
          /\ at' = [at EXCEPT ![t] = 0]
          /\ \A r \in Sessions \ {at[t]} : loop'[r] = loop[r]
          /\ UNCHANGED <<sessions, runtime>>
      BY <1>10 DEF SpawnLoop, DropReceiver, Return, Goto
    <3> SUFFICES ASSUME NEW u \in Tasks PROVE SessionInv!(u)'
      BY DEF SessionInv
    <3>2. CASE u = t
      BY <3>1, <3>2
    <3>3. CASE u # t
      <4>1. pc[u] \in Started => loop'[at[u]] = "attaching"
        BY <3>1, <3>3, PlaceTypes DEF SessionInv
      <4> QED
        BY <3>1, <3>3, <4>1 DEF SessionInv
    <3> QED
      BY <3>2, <3>3
  <2> QED
    BY <2>1, <2>2
<1> QED
  BY <1>1, <1>2, <1>3, <1>4, <1>5, <1>6, <1>7, <1>8, <1>9, <1>10 DEF AttachStep

LEMMA StopPlaces ==
  ASSUME Base, NEW t \in Tasks, StopStep(t)
  PROVE  Places'
<1> USE DEF Base, TypeOK, Places, Locked, Attaching, Started, taskVars,
        counters
<1>1. ASSUME StopGivesUp(t) PROVE Places'
  BY <1>1 DEF StopGivesUp, Return, Goto, Release, LockInv, AttemptInv,
      SessionInv, Holds
<1>2. ASSUME Shutdown(t) PROVE Places'
  BY <1>2 DEF Shutdown, Goto, LockInv, AttemptInv, SessionInv, Holds
<1>3. ASSUME RemoveSdkListener(t) PROVE Places'
  BY <1>3 DEF RemoveSdkListener, Goto, LockInv, AttemptInv, SessionInv, Holds
<1>4. ASSUME NotifyDisconnected(t) PROVE Places'
  BY <1>4 DEF NotifyDisconnected, Goto, LockInv, AttemptInv, SessionInv,
      Holds
<1>5. ASSUME ClearRuntime(t) PROVE Places'
  BY <1>5 DEF ClearRuntime, Return, Goto, Release, LockInv, AttemptInv,
      SessionInv, Holds
<1> QED
  BY <1>1, <1>2, <1>3, <1>4, <1>5 DEF StopStep

LEMMA ServicePlaces ==
  ASSUME Base, NEW t \in Tasks, ServiceStep(t)
  PROVE  Places'
<1> USE DEF Base, TypeOK, Places, Locked, Attaching, Started, taskVars,
        counters
<1>1. ASSUME get_info(t) PROVE Places'
  BY <1>1 DEF get_info, Return, Goto, Release, LockInv, AttemptInv,
      SessionInv, Holds
<1>2. ASSUME handlers(t) PROVE Places'
  <2>1. LockInv'
    BY <1>2 DEF handlers, Goto, Release, LockInv, Holds
  <2>2. AttemptInv'
    BY <1>2 DEF handlers, Goto, AttemptInv
  <2>3. SessionInv'
    <3>1. CASE runtime = 0
      BY <1>2, <3>1, SessionFrame
      DEF handlers, Goto, counters, Base, TypeOK, Attaching, Started
    <3>2. CASE runtime # 0
      <4>1. /\ at' = [at EXCEPT ![t] = runtime]
            /\ pc' = [pc EXCEPT ![t] = service[t]]
            /\ service[t] \in {"trigger", "reconnect"}
            /\ runtime \in Sessions
            /\ UNCHANGED <<loop, runtime, sessions>>
        BY <1>2, <3>2 DEF handlers, Goto, counters, Base, TypeOK, Sessions
      <4> QED
        BY <4>1 DEF Base, TypeOK, SessionInv, Attaching, Started
    <3> QED
      BY <3>1, <3>2
  <2> QED
    BY <2>1, <2>2, <2>3
<1>3. ASSUME Wake(t) PROVE Places'
  <2>1. LockInv'
    BY <1>3 DEF Wake, Return, Goto, Release, LockInv, Holds
  <2>2. AttemptInv'
    BY <1>3 DEF Wake, Return, Goto, AttemptInv
  <2>3. SessionInv'
    BY <1>3, SessionFrame
    DEF Wake, Return, Goto, counters, Base, TypeOK, Attaching, Started
  <2> QED
    BY <2>1, <2>2, <2>3
<1>4. ASSUME trigger_resubscription(t) PROVE Places'
  BY <1>4 DEF trigger_resubscription, Return, Goto, LockInv, AttemptInv,
      SessionInv, Holds
<1>5. ASSUME Reconnect(t) PROVE Places'
  BY <1>5 DEF Reconnect, Goto, LockInv, AttemptInv, SessionInv, Holds
<1>6. ASSUME forward_nwc_to_sdk(t) PROVE Places'
  <2>1. /\ pc[t] = "handle" /\ pc'[t] \in {"idle", "reply"}
        /\ pc'[t] = "idle" => attempt'[t] = 0
        /\ \A u \in Tasks \ {t} : /\ pc'[u] = pc[u] /\ at'[u] = at[u]
                                 /\ attempt'[u] = attempt[u]
        /\ UNCHANGED <<runtime, queue, loop, sessions>>
    BY <1>6 DEF forward_nwc_to_sdk, Return, Goto
  <2>2. LockInv' /\ AttemptInv'
    BY <2>1 DEF LockInv, AttemptInv, Holds
  <2>3. SessionInv'
    BY <2>1, SessionFrame
  <2> QED
    BY <2>2, <2>3
<1>7. ASSUME Reply(t) PROVE Places'
  BY <1>7 DEF Reply, Return, Goto, LockInv, AttemptInv, SessionInv, Holds
<1> QED
  BY <1>1, <1>2, <1>3, <1>4, <1>5, <1>6, <1>7 DEF ServiceStep

(* A loop that goes on is not the receiver of an attach.                   *)
LEMMA LoopFrame ==
  ASSUME Base, NEW s \in Sessions, loop[s] # "attaching",
         \A r \in Sessions \ {s} : loop'[r] = loop[r],
         UNCHANGED <<pc, at, sessions, runtime>>
  PROVE  SessionInv'
<1> SUFFICES ASSUME NEW u \in Tasks PROVE SessionInv!(u)'
  BY DEF SessionInv
<1>1. pc[u] \in Started => loop'[at[u]] = "attaching"
  BY PlaceTypes DEF Base, SessionInv, Attaching
<1> QED
  BY <1>1 DEF Base, SessionInv

LEMMA LoopPlaces ==
  ASSUME Base, NEW s \in Sessions, LoopStep(s)
  PROVE  Places'
<1> USE DEF Base, TypeOK, Places, Locked, Attaching, Started, taskVars,
        counters, loopUnchanged
<1>1. ASSUME on_resubscribe(s) PROVE Places'
  <2>1. LockInv' /\ AttemptInv'
    BY <1>1 DEF on_resubscribe, DropReceiver, LockInv, AttemptInv, Holds
  <2>2. SessionInv'
    BY <1>1, LoopFrame DEF on_resubscribe, DropReceiver
  <2> QED
    BY <2>1, <2>2
<1>2. ASSUME ReceiveAction(s) PROVE Places'
  <2>1. LockInv' /\ AttemptInv'
    BY <1>2 DEF ReceiveAction, DropReceiver, LockInv, AttemptInv, Holds
  <2>2. SessionInv'
    BY <1>2, LoopFrame DEF ReceiveAction, DropReceiver
  <2> QED
    BY <2>1, <2>2
<1>3. ASSUME on_interval(s) \/ IntervalOver(s) PROVE Places'
  <2>1. LockInv' /\ AttemptInv'
    BY <1>3 DEF on_interval, IntervalOver, LockInv, AttemptInv, Holds
  <2>2. SessionInv'
    BY <1>3, LoopFrame DEF on_interval, IntervalOver
  <2> QED
    BY <2>1, <2>2
<1> QED
  BY <1>1, <1>2, <1>3 DEF LoopStep

-----------------------------------------------------------------------------
LEMMA FlagsKept ==
  ASSUME unread \in BOOLEAN, Next PROVE unread' \in BOOLEAN
<1>1. ASSUME NEW t \in Tasks, CallStarts(t) PROVE UNCHANGED unread
  BY <1>1
  DEF CallStarts, CallAttach, CallStop, CallGetInfo, CallService, Lock,
      on_sdk_payment, on_relay_event, add_event_listener,
      remove_event_listener, keyVars
<1>2. ASSUME NEW t \in Tasks, AttachStep(t) PROVE unread' \in BOOLEAN
  <2>1. CASE get_secret_key(t)
    BY <2>1 DEF get_secret_key, keyVars
  <2>2. CASE ~ get_secret_key(t)
    BY <1>2, <2>2
    DEF AttachStep, AttachRefused, set_seckey, InstallRuntime, AttachFails,
        on_init, AddSdkListener, Connect, on_connect, SpawnLoop, keyVars
  <2> QED
    BY <2>1, <2>2
<1>3. ASSUME NEW t \in Tasks, StopStep(t) PROVE UNCHANGED unread
  BY <1>3
  DEF StopStep, StopGivesUp, Shutdown, RemoveSdkListener, NotifyDisconnected,
      ClearRuntime, keyVars
<1>4. ASSUME NEW t \in Tasks, ServiceStep(t) PROVE UNCHANGED unread
  BY <1>4
  DEF ServiceStep, get_info, handlers, Wake, trigger_resubscription,
      Reconnect, forward_nwc_to_sdk, Reply, keyVars
<1>5. ASSUME NEW s \in Sessions, LoopStep(s) PROVE UNCHANGED unread
  BY <1>5 DEF LoopStep, on_resubscribe, ReceiveAction, on_interval,
         IntervalOver, loopUnchanged, keyVars
<1> QED
  BY <1>1, <1>2, <1>3, <1>4, <1>5
  DEF Next, TaskStep, NotifyStep, BeginReading, ListenerReturns, keyVars

BaseVars == <<runtime, queue, taskVars, chan, loop, clientVars, keyVars,
              overtaken, counters>>

LEMMA BaseFrame ==
  ASSUME Base, ManagerTypeOK', UNCHANGED BaseVars,
         believes' \in [Listeners -> SUBSET (0 .. MaxSessions)]
  PROVE  Base'
<1> USE DEF Base, BaseVars, taskVars, clientVars, keyVars, historyVars,
            counters
<1>1. TypeOK'
  BY DEF TypeOK
<1>2. LockInv' /\ AttemptInv' /\ SessionInv'
  BY DEF LockInv, Holds, AttemptInv, SessionInv
<1> QED
  BY <1>1, <1>2

LEMMA BasePreserved ==
  ASSUME Base, ManagerInv, Next \/ UNCHANGED vars
  PROVE  Base' /\ ManagerInv'
<1>1. ManagerInv'
  BY ManagerPreserved
<1>2. ASSUME UNCHANGED vars PROVE Base'
  BY <1>1, <1>2, BaseFrame
  DEF vars, BaseVars, historyVars, ManagerInv, Base, TypeOK
<1>3. ASSUME Next PROVE Base'
  <2>1. Flags'
    BY <1>1, <1>3, FlagsKept DEF Flags, ManagerInv, Base, TypeOK
  <2>2. ASSUME NEW n \in Notifiers, NotifyStep(n) PROVE Base'
    <3>1. UNCHANGED BaseVars
      BY <2>2
      DEF NotifyStep, BeginReading, ListenerReturns, BaseVars, historyVars
    <3>2. believes' \in [Listeners -> SUBSET (0 .. MaxSessions)]
      <4>1. CASE BeginReading(n)
        BY <4>1 DEF BeginReading, historyVars, Base, TypeOK
      <4>2. CASE ListenerReturns(n)
        <5>1. PICK l \in Listeners :
                believes' = [believes EXCEPT ![l] =
                  IF At(n, "send_info") THEN @ \cup {at[n]}
                  ELSE IF At(n, "pause") THEN @ \ {runtime} ELSE @]
          BY <4>2 DEF ListenerReturns
        <5>2. At(n, "send_info") => at[n] \in 0 .. MaxSessions
          BY DEF At, Base, TypeOK
        <5> QED
          BY <5>1, <5>2 DEF Base, TypeOK
      <4> QED
        BY <2>2, <4>1, <4>2 DEF NotifyStep
    <3> QED
      BY <1>1, <3>1, <3>2, BaseFrame DEF ManagerInv
  <2> QED
    BY <1>3, <2>1, <2>2, CallTypes, AttachTypes, StopTypes, ServiceTypes,
       LoopTypes, CallPlaces, AttachPlaces, StopPlaces, ServicePlaces,
       LoopPlaces
    DEF Next, TaskStep, Base, Places
<1> QED
  BY <1>1, <1>2, <1>3

(* Every variable keeps its type.                                          *)
THEOREM LifecycleTypes == Spec => []TypeOK
<1>1. Base /\ ManagerInv /\ [Next]_vars => Base' /\ ManagerInv'
  BY BasePreserved
<1> QED
  BY <1>1, InitBase, PTL DEF Spec, Base

(* A listener that has been removed is not called again.                   *)
THEOREM RemovedStaysSilent == Spec => []RemovedHearsNothing
<1>1. Base /\ ManagerInv /\ [Next]_vars => Base' /\ ManagerInv'
  BY BasePreserved
<1> QED
  BY <1>1, InitBase, PTL DEF Spec, ManagerInv

-----------------------------------------------------------------------------
(* The steps that read, store or install a key, and what all others keep.  *)
KeyStep(t) == get_secret_key(t) \/ set_seckey(t) \/ InstallRuntime(t)

KeyKept ==
  /\ UNCHANGED keyVars
  /\ \A u \in Tasks :
       pc'[u] \in {"set_seckey", "install"} => pc'[u] = pc[u] /\ at'[u] = at[u]
  /\ \A r \in Sessions : Attached(r)' = Attached(r)

LEMMA KeyFrame ==
  ASSUME Base, Next, \A t \in Tasks : ~ KeyStep(t) PROVE KeyKept
<1> USE DEF Base, TypeOK, taskVars, KeyKept, Attached
<1>1. ASSUME NEW t \in Tasks, CallStarts(t) PROVE KeyKept
  BY <1>1
  DEF CallStarts, CallAttach, CallStop, CallGetInfo, CallService, Lock, Goto,
      Calls, on_sdk_payment, on_relay_event, add_event_listener,
      remove_event_listener
<1>2. ASSUME NEW t \in Tasks, AttachStep(t), ~ KeyStep(t) PROVE KeyKept
  <2>1. CASE AttachRefused(t)
    BY <2>1 DEF AttachRefused, Return, Goto
  <2>2. CASE AttachFails(t) \/ SpawnLoop(t)
    <3>1. loop[at[t]] = "attaching" /\ at[t] \in Sessions
      BY <2>2, PlaceTypes
      DEF AttachFails, SpawnLoop, SessionInv, Started, Attaching
    <3>2. /\ UNCHANGED keyVars
          /\ pc' = [pc EXCEPT ![t] = "idle"] /\ at' = [at EXCEPT ![t] = 0]
          /\ \E l \in {"resubscribe", "gone"} :
               loop' = [loop EXCEPT ![at[t]] = l]
      BY <2>2 DEF AttachFails, SpawnLoop, DropReceiver, Return, Goto
    <3> QED
      BY <3>1, <3>2
  <2>3. CASE on_init(t) \/ AddSdkListener(t) \/ Connect(t) \/ on_connect(t)
    BY <2>3 DEF on_init, AddSdkListener, Connect, on_connect, Goto
  <2> QED
    BY <1>2, <2>1, <2>2, <2>3 DEF AttachStep, KeyStep
<1>3. ASSUME NEW t \in Tasks, StopStep(t) PROVE KeyKept
  BY <1>3
  DEF StopStep, StopGivesUp, Shutdown, RemoveSdkListener, NotifyDisconnected,
      ClearRuntime, Return, Goto
<1>4. ASSUME NEW t \in Tasks, ServiceStep(t) PROVE KeyKept
  BY <1>4
  DEF ServiceStep, get_info, handlers, Wake, trigger_resubscription,
      Reconnect, forward_nwc_to_sdk, Reply, Return, Goto
<1>5. ASSUME NEW s \in Sessions, LoopStep(s) PROVE KeyKept
  <2>1. loop[s] # "none" /\ UNCHANGED <<pc, at, keyVars>>
    BY <1>5 DEF LoopStep, on_resubscribe, ReceiveAction, on_interval,
         IntervalOver, loopUnchanged
  <2>2. \E l \in {"resubscribe", "select", "notify", "gone"} :
          loop' = [loop EXCEPT ![s] = l]
    BY <1>5 DEF LoopStep, on_resubscribe, ReceiveAction, on_interval,
         IntervalOver, DropReceiver
  <2> QED
    BY <2>1, <2>2
<1>6. ASSUME NEW n \in Notifiers, NotifyStep(n) PROVE KeyKept
  BY <1>6 DEF NotifyStep, BeginReading, ListenerReturns
<1> QED
  BY <1>1, <1>2, <1>3, <1>4, <1>5, <1>6 DEF Next, TaskStep

LEMMA KeyPreserved ==
  ASSUME Base, KeyInv, Next \/ UNCHANGED vars PROVE KeyInv'
<1>1. ASSUME KeyKept PROVE KeyInv'
  BY <1>1 DEF KeyInv, KeyKept, keyVars
<1>2. ASSUME UNCHANGED vars PROVE KeyInv'
  BY <1>2 DEF vars, KeyInv, keyVars, taskVars, Attached
<1>3. ASSUME NEW t \in Tasks, get_secret_key(t) PROVE KeyInv'
  <2>1. /\ at[t] \in Sessions /\ pc[t] = "attach"
        /\ \A u \in Tasks : u # t => pc[u] \notin Locked
        /\ UNCHANGED <<at, loop, stored_key>>
    BY <1>3, PlaceTypes
    DEF get_secret_key, Attaching, Base, LockInv, Locked, Holds
  <2>2. CASE /\ ConfiguredKey \/ stored_key # 0
             /\ our_keys' = [our_keys EXCEPT ![at[t]] =
                               IF ConfiguredKey THEN 0 ELSE stored_key]
             /\ pc' = [pc EXCEPT ![t] = "install"]
             /\ UNCHANGED unread
    BY <2>1, <2>2 DEF Base, TypeOK, KeyInv, Attached, Locked
  <2>3. CASE /\ ~ ConfiguredKey
             /\ pc' = [pc EXCEPT ![t] = "set_seckey"]
             /\ UNCHANGED our_keys
             /\ \/ stored_key = 0 /\ UNCHANGED unread
                \/ unread' = (unread \/ stored_key # 0)
    <3>1. ~ unread' => ~ unread /\ stored_key = 0
      BY <2>3
    <3> QED
      BY <2>1, <2>3, <3>1 DEF Base, TypeOK, KeyInv, Attached, Locked
  <2> QED
    BY <1>3, <2>2, <2>3 DEF get_secret_key, Goto
<1>4. ASSUME NEW t \in Tasks, set_seckey(t) PROVE KeyInv'
  <2>1. /\ at[t] \in Sessions /\ pc[t] = "set_seckey"
        /\ \A u \in Tasks : u # t => pc[u] \notin Locked
        /\ UNCHANGED <<loop, unread>>
    BY <1>4, PlaceTypes
    DEF set_seckey, Attaching, Base, LockInv, Locked, Holds
  <2>2. CASE /\ stored_key' = at[t]
             /\ our_keys' = [our_keys EXCEPT ![at[t]] = at[t]]
             /\ pc' = [pc EXCEPT ![t] = "install"]
             /\ UNCHANGED at
    BY <2>1, <2>2 DEF Base, TypeOK, KeyInv, Attached, Locked, Sessions
  <2>3. CASE /\ pc' = [pc EXCEPT ![t] = "idle"]
             /\ UNCHANGED <<stored_key, our_keys>>
    BY <2>1, <2>3 DEF Base, TypeOK, KeyInv, Attached, Locked
  <2> QED
    BY <1>4, <2>2, <2>3 DEF set_seckey, Goto, Return
<1>5. ASSUME NEW t \in Tasks, InstallRuntime(t) PROVE KeyInv'
  <2>1. /\ at[t] \in Sessions /\ pc[t] = "install"
        /\ pc' = [pc EXCEPT ![t] = "on_init"]
        /\ loop' = [loop EXCEPT ![at[t]] = "attaching"]
        /\ UNCHANGED <<at, keyVars>>
    BY <1>5, PlaceTypes DEF InstallRuntime, Goto, Attaching
  <2> QED
    BY <2>1 DEF Base, TypeOK, KeyInv, Attached, keyVars
<1> QED
  BY <1>1, <1>2, <1>3, <1>4, <1>5, KeyFrame DEF KeyStep

LEMMA InitKey == Init => KeyInv
  BY DEF Init, KeyInv, Attached

(* The sessions of a wallet have one key between them, as long as the      *)
(* stored one could be read.                                               *)
THEOREM KeyIsKept == Spec => []WalletKeyKept
<1>1. Base /\ ManagerInv /\ KeyInv /\ [Next]_vars
        => Base' /\ ManagerInv' /\ KeyInv'
  BY BasePreserved, KeyPreserved
<1>2. KeyInv => WalletKeyKept
  BY DEF KeyInv, WalletKeyKept
<1> QED
  BY <1>1, <1>2, InitBase, InitKey, PTL DEF Spec

-----------------------------------------------------------------------------
(* What no step does to a runtime whose receiver is gone.                  *)
DeafKept ==
  /\ runtime' = runtime
  /\ loop'[runtime] = loop[runtime]
  /\ \A t \in Tasks : pc'[t] \in {"clear", "notify", "pause"} =>
                        pc[t] \in {"clear", "notify", "pause"}

LEMMA DeafStep ==
  ASSUME Base, Next, runtime # 0, ~ HasReceiver(runtime), ~ Clearing
  PROVE  DeafKept
<1> USE DEF Base, TypeOK, taskVars, DeafKept, HasReceiver, Clearing
<1>1. ASSUME NEW t \in Tasks, CallStarts(t) PROVE DeafKept
  BY <1>1
  DEF CallStarts, CallAttach, CallStop, CallGetInfo, CallService, Lock, Goto,
      Calls, on_sdk_payment, on_relay_event, add_event_listener,
      remove_event_listener
<1>2. ASSUME NEW t \in Tasks, AttachStep(t) PROVE DeafKept
  <2>1. CASE AttachRefused(t) \/ get_secret_key(t) \/ set_seckey(t)
    BY <2>1 DEF AttachRefused, get_secret_key, set_seckey, Return, Goto
  <2>2. CASE InstallRuntime(t)
    BY <2>2 DEF InstallRuntime, SessionInv
  <2>3. CASE AttachFails(t) \/ SpawnLoop(t)
    <3>1. loop[at[t]] = "attaching"
      BY <2>3 DEF AttachFails, SpawnLoop, SessionInv, Started
    <3>2. /\ runtime' = runtime
          /\ pc' = [pc EXCEPT ![t] = "idle"]
          /\ \E l \in {"resubscribe", "gone"} :
               loop' = [loop EXCEPT ![at[t]] = l]
      BY <2>3 DEF AttachFails, SpawnLoop, DropReceiver, Return, Goto
    <3> QED
      BY <3>1, <3>2
  <2>4. CASE on_init(t) \/ AddSdkListener(t) \/ Connect(t) \/ on_connect(t)
    BY <2>4 DEF on_init, AddSdkListener, Connect, on_connect, Goto
  <2> QED
    BY <1>2, <2>1, <2>2, <2>3, <2>4 DEF AttachStep
<1>3. ASSUME NEW t \in Tasks, StopStep(t) PROVE DeafKept
  BY <1>3
  DEF StopStep, StopGivesUp, Shutdown, HasRoom, RemoveSdkListener,
      NotifyDisconnected, ClearRuntime, Return, Goto
<1>4. ASSUME NEW t \in Tasks, ServiceStep(t) PROVE DeafKept
  BY <1>4
  DEF ServiceStep, get_info, handlers, Wake, trigger_resubscription,
      Reconnect, forward_nwc_to_sdk, Reply, Return, Goto
<1>5. ASSUME NEW s \in Sessions, LoopStep(s) PROVE DeafKept
  <2>1. s # runtime /\ UNCHANGED <<pc, runtime>>
    BY <1>5 DEF LoopStep, on_resubscribe, ReceiveAction, on_interval,
         IntervalOver, loopUnchanged
  <2>2. \E l \in {"resubscribe", "select", "notify", "gone"} :
          loop' = [loop EXCEPT ![s] = l]
    BY <1>5 DEF LoopStep, on_resubscribe, ReceiveAction, on_interval,
         IntervalOver, DropReceiver
  <2> QED
    BY <2>1, <2>2
<1>6. ASSUME NEW n \in Notifiers, NotifyStep(n) PROVE DeafKept
  BY <1>6 DEF NotifyStep, BeginReading, ListenerReturns
<1> QED
  BY <1>1, <1>2, <1>3, <1>4, <1>5, <1>6 DEF Next, TaskStep

(* A runtime without a loop is there for good.                             *)
THEOREM DeafForEver == Spec => DeafRuntimeStays
<1>1. Base /\ ManagerInv /\ [Next]_vars => Base' /\ ManagerInv'
  BY BasePreserved
<1>2. Base /\ [Next]_vars =>
        [runtime # 0 /\ ~ HasReceiver(runtime) /\ ~ Clearing =>
           runtime' = runtime /\ ~ HasReceiver(runtime)' /\ ~ Clearing']_vars
  BY DeafStep DEF DeafKept, HasReceiver, Clearing
<1> QED
  BY <1>1, <1>2, InitBase, PTL DEF Spec, DeafRuntimeStays

-----------------------------------------------------------------------------
(* What a stop leaves behind, one lemma for each group of actions.         *)
LEMMA AppendKeeps ==
  ASSUME NEW S, NEW q \in Seq(S), NEW x \in S, NEW y, y = x \/ y \in Range(q)
  PROVE  y \in Range(Append(q, x))
<1>1. CASE y = x
  <2>1. Append(q, x)[Len(q) + 1] = y /\ Len(q) + 1 \in DOMAIN Append(q, x)
    BY <1>1
  <2> QED
    BY <2>1 DEF Range
<1>2. CASE y \in Range(q)
  <2>1. PICK i \in 1 .. Len(q) : q[i] = y
    BY <1>2 DEF Range
  <2>2. Append(q, x)[i] = y /\ i \in DOMAIN Append(q, x)
    BY <2>1
  <2> QED
    BY <2>2 DEF Range
<1> QED
  BY <1>1, <1>2

LEMMA TailKeeps ==
  ASSUME NEW S, NEW q \in Seq(S), NEW y, q # <<>>, Head(q) # y, y \in Range(q)
  PROVE  y \in Range(Tail(q))
<1>1. PICK i \in 1 .. Len(q) : q[i] = y
  BY DEF Range
<1>2. i # 1
  BY <1>1
<1>3. i - 1 \in DOMAIN Tail(q) /\ Tail(q)[i - 1] = y
  BY <1>1, <1>2
<1> QED
  BY <1>3 DEF Range

(* Whoever holds the mutex is the only one at a location that needs it.    *)
LEMMA AloneInside ==
  ASSUME Base, NEW t \in Tasks, Holds(t) \/ pc[t] \in Locked
  PROVE  \A u \in Tasks : u # t => pc[u] \notin Locked
  BY DEF Base, LockInv, Holds

(* A task that handles an event, and does not reconnect, is of no account. *)
LEMMA AsideStop ==
  ASSUME Base, StopInv, NEW t \in Tasks,
         pc[t] \in {"idle", "handle", "reply"},
         pc'[t] \in {"idle", "handle", "reply"},
         \A u \in Tasks \ {t} : pc'[u] = pc[u] /\ at'[u] = at[u],
         UNCHANGED <<runtime, chan, loop, clientVars, historyVars, is_paused>>
  PROVE  StopInv'
<1> USE DEF StopInv, clientVars, historyVars
<1>1. Clearing' = Clearing
  BY DEF Clearing
<1>2. OvertakenInv'
  BY <1>1 DEF OvertakenInv, UnderWay
<1>3. ListenerInv' /\ PausedInv'
  <2>1. \A u \in Tasks : pc[u] \in {"set_id", "on_init"} =>
                            pc'[u] = pc[u] /\ at'[u] = at[u]
    OBVIOUS
  <2> QED
    BY <2>1 DEF ListenerInv, PausedInv
<1>4. LeftInv'
  <2>1. (\E u \in Tasks : pc'[u] \in {"notify", "pause"}) =>
          \E u \in Tasks : pc[u] \in {"notify", "pause"}
    OBVIOUS
  <2> QED
    BY <1>1, <2>1 DEF LeftInv, HasReceiver
<1> QED
  BY <1>2, <1>3, <1>4

LEMMA CallsStop ==
  ASSUME Base, StopInv, NEW t \in Tasks, CallStarts(t)
  PROVE  StopInv'
<1> USE DEF Base, TypeOK, StopInv, taskVars, clientVars, historyVars,
            counters, Clearing, Goto
<1>1. ASSUME CallAttach(t) PROVE StopInv'
  BY <1>1 DEF CallAttach, Lock, Calls, OvertakenInv, ListenerInv, LeftInv,
              PausedInv, UnderWay, Clearing, LockInv, Holds, SessionInv,
              HasReceiver, Attached, Pause, managerVars, Notify, add, remove,
              ManagerTypeOK, Locked, Attaching, Started
<1>2. ASSUME CallStop(t) PROVE StopInv'
  BY <1>2 DEF CallStop, Lock, Calls, OvertakenInv, ListenerInv, LeftInv,
              PausedInv, UnderWay, Clearing, LockInv, Holds, SessionInv,
              HasReceiver, Attached, Pause, managerVars, Notify, add, remove,
              ManagerTypeOK, Locked, Attaching, Started
<1>3. ASSUME CallGetInfo(t) PROVE StopInv'
  BY <1>3 DEF CallGetInfo, Lock, Calls, OvertakenInv, ListenerInv, LeftInv,
              PausedInv, UnderWay, Clearing, LockInv, Holds, SessionInv,
              HasReceiver, Attached, Pause, managerVars, Notify, add, remove,
              ManagerTypeOK, Locked, Attaching, Started
<1>4. ASSUME CallService(t) PROVE StopInv'
  BY <1>4 DEF CallService, Lock, Calls, OvertakenInv, ListenerInv, LeftInv,
              PausedInv, UnderWay, Clearing, LockInv, Holds, SessionInv,
              HasReceiver, Attached, Pause, managerVars, Notify, add, remove,
              ManagerTypeOK, Locked, Attaching, Started
<1>5. ASSUME on_sdk_payment(t) PROVE StopInv'
  <2>1. OvertakenInv'
    <3>1. PICK s \in sdk_listeners :
            /\ at' = [at EXCEPT ![t] = s]
            /\ overtaken' = IF Clearing THEN overtaken \cup {s} ELSE overtaken
      BY <1>5 DEF on_sdk_payment
    <3>2. /\ pc[t] = "idle" /\ pc' = [pc EXCEPT ![t] = "reconnect"]
          /\ runtime' = runtime
      BY <1>5 DEF on_sdk_payment, Calls
    <3>3. s # runtime => s \in overtaken
      BY DEF LeftInv
    <3> QED
      BY <3>1, <3>2, <3>3 DEF OvertakenInv, UnderWay
  <2>2. ListenerInv'
    BY <1>5 DEF on_sdk_payment, Calls, ListenerInv, UnderWay, LockInv, Holds,
                SessionInv, Locked, Attaching, Started
  <2>3. LeftInv'
    BY <1>5 DEF on_sdk_payment, Calls, LeftInv, UnderWay, LockInv, Holds,
                SessionInv, Locked, Attaching, Started, HasReceiver
  <2>4. PausedInv'
    BY <1>5 DEF on_sdk_payment, Calls, PausedInv, UnderWay, LockInv, Holds,
                SessionInv, Locked, Attaching, Started, Pause, managerVars,
                Notify, add, remove, ManagerTypeOK
  <2> QED
    BY <2>1, <2>2, <2>3, <2>4
<1>6. ASSUME on_relay_event(t) PROVE StopInv'
  <2>1. /\ pc[t] = "idle" /\ pc'[t] = "handle"
        /\ \A u \in Tasks \ {t} : pc'[u] = pc[u] /\ at'[u] = at[u]
        /\ UNCHANGED <<runtime, chan, loop, clientVars, historyVars,
                       is_paused>>
    BY <1>6 DEF on_relay_event, Calls, managerVars
  <2> QED
    BY <2>1, AsideStop
<1>7. ASSUME add_event_listener(t) \/ remove_event_listener(t) PROVE StopInv'
  BY <1>7 DEF add_event_listener, remove_event_listener, add, remove,
              OvertakenInv, ListenerInv, LeftInv, PausedInv, UnderWay,
              HasReceiver
<1> QED
  BY <1>1, <1>2, <1>3, <1>4, <1>5, <1>6, <1>7 DEF CallStarts

LEMMA AttachStop ==
  ASSUME Base, StopInv, NEW t \in Tasks, AttachStep(t)
  PROVE  StopInv'
<1> USE DEF Base, TypeOK, StopInv, taskVars, clientVars, historyVars,
            counters, Clearing, Goto
<1>1. ASSUME AttachRefused(t) PROVE StopInv'
  BY <1>1 DEF AttachRefused, Return, OvertakenInv, ListenerInv, LeftInv,
              PausedInv, UnderWay, Clearing, LockInv, Holds, SessionInv,
              HasReceiver, Attached, Pause, managerVars, Notify, add, remove,
              ManagerTypeOK, Locked, Attaching, Started
<1>2. ASSUME get_secret_key(t) PROVE StopInv'
  BY <1>2 DEF get_secret_key, OvertakenInv, ListenerInv, LeftInv, PausedInv,
              UnderWay, Clearing, LockInv, Holds, SessionInv, HasReceiver,
              Attached, Pause, managerVars, Notify, add, remove, ManagerTypeOK,
              Locked, Attaching, Started
<1>3. ASSUME set_seckey(t) PROVE StopInv'
  <2>1. OvertakenInv'
    BY <1>3 DEF set_seckey, Return, OvertakenInv, UnderWay, LockInv, Holds,
                SessionInv, Locked, Attaching, Started
  <2>2. ListenerInv'
    BY <1>3 DEF set_seckey, Return, ListenerInv, UnderWay, LockInv, Holds,
                SessionInv, Locked, Attaching, Started
  <2>3. LeftInv'
    BY <1>3 DEF set_seckey, Return, LeftInv, UnderWay, LockInv, Holds,
                SessionInv, Locked, Attaching, Started, HasReceiver
  <2>4. PausedInv'
    BY <1>3 DEF set_seckey, Return, PausedInv, UnderWay, LockInv, Holds,
                SessionInv, Locked, Attaching, Started, Pause, managerVars,
                Notify, add, remove, ManagerTypeOK
  <2> QED
    BY <2>1, <2>2, <2>3, <2>4
<1>4. ASSUME InstallRuntime(t) PROVE StopInv'
  <2>1. /\ pc[t] = "install" /\ pc' = [pc EXCEPT ![t] = "on_init"]
        /\ runtime = 0 /\ runtime' = at[t]
        /\ loop' = [loop EXCEPT ![at[t]] = "attaching"]
        /\ at[t] \in Sessions
        /\ UNCHANGED <<at, chan, clientVars, historyVars>>
    BY <1>4, PlaceTypes DEF InstallRuntime, SessionInv, Attaching
  <2>2. ~ Clearing /\ ~ Clearing'
    BY <2>1, AloneInside DEF Locked
  <2>3. OvertakenInv'
    <3> SUFFICES ASSUME NEW u \in Tasks, UnderWay(u)', runtime' # at'[u]
                 PROVE  at'[u] \in overtaken'
      BY <2>2 DEF OvertakenInv
    <3>1. u # t /\ UnderWay(u) /\ at'[u] = at[u]
      BY <2>1 DEF UnderWay
    <3>2. at[u] \in Sessions
      BY <3>1, PlaceTypes DEF UnderWay, Attaching, Started
    <3> QED
      BY <2>1, <3>1, <3>2 DEF OvertakenInv, Sessions
  <2>4. ListenerInv'
    BY <2>1 DEF ListenerInv
  <2>5. LeftInv'
    BY <2>1, <2>2 DEF LeftInv, HasReceiver, Sessions
  <2>6. PausedInv'
    BY <2>1 DEF PausedInv
  <2> QED
    BY <2>3, <2>4, <2>5, <2>6
<1>5. ASSUME AttachFails(t) PROVE StopInv'
  BY <1>5 DEF AttachFails, DropReceiver, Return, OvertakenInv, ListenerInv,
              LeftInv, PausedInv, UnderWay, Clearing, LockInv, Holds,
              SessionInv, HasReceiver, Attached, Pause, managerVars, Notify,
              add, remove, ManagerTypeOK, Locked, Attaching, Started
<1>6. ASSUME on_init(t) PROVE StopInv'
  BY <1>6 DEF on_init, OvertakenInv, ListenerInv, LeftInv, PausedInv, UnderWay,
              Clearing, LockInv, Holds, SessionInv, HasReceiver, Attached,
              Pause, managerVars, Notify, add, remove, ManagerTypeOK, Locked,
              Attaching, Started
<1>7. ASSUME AddSdkListener(t) PROVE StopInv'
  <2>1. LeftInv'
    <3>1. at[t] \notin overtaken => at[t] = runtime /\ ~ Clearing
      BY <1>7 DEF AddSdkListener, OvertakenInv, UnderWay
    <3> QED
      BY <1>7, <3>1 DEF AddSdkListener, LeftInv, HasReceiver
  <2>2. OvertakenInv'
    BY <1>7 DEF AddSdkListener, OvertakenInv, UnderWay, LockInv, Holds,
                SessionInv, Locked, Attaching, Started
  <2>3. ListenerInv'
    BY <1>7 DEF AddSdkListener, ListenerInv, UnderWay, LockInv, Holds,
                SessionInv, Locked, Attaching, Started
  <2>4. PausedInv'
    BY <1>7 DEF AddSdkListener, PausedInv, UnderWay, LockInv, Holds,
                SessionInv, Locked, Attaching, Started, Pause, managerVars,
                Notify, add, remove, ManagerTypeOK
  <2> QED
    BY <2>1, <2>2, <2>3, <2>4
<1>8. ASSUME Connect(t) PROVE StopInv'
  BY <1>8 DEF Connect, OvertakenInv, ListenerInv, LeftInv, PausedInv, UnderWay,
              Clearing, LockInv, Holds, SessionInv, HasReceiver, Attached,
              Pause, managerVars, Notify, add, remove, ManagerTypeOK, Locked,
              Attaching, Started
<1>9. ASSUME on_connect(t) PROVE StopInv'
  BY <1>9 DEF on_connect, OvertakenInv, ListenerInv, LeftInv, PausedInv,
              UnderWay, Clearing, LockInv, Holds, SessionInv, HasReceiver,
              Attached, Pause, managerVars, Notify, add, remove, ManagerTypeOK,
              Locked, Attaching, Started
<1>10. ASSUME SpawnLoop(t) PROVE StopInv'
  BY <1>10 DEF SpawnLoop, DropReceiver, Return, OvertakenInv, ListenerInv,
               LeftInv, PausedInv, UnderWay, Clearing, LockInv, Holds,
               SessionInv, HasReceiver, Attached, Pause, managerVars, Notify,
               add, remove, ManagerTypeOK, Locked, Attaching, Started
<1> QED
  BY <1>1, <1>2, <1>3, <1>4, <1>5, <1>6, <1>7, <1>8, <1>9, <1>10 DEF
    AttachStep

LEMMA StopStop ==
  ASSUME Base, StopInv, NEW t \in Tasks, StopStep(t)
  PROVE  StopInv'
<1> USE DEF Base, TypeOK, StopInv, taskVars, clientVars, historyVars,
            counters, Clearing, Goto
<1>1. ASSUME StopGivesUp(t) PROVE StopInv'
  BY <1>1 DEF StopGivesUp, Return, OvertakenInv, ListenerInv, LeftInv,
              PausedInv, UnderWay, Clearing, LockInv, Holds, SessionInv,
              HasReceiver, Attached, Pause, managerVars, Notify, add, remove,
              ManagerTypeOK, Locked, Attaching, Started
<1>2. ASSUME Shutdown(t) PROVE StopInv'
  <2>1. LeftInv'
    <3>1. /\ runtime \in Sessions /\ runtime' = runtime
          /\ chan' = [chan EXCEPT ![runtime] = Append(@, "Shutdown")]
          /\ connected' = connected \ {runtime}
          /\ overtaken \subseteq overtaken'
          /\ pc[t] = "stop" /\ pc' = [pc EXCEPT ![t] = "clear"]
          /\ UNCHANGED <<loop, sdk_listeners>>
      BY <1>2 DEF Shutdown, Sessions
    <3>2. "Shutdown" \in Range(chan'[runtime])
      <4>1. /\ chan[runtime] \in Seq(ContextActions)
            /\ chan'[runtime] = Append(chan[runtime], "Shutdown")
            /\ "Shutdown" \in ContextActions
        BY <3>1 DEF ContextActions
      <4> QED
        BY <4>1, AppendKeeps
    <3>3. ~ Clearing
      BY <1>2, AloneInside DEF Shutdown, Locked
    <3> QED
      BY <3>1, <3>2, <3>3 DEF LeftInv, HasReceiver
  <2>2. OvertakenInv'
    BY <1>2 DEF Shutdown, HasRoom, HasReceiver, OvertakenInv, UnderWay,
                LockInv, Holds, SessionInv, Locked, Attaching, Started
  <2>3. ListenerInv'
    BY <1>2 DEF Shutdown, HasRoom, HasReceiver, ListenerInv, UnderWay,
                LockInv, Holds, SessionInv, Locked, Attaching, Started
  <2>4. PausedInv'
    BY <1>2 DEF Shutdown, HasRoom, HasReceiver, PausedInv, UnderWay, LockInv,
                Holds, SessionInv, Locked, Attaching, Started, Pause,
                managerVars, Notify, add, remove, ManagerTypeOK
  <2> QED
    BY <2>1, <2>2, <2>3, <2>4
<1>3. ASSUME RemoveSdkListener(t) PROVE StopInv'
  BY <1>3 DEF RemoveSdkListener, OvertakenInv, ListenerInv, LeftInv, PausedInv,
              UnderWay, Clearing, LockInv, Holds, SessionInv, HasReceiver,
              Attached, Pause, managerVars, Notify, add, remove, ManagerTypeOK,
              Locked, Attaching, Started
<1>4. ASSUME NotifyDisconnected(t) PROVE StopInv'
  <2>2. OvertakenInv'
    BY <1>4 DEF NotifyDisconnected, OvertakenInv, UnderWay, LockInv, Holds,
                SessionInv, Locked, Attaching, Started
  <2>3. ListenerInv'
    BY <1>4 DEF NotifyDisconnected, ListenerInv, UnderWay, LockInv, Holds,
                SessionInv, Locked, Attaching, Started
  <2>4. LeftInv'
    BY <1>4 DEF NotifyDisconnected, LeftInv, UnderWay, LockInv, Holds,
                SessionInv, Locked, Attaching, Started, HasReceiver
  <2>5. PausedInv'
    BY <1>4 DEF NotifyDisconnected, PausedInv, UnderWay, LockInv, Holds,
                SessionInv, Locked, Attaching, Started, Pause, managerVars,
                Notify, add, remove, ManagerTypeOK
  <2> QED
    BY <2>2, <2>3, <2>4, <2>5
<1>5. ASSUME ClearRuntime(t) PROVE StopInv'
  BY <1>5 DEF ClearRuntime, Return, OvertakenInv, ListenerInv, LeftInv,
              PausedInv, UnderWay, Clearing, LockInv, Holds, SessionInv,
              HasReceiver, Attached, Pause, managerVars, Notify, add, remove,
              ManagerTypeOK, Locked, Attaching, Started
<1> QED
  BY <1>1, <1>2, <1>3, <1>4, <1>5 DEF StopStep

LEMMA ServiceStop ==
  ASSUME Base, StopInv, NEW t \in Tasks, ServiceStep(t)
  PROVE  StopInv'
<1> USE DEF Base, TypeOK, StopInv, taskVars, clientVars, historyVars,
            counters, Clearing, Goto
<1>1. ASSUME get_info(t) PROVE StopInv'
  BY <1>1 DEF get_info, Return, OvertakenInv, ListenerInv, LeftInv, PausedInv,
              UnderWay, Clearing, LockInv, Holds, SessionInv, HasReceiver,
              Attached, Pause, managerVars, Notify, add, remove, ManagerTypeOK,
              Locked, Attaching, Started
<1>2. ASSUME handlers(t) PROVE StopInv'
  <2>1. OvertakenInv'
    <3>1. ~ Clearing
      BY <1>2, AloneInside DEF handlers, Locked
    <3>2. ASSUME NEW u \in Tasks, u # t
          PROVE  UnderWay(u)' => UnderWay(u) /\ at'[u] = at[u]
      BY <1>2, <3>2 DEF handlers, UnderWay
    <3>3. UnderWay(t)' => at'[t] = runtime'
      BY <1>2 DEF handlers, UnderWay
    <3>4. ~ Clearing' /\ runtime' = runtime /\ overtaken' = overtaken
      BY <1>2, <3>1 DEF handlers
    <3> QED
      BY <3>1, <3>2, <3>3, <3>4 DEF OvertakenInv
  <2>2. ListenerInv' /\ LeftInv'
    <3>1. /\ pc[t] = "handlers"
          /\ pc'[t] \in {"trigger", "reconnect", "sleep"}
          /\ \A u \in Tasks \ {t} : pc'[u] = pc[u] /\ at'[u] = at[u]
          /\ UNCHANGED <<runtime, chan, loop, clientVars, historyVars>>
      BY <1>2 DEF handlers
    <3>2. ListenerInv'
      <4> SUFFICES ASSUME NEW s \in sdk_listeners \ listener_id
                   PROVE  \E u \in Tasks : pc'[u] = "set_id" /\ at'[u] = s
        BY <3>1 DEF ListenerInv
      <4>1. PICK u \in Tasks : pc[u] = "set_id" /\ at[u] = s
        BY DEF ListenerInv
      <4> QED
        BY <3>1, <4>1
    <3>3. LeftInv'
      BY <3>1 DEF LeftInv, HasReceiver
    <3> QED
      BY <3>2, <3>3
  <2>3. PausedInv'
    BY <1>2 DEF handlers, PausedInv, UnderWay, LockInv, Holds, SessionInv,
                Locked, Attaching, Started, Pause, managerVars, Notify, add,
                remove, ManagerTypeOK
  <2> QED
    BY <2>1, <2>2, <2>3
<1>3. ASSUME Wake(t) PROVE StopInv'
  <2>1. OvertakenInv'
    <3>1. /\ pc[t] = "sleep" /\ pc'[t] \in {"handlers", "idle"}
          /\ \A u \in Tasks \ {t} : pc'[u] = pc[u] /\ at'[u] = at[u]
          /\ UNCHANGED <<runtime, overtaken>>
      BY <1>3 DEF Wake, Return
    <3> QED
      BY <3>1 DEF OvertakenInv, UnderWay
  <2>2. ListenerInv'
    BY <1>3 DEF Wake, Return, ListenerInv, UnderWay, LockInv, Holds,
                SessionInv, Locked, Attaching, Started
  <2>3. LeftInv'
    BY <1>3 DEF Wake, Return, LeftInv, UnderWay, LockInv, Holds, SessionInv,
                Locked, Attaching, Started, HasReceiver
  <2>4. PausedInv'
    BY <1>3 DEF Wake, Return, PausedInv, UnderWay, LockInv, Holds, SessionInv,
                Locked, Attaching, Started, Pause, managerVars, Notify, add,
                remove, ManagerTypeOK
  <2> QED
    BY <2>1, <2>2, <2>3, <2>4
<1>4. ASSUME trigger_resubscription(t) PROVE StopInv'
  <2>1. LeftInv'
    <3>1. \A s \in Sessions :
            "Shutdown" \in Range(chan[s]) => "Shutdown" \in Range(chan'[s])
      <4> SUFFICES ASSUME NEW s \in Sessions, "Shutdown" \in Range(chan[s])
                   PROVE  "Shutdown" \in Range(chan'[s])
        OBVIOUS
      <4>1. \/ chan' = chan
            \/ chan' = [chan EXCEPT ![at[t]] = Append(@, "Resubscribe")]
        BY <1>4 DEF trigger_resubscription
      <4>2. \/ chan'[s] = chan[s]
            \/ chan'[s] = Append(chan[s], "Resubscribe")
        BY <4>1
      <4>3. /\ chan[s] \in Seq(ContextActions)
            /\ "Resubscribe" \in ContextActions
        BY DEF ContextActions
      <4> QED
        BY <4>2, <4>3, AppendKeeps
    <3>2. /\ pc[t] = "trigger" /\ pc' = [pc EXCEPT ![t] = "idle"]
          /\ UNCHANGED <<runtime, loop, clientVars, historyVars>>
      BY <1>4 DEF trigger_resubscription, Return
    <3> QED
      BY <3>1, <3>2 DEF LeftInv, HasReceiver
  <2>2. OvertakenInv'
    BY <1>4 DEF trigger_resubscription, HasRoom, HasReceiver, Return,
                OvertakenInv, UnderWay, LockInv, Holds, SessionInv, Locked,
                Attaching, Started
  <2>3. ListenerInv'
    BY <1>4 DEF trigger_resubscription, HasRoom, HasReceiver, Return,
                ListenerInv, UnderWay, LockInv, Holds, SessionInv, Locked,
                Attaching, Started
  <2>4. PausedInv'
    BY <1>4 DEF trigger_resubscription, HasRoom, HasReceiver, Return,
                PausedInv, UnderWay, LockInv, Holds, SessionInv, Locked,
                Attaching, Started, Pause, managerVars, Notify, add, remove,
                ManagerTypeOK
  <2> QED
    BY <2>1, <2>2, <2>3, <2>4
<1>5. ASSUME Reconnect(t) PROVE StopInv'
  <2>1. LeftInv'
    <3>1. at[t] \notin overtaken => at[t] = runtime /\ ~ Clearing
      BY <1>5 DEF Reconnect, OvertakenInv, UnderWay
    <3> QED
      BY <1>5, <3>1 DEF Reconnect, LeftInv, HasReceiver
  <2>2. OvertakenInv' /\ ListenerInv' /\ PausedInv'
    BY <1>5 DEF Reconnect, OvertakenInv, ListenerInv, PausedInv, UnderWay,
                managerVars
  <2> QED
    BY <2>1, <2>2
<1>6. ASSUME forward_nwc_to_sdk(t) \/ Reply(t) PROVE StopInv'
  <2>1. /\ pc[t] \in {"handle", "reply"} /\ pc'[t] \in {"reply", "idle"}
        /\ \A u \in Tasks \ {t} : pc'[u] = pc[u] /\ at'[u] = at[u]
        /\ UNCHANGED <<runtime, chan, loop, clientVars, historyVars,
                       is_paused>>
    BY <1>6 DEF forward_nwc_to_sdk, Reply, Return, Notify, managerVars
  <2> QED
    BY <2>1, AsideStop
<1> QED
  BY <1>1, <1>2, <1>3, <1>4, <1>5, <1>6 DEF ServiceStep

LEMMA LoopStop ==
  ASSUME Base, StopInv, NEW s \in Sessions, LoopStep(s)
  PROVE  StopInv'
<1> USE DEF Base, TypeOK, StopInv, taskVars, clientVars, historyVars,
            counters, Clearing, Goto, loopUnchanged
<1>1. ASSUME on_resubscribe(s) PROVE StopInv'
  <2>1. OvertakenInv'
    BY <1>1 DEF on_resubscribe, DropReceiver, OvertakenInv, UnderWay, LockInv,
                Holds, SessionInv, Locked, Attaching, Started
  <2>2. ListenerInv'
    BY <1>1 DEF on_resubscribe, DropReceiver, ListenerInv, UnderWay, LockInv,
                Holds, SessionInv, Locked, Attaching, Started
  <2>3. LeftInv'
    BY <1>1 DEF on_resubscribe, DropReceiver, LeftInv, UnderWay, LockInv,
                Holds, SessionInv, Locked, Attaching, Started, HasReceiver
  <2>4. PausedInv'
    BY <1>1 DEF on_resubscribe, DropReceiver, PausedInv, UnderWay, LockInv,
                Holds, SessionInv, Locked, Attaching, Started, Pause,
                managerVars, Notify, add, remove, ManagerTypeOK
  <2> QED
    BY <2>1, <2>2, <2>3, <2>4
<1>2. ASSUME ReceiveAction(s) PROVE StopInv'
  <2>1. LeftInv'
    <3>1. ASSUME NEW r \in Sessions, HasReceiver(r)' 
          PROVE  /\ HasReceiver(r)
                 /\ "Shutdown" \in Range(chan[r]) =>
                      "Shutdown" \in Range(chan'[r])
      <4>1. CASE r = s
        <5>1. loop'[s] # "gone" /\ HasReceiver(s)
          BY <1>2, <3>1, <4>1 DEF ReceiveAction, HasReceiver
        <5>2. /\ Head(chan[s]) = "Resubscribe"
              /\ chan' = [chan EXCEPT ![s] = Tail(@)]
          BY <1>2, <5>1 DEF ReceiveAction, DropReceiver
        <5>3. chan[s] \in Seq(ContextActions) /\ chan[s] # <<>>
          BY <1>2 DEF ReceiveAction
        <5>4. chan'[s] = Tail(chan[s])
          BY <5>2
        <5> QED
          BY <4>1, <5>1, <5>2, <5>3, <5>4, TailKeeps
      <4>2. CASE r # s
        BY <1>2, <3>1, <4>2 DEF ReceiveAction, DropReceiver, HasReceiver
      <4> QED
        BY <4>1, <4>2
    <3>2. UNCHANGED <<runtime, pc, clientVars, historyVars>>
      BY <1>2 DEF ReceiveAction
    <3> QED
      BY <3>1, <3>2 DEF LeftInv
  <2>2. OvertakenInv'
    BY <1>2 DEF ReceiveAction, DropReceiver, OvertakenInv, UnderWay, LockInv,
                Holds, SessionInv, Locked, Attaching, Started
  <2>3. ListenerInv'
    BY <1>2 DEF ReceiveAction, DropReceiver, ListenerInv, UnderWay, LockInv,
                Holds, SessionInv, Locked, Attaching, Started
  <2>4. PausedInv'
    BY <1>2 DEF ReceiveAction, DropReceiver, PausedInv, UnderWay, LockInv,
                Holds, SessionInv, Locked, Attaching, Started, Pause,
                managerVars, Notify, add, remove, ManagerTypeOK
  <2> QED
    BY <2>1, <2>2, <2>3, <2>4
<1>3. ASSUME on_interval(s) \/ IntervalOver(s) PROVE StopInv'
  <2>1. /\ loop[s] \in {"select", "notify"}
        /\ \E l \in {"select", "notify"} : loop' = [loop EXCEPT ![s] = l]
        /\ UNCHANGED <<runtime, pc, at, chan, clientVars, historyVars,
                       is_paused>>
    BY <1>3 DEF on_interval, IntervalOver, Notify, managerVars
  <2>2. OvertakenInv' /\ ListenerInv' /\ PausedInv'
    BY <2>1 DEF OvertakenInv, ListenerInv, PausedInv, UnderWay
  <2>3. LeftInv'
    BY <2>1 DEF LeftInv, HasReceiver
  <2> QED
    BY <2>2, <2>3
<1> QED
  BY <1>1, <1>2, <1>3 DEF LoopStep

LEMMA InitStop == Init => StopInv
  BY DEF Init, StopInv, OvertakenInv, ListenerInv, LeftInv, PausedInv,
         UnderWay, Clearing, HasReceiver, Attached

StopVars == <<runtime, pc, at, chan, loop, clientVars, overtaken, is_paused>>

LEMMA StopFrame ==
  ASSUME StopInv, UNCHANGED StopVars PROVE StopInv'
<1> USE DEF StopVars, clientVars, UnderWay, Clearing
<1>1. OvertakenInv' /\ ListenerInv' /\ PausedInv'
  BY DEF StopInv, OvertakenInv, ListenerInv, PausedInv
<1>2. LeftInv'
  BY DEF StopInv, LeftInv, HasReceiver
<1> QED
  BY <1>1, <1>2 DEF StopInv

LEMMA StopPreserved ==
  ASSUME Base, StopInv, Next \/ UNCHANGED vars PROVE StopInv'
<1>1. ASSUME UNCHANGED vars PROVE StopInv'
  BY <1>1, StopFrame DEF vars, StopVars, taskVars, historyVars, managerVars
<1>2. ASSUME NEW n \in Notifiers, NotifyStep(n) PROVE StopInv'
  BY <1>2, StopFrame
  DEF NotifyStep, BeginReading, ListenerReturns, ReadLock, on_event, StopVars,
      taskVars, historyVars
<1> QED
  BY <1>1, <1>2, CallsStop, AttachStop, StopStop, ServiceStop, LoopStop
  DEF Next, TaskStep

LEMMA StopInductive ==
  ASSUME Base, ManagerInv, StopInv, Next \/ UNCHANGED vars
  PROVE  Base' /\ ManagerInv' /\ StopInv'
  BY BasePreserved, StopPreserved

(* A session that was stopped, and not overtaken, is connected nowhere,    *)
(* hears of no payment, and its loop has ended or is told to.              *)
THEOREM StopIsClean == Spec => []StoppedLeavesNothing
<1>1. Base /\ ManagerInv /\ StopInv /\ [Next]_vars
        => Base' /\ ManagerInv' /\ StopInv'
  BY StopInductive
<1>2. StopInv => StoppedLeavesNothing
  BY DEF StopInv, LeftInv, StoppedLeavesNothing, Stopped
<1> QED
  BY <1>1, <1>2, InitBase, InitStop, PTL DEF Spec

-----------------------------------------------------------------------------
(* A listener that is told of Connected is told of Disconnected: until it  *)
(* is, it is registered, and the stop that is to tell it has not ended.    *)
HeardInv ==
  \A s \in Sessions \ overtaken : \A l \in Listeners :
    s \in believes[l] =>
      /\ l \in listeners
      /\ runtime = s
      /\ \A t \in Tasks : pc[t] = "pause" => t \in waiting \/ l \in todo[t]

(* What the steps that neither tell nor clear anything keep.               *)
HeardKept ==
  /\ overtaken \subseteq overtaken'
  /\ UNCHANGED <<believes, runtime>>
  /\ listeners \subseteq listeners'
  /\ \A t \in Tasks :
       pc'[t] = "pause" =>
         /\ pc[t] = "pause"
         /\ t \in waiting => t \in waiting'
         /\ todo'[t] = todo[t]

HeardStep(t) ==
  InstallRuntime(t) \/ NotifyDisconnected(t) \/ ClearRuntime(t)
    \/ remove_event_listener(t)

LEMMA HeardFrame ==
  ASSUME Base, Next, \A t \in Tasks : ~ HeardStep(t),
         \A n \in Notifiers : ~ NotifyStep(n)
  PROVE  HeardKept
<1> USE DEF Base, TypeOK, HeardKept, taskVars, historyVars, managerVars, Goto
<1>1. ASSUME NEW t \in Tasks, CallStarts(t), ~ remove_event_listener(t)
      PROVE  HeardKept
  <2>1. CASE add_event_listener(t)
    BY <2>1 DEF add_event_listener, add
  <2>2. CASE on_sdk_payment(t)
    BY <2>2 DEF on_sdk_payment
  <2>3. CASE on_relay_event(t)
    BY <2>3 DEF on_relay_event
  <2>4. CASE CallAttach(t) \/ CallStop(t) \/ CallGetInfo(t) \/ CallService(t)
    BY <2>4 DEF CallAttach, CallStop, CallGetInfo, CallService, Lock
  <2> QED
    BY <1>1, <2>1, <2>2, <2>3, <2>4 DEF CallStarts
<1>2. ASSUME NEW t \in Tasks, AttachStep(t), ~ InstallRuntime(t)
      PROVE  HeardKept
  <2>1. CASE AttachRefused(t) \/ get_secret_key(t) \/ set_seckey(t)
    BY <2>1 DEF AttachRefused, get_secret_key, set_seckey, Return
  <2>2. CASE AttachFails(t) \/ on_init(t)
    BY <2>2 DEF AttachFails, on_init, Pause, Return
  <2>3. CASE AddSdkListener(t) \/ Connect(t) \/ SpawnLoop(t)
    BY <2>3 DEF AddSdkListener, Connect, SpawnLoop, Return
  <2>4. CASE on_connect(t)
    BY <2>4 DEF on_connect, Notify
  <2> QED
    BY <1>2, <2>1, <2>2, <2>3, <2>4 DEF AttachStep
<1>3. ASSUME NEW t \in Tasks, StopStep(t), ~ HeardStep(t) PROVE HeardKept
  <2>1. CASE StopGivesUp(t) \/ RemoveSdkListener(t)
    BY <2>1 DEF StopGivesUp, RemoveSdkListener, Return
  <2>2. CASE Shutdown(t)
    BY <2>2 DEF Shutdown
  <2> QED
    BY <1>3, <2>1, <2>2 DEF StopStep, HeardStep
<1>4. ASSUME NEW t \in Tasks, ServiceStep(t) PROVE HeardKept
  <2>1. CASE get_info(t) \/ handlers(t) \/ Wake(t)
    BY <2>1 DEF get_info, handlers, Wake, Return
  <2>2. CASE trigger_resubscription(t) \/ Reconnect(t) \/ Reply(t)
    BY <2>2 DEF trigger_resubscription, Reconnect, Reply, Return
  <2>3. CASE forward_nwc_to_sdk(t)
    BY <2>3 DEF forward_nwc_to_sdk, Notify, Return
  <2> QED
    BY <1>4, <2>1, <2>2, <2>3 DEF ServiceStep
<1>5. ASSUME NEW s \in Sessions, LoopStep(s) PROVE HeardKept
  BY <1>5 DEF LoopStep, on_resubscribe, ReceiveAction, on_interval,
              IntervalOver, loopUnchanged, Notify
<1> QED
  BY <1>1, <1>2, <1>3, <1>4, <1>5 DEF Next, TaskStep, HeardStep

LEMMA HeardPreserved ==
  ASSUME Base, ManagerInv, StopInv, HeardInv, Next \/ UNCHANGED vars
  PROVE  HeardInv'
<1> USE DEF Base, TypeOK, ManagerTypeOK
<1>1. ASSUME HeardKept PROVE HeardInv'
  BY <1>1 DEF HeardInv, HeardKept
<1>2. ASSUME UNCHANGED vars PROVE HeardInv'
  BY <1>2 DEF vars, HeardInv, historyVars, managerVars, taskVars
<1>3. ASSUME NEW t \in Tasks, InstallRuntime(t) PROVE HeardInv'
  (* No runtime, hence nobody believes in a session.                       *)
  <2>1. /\ runtime = 0 /\ UNCHANGED <<believes, overtaken>>
    BY <1>3 DEF InstallRuntime, SessionInv, historyVars
  <2>2. \A s \in Sessions \ overtaken :
          \A l \in Listeners : s \notin believes[l]
    BY <2>1 DEF HeardInv, Sessions
  <2> QED
    BY <2>1, <2>2 DEF HeardInv
<1>4. ASSUME NEW t \in Tasks, NotifyDisconnected(t) PROVE HeardInv'
  <2>1. /\ pc[t] = "notify" /\ pc' = [pc EXCEPT ![t] = "pause"]
        /\ waiting' = IF is_paused THEN waiting ELSE waiting \cup {t}
        /\ UNCHANGED <<runtime, believes, overtaken, listeners, todo>>
    BY <1>4 DEF NotifyDisconnected, Goto, Notify, historyVars
  <2>2. is_paused /\ runtime # 0 => runtime \in overtaken
    BY <2>1 DEF StopInv, PausedInv, OvertakenInv, UnderWay, Clearing
  <2> SUFFICES ASSUME NEW s \in Sessions \ overtaken, NEW l \in Listeners,
                      s \in believes[l]
               PROVE  /\ l \in listeners /\ runtime = s
                      /\ \A u \in Tasks :
                           pc'[u] = "pause" => u \in waiting' \/ l \in todo[u]
    BY <2>1 DEF HeardInv
  <2>3. /\ l \in listeners /\ runtime = s
        /\ \A u \in Tasks : pc[u] = "pause" => u \in waiting \/ l \in todo[u]
    BY DEF HeardInv
  <2>4. t \in waiting'
    BY <2>1, <2>2, <2>3 DEF Sessions
  <2> QED
    BY <2>1, <2>3, <2>4
<1>5. ASSUME NEW t \in Tasks, ClearRuntime(t) PROVE HeardInv'
  <2>1. /\ pc[t] = "pause" /\ t \notin waiting /\ todo[t] = {}
        /\ UNCHANGED <<believes, overtaken>>
    BY <1>5 DEF ClearRuntime, Notified, historyVars
  <2>2. \A s \in Sessions \ overtaken :
          \A l \in Listeners : s \notin believes[l]
    BY <2>1 DEF HeardInv
  <2> QED
    BY <2>1, <2>2 DEF HeardInv
<1>6. ASSUME NEW t \in Tasks, remove_event_listener(t) PROVE HeardInv'
  <2>1. PICK l \in listeners :
          /\ listeners' = listeners \ {l}
          /\ believes' = [believes EXCEPT ![l] = {}]
          /\ UNCHANGED <<waiting, todo>>
    BY <1>6 DEF remove_event_listener, remove
  <2>2. UNCHANGED <<runtime, pc, overtaken>>
    BY <1>6 DEF remove_event_listener, taskVars
  <2> QED
    BY <2>1, <2>2 DEF HeardInv
<1>7. ASSUME NEW n \in Notifiers, BeginReading(n) PROVE HeardInv'
  <2>1. /\ waiting' = waiting \ {n}
        /\ todo' = [todo EXCEPT ![n] = listeners]
        /\ UNCHANGED <<runtime, pc, believes, overtaken, listeners>>
    BY <1>7 DEF BeginReading, ReadLock, taskVars, historyVars
  <2> SUFFICES ASSUME NEW s \in Sessions \ overtaken, NEW l \in Listeners,
                      s \in believes[l]
               PROVE  /\ l \in listeners /\ runtime = s
                      /\ \A u \in Tasks :
                           pc[u] = "pause" => u \in waiting' \/ l \in todo'[u]
    BY <2>1 DEF HeardInv
  <2>2. /\ l \in listeners /\ runtime = s
        /\ \A u \in Tasks : pc[u] = "pause" => u \in waiting \/ l \in todo[u]
    BY DEF HeardInv
  <2>3. \A u \in Tasks : u = n => l \in todo'[u]
    BY <2>1, <2>2
  <2>4. \A u \in Tasks : u # n => /\ u \in waiting => u \in waiting'
                                  /\ todo'[u] = todo[u]
    BY <2>1
  <2> QED
    BY <2>2, <2>3, <2>4
<1>8. ASSUME NEW n \in Notifiers, ListenerReturns(n) PROVE HeardInv'
  <2>1. PICK k \in Listeners :
          /\ k \in todo[n]
          /\ todo' = [todo EXCEPT ![n] = @ \ {k}]
          /\ UNCHANGED <<listeners, waiting>>
          /\ believes' = [believes EXCEPT ![k] =
               IF At(n, "send_info") THEN @ \cup {at[n]}
               ELSE IF At(n, "pause") THEN @ \ {runtime} ELSE @]
    BY <1>8 DEF ListenerReturns, on_event
  <2>2. UNCHANGED <<runtime, pc, at, overtaken>>
    BY <1>8 DEF ListenerReturns, taskVars
  <2>3. k \in listeners
    BY <2>1 DEF ManagerInv, RemovedHearsNothing
  <2> SUFFICES ASSUME NEW s \in Sessions \ overtaken, NEW l \in Listeners,
                      s \in believes'[l]
               PROVE  /\ l \in listeners /\ runtime = s
                      /\ \A u \in Tasks :
                           pc[u] = "pause" => u \in waiting \/ l \in todo'[u]
    BY <2>1, <2>2 DEF HeardInv
  (* attach tells k of the runtime's Connected: nobody is stopping it.     *)
  <2>4. CASE l = k /\ At(n, "send_info") /\ at[n] = s
    <3>1. UnderWay(n) /\ n \in Tasks
      BY <2>4 DEF At, UnderWay
    <3>2. runtime = s /\ ~ Clearing
      BY <2>4, <3>1 DEF StopInv, OvertakenInv
    <3> QED
      BY <2>3, <2>4, <3>2 DEF Clearing
  <2>5. CASE s \in believes[l]
    <3>1. /\ l \in listeners /\ runtime = s
          /\ \A u \in Tasks : pc[u] = "pause" => u \in waiting \/ l \in todo[u]
      BY <2>5 DEF HeardInv
    <3>2. ASSUME NEW u \in Tasks, pc[u] = "pause", l \in todo[u]
          PROVE  l \in todo'[u]
      <4>1. CASE u = n /\ l = k
        <5>1. At(n, "pause") /\ ~ At(n, "send_info")
          BY <3>2, <4>1 DEF At
        <5>2. believes'[l] = believes[l] \ {runtime}
          BY <2>1, <4>1, <5>1
        <5> QED
          BY <3>1, <5>2
      <4>2. CASE u # n \/ l # k
        BY <2>1, <3>2, <4>2
      <4> QED
        BY <4>1, <4>2
    <3> QED
      BY <3>1, <3>2
  <2>6. s \in believes[l] \/ (l = k /\ At(n, "send_info") /\ at[n] = s)
    <3>1. CASE l # k
      BY <2>1, <3>1
    <3>2. CASE l = k
      <4>1. believes'[k] = IF At(n, "send_info") THEN believes[k] \cup {at[n]}
                           ELSE IF At(n, "pause") THEN believes[k] \ {runtime}
                           ELSE believes[k]
        BY <2>1
      <4> QED
        BY <3>2, <4>1
    <3> QED
      BY <3>1, <3>2
  <2> QED
    BY <2>4, <2>5, <2>6
<1> QED
  BY <1>1, <1>2, <1>3, <1>4, <1>5, <1>6, <1>7, <1>8, HeardFrame
  DEF HeardStep, NotifyStep

LEMMA InitHeard == Init => HeardInv
  BY DEF Init, HeardInv

(* Every listener that was told of a session's Connected has been told of  *)
(* its Disconnected by the time the session, not overtaken, is stopped:    *)
(* with any number of tasks and loops that notify, and of listeners that   *)
(* come and go, while it is.                                               *)
THEOREM HearsDisconnected == Spec => []DisconnectedIsHeard
<1> DEFINE IInv == Base /\ ManagerInv /\ StopInv /\ HeardInv
<1>1. Init => IInv
  BY InitBase, InitStop, InitHeard
<1>2. IInv /\ [Next]_vars => IInv'
  BY StopInductive, HeardPreserved
<1>3. IInv => DisconnectedIsHeard
  BY DEF HeardInv, DisconnectedIsHeard, Stopped
<1> QED
  BY <1>1, <1>2, <1>3, PTL DEF Spec
=============================================================================
