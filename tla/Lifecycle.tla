------------------------------ MODULE Lifecycle ------------------------------
(***************************************************************************)
(* The life of a NostrPlugin (lib.rs, context.rs, handlers/mod.rs): host   *)
(* tasks attach it, stop it and call its services, while the notification  *)
(* loop of each runtime, the handlers it spawns and calls into runtimes    *)
(* already stopped go on.  All of them notify the host's listeners.        *)
(*                                                                         *)
(* A session is one call of attach and the runtime it makes: its context,  *)
(* relay client, action channel and loop.  Session 0 stands for none.      *)
(***************************************************************************)
EXTENDS Naturals, Sequences, Functions, EventManager

CONSTANTS
  Tasks,             \* tasks of the host and of the SDK, handlers of events
  CHANNEL_CAPACITY,  \* 10 in the code
  MAX_ATTEMPTS,      \* 3 in the code: `for _ in 0..3` of handlers()
  ListenToEvents,    \* NostrConfig::listen_to_events
  ConfiguredKey,     \* whether NostrConfig::secret_key_hex is set
  MaxSessions,       \* bound: calls of attach
  MaxCalls,          \* bound: calls of any kind
  MaxFaults          \* bound: failures of the storage or the relays

ASSUME LifecycleAssumption ==
  /\ Notifiers = Tasks \cup 1 .. MaxSessions
  /\ Tasks \cap 1 .. MaxSessions = {}
  /\ CHANNEL_CAPACITY \in Nat \ {0} /\ MAX_ATTEMPTS \in Nat \ {0}
  /\ ListenToEvents \in BOOLEAN /\ ConfiguredKey \in BOOLEAN
  /\ MaxSessions \in Nat /\ MaxCalls \in Nat /\ MaxFaults \in Nat

Sessions == 1 .. MaxSessions
ContextActions == {"Shutdown", "Resubscribe"}

VARIABLES
  runtime,        \* the session of `NostrPlugin::runtime`, 0 if None
  queue,          \* its mutex: who asked for it, in order; the head holds it
  pc,             \* pc[t]: where task t stands in its call
  at,             \* at[t]: the session whose context it works on
  service,        \* service[t]: what it wants the handlers for
  attempt,        \* attempt[t]: times handlers() has found no runtime
  chan,           \* chan[s]: the action channel
  loop,           \* loop[s]: where the receiver of chan[s] is
  connected,      \* sessions whose relay client is connected
  sdk_listeners,  \* sessions registered as listeners of the SDK
  listener_id,    \* sessions whose sdk_listener_id is set
  stored_key,     \* KEY_NOSTR_SECKEY in the storage, 0 if there is none
  our_keys,       \* our_keys[s]: the session that generated its key
  believes,       \* history: believes[l], the sessions whose Connected, and
                  \* not yet whose Disconnected, listener l has been told
  overtaken,      \* history: sessions stopped with calls still under way
  unread,         \* history: a stored key could not be read
  sessions, calls, faults  \* bounded counters

taskVars == <<pc, at, service, attempt>>
clientVars == <<connected, sdk_listeners, listener_id>>
keyVars == <<stored_key, our_keys, unread>>
historyVars == <<believes, overtaken>>
counters == <<sessions, calls, faults>>
vars == <<runtime, queue, taskVars, chan, loop, clientVars, keyVars,
          historyVars, managerVars, counters>>

Init ==
  /\ runtime = 0
  /\ queue = <<>>
  /\ pc = [t \in Tasks |-> "idle"]
  /\ at = [t \in Tasks |-> 0]
  /\ service = [t \in Tasks |-> "trigger"]
  /\ attempt = [t \in Tasks |-> 0]
  /\ chan = [s \in Sessions |-> <<>>]
  /\ loop = [s \in Sessions |-> "none"]
  /\ connected = {} /\ sdk_listeners = {} /\ listener_id = {}
  /\ stored_key = 0
  /\ our_keys = [s \in Sessions |-> 0]
  /\ unread = FALSE
  /\ believes = [l \in Listeners |-> {}]
  /\ overtaken = {}
  /\ ManagerInit
  /\ sessions = 0 /\ calls = 0 /\ faults = 0

Fault == faults < MaxFaults /\ faults' = faults + 1

(* Calls that still work on a context, and may connect or register it.     *)
UnderWay(t) == pc[t] \in {"on_init", "add_listener", "set_id", "on_connect",
                          "send_info", "reconnect"}

(* stop is past the point of no return.                                    *)
Clearing == \E t \in Tasks : pc[t] \in {"clear", "notify", "pause"}

Goto(t, location) == pc' = [pc EXCEPT ![t] = location]

Return(t) ==
  /\ Goto(t, "idle")
  /\ at' = [at EXCEPT ![t] = 0]
  /\ service' = [service EXCEPT ![t] = "trigger"]
  /\ attempt' = [attempt EXCEPT ![t] = 0]

(* tokio's Mutex is fair: it is granted in the order of the requests.      *)
Holds(t) == queue # <<>> /\ Head(queue) = t
Release == queue' = Tail(queue)

(* action_rx is held by attach, then by the loop.                          *)
HasReceiver(s) ==
  loop[s] \in {"attaching", "resubscribe", "select", "notify"}

HasRoom(s) == HasReceiver(s) /\ Len(chan[s]) < CHANNEL_CAPACITY

-----------------------------------------------------------------------------
(* Calls begin.                                                            *)

Calls(t) == pc[t] = "idle" /\ calls < MaxCalls /\ calls' = calls + 1

Lock(t, location) ==
  /\ Calls(t)
  /\ Goto(t, location)
  /\ queue' = Append(queue, t)
  /\ UNCHANGED <<runtime, chan, loop, clientVars, keyVars, historyVars,
                 managerVars, faults>>

CallAttach(t) ==
  /\ sessions < MaxSessions
  /\ Lock(t, "attach")
  /\ sessions' = sessions + 1
  /\ at' = [at EXCEPT ![t] = sessions']
  /\ UNCHANGED <<service, attempt>>

CallStop(t) == Lock(t, "stop") /\ UNCHANGED <<at, service, attempt, sessions>>

CallGetInfo(t) ==
  Lock(t, "get_info") /\ UNCHANGED <<at, service, attempt, sessions>>

(* add_, edit_ and remove_connection end in trigger_resubscription;        *)
(* handle_event connects the client first.                                 *)
CallService(t) ==
  /\ Lock(t, "handlers")
  /\ \E want \in {"trigger", "reconnect"} :
       service' = [service EXCEPT ![t] = want]
  /\ UNCHANGED <<at, attempt, sessions>>

(* The SDK reports a payment to a listener it has: a zap's, to be receipted.*)
on_sdk_payment(t) ==
  /\ Calls(t)
  /\ \E s \in sdk_listeners :
       /\ at' = [at EXCEPT ![t] = s]
       /\ overtaken' = IF Clearing THEN overtaken \cup {s} ELSE overtaken
  /\ Goto(t, "reconnect")
  /\ UNCHANGED <<runtime, queue, service, attempt, chan, loop, clientVars,
                 keyVars, believes, managerVars, sessions, faults>>

(* A loop that selects spawns a handler of an event of its relays.         *)
on_relay_event(t) ==
  /\ Calls(t)
  /\ \E s \in Sessions : loop[s] = "select" /\ at' = [at EXCEPT ![t] = s]
  /\ Goto(t, "handle")
  /\ UNCHANGED <<runtime, queue, service, attempt, chan, loop, clientVars,
                 keyVars, historyVars, managerVars, sessions, faults>>

(* The host's own listeners come and go.                                   *)
add_event_listener(t) ==
  /\ Calls(t)
  /\ \E l \in Listeners \ listeners : add(l)
  /\ UNCHANGED <<runtime, queue, taskVars, chan, loop, clientVars, keyVars,
                 historyVars, sessions, faults>>

remove_event_listener(t) ==
  /\ Calls(t)
  /\ \E l \in listeners :
       remove(l) /\ believes' = [believes EXCEPT ![l] = {}]
  /\ UNCHANGED <<runtime, queue, taskVars, chan, loop, clientVars, keyVars,
                 overtaken, sessions, faults>>

CallStarts(t) ==
  \/ CallAttach(t) \/ CallStop(t) \/ CallGetInfo(t) \/ CallService(t)
  \/ on_sdk_payment(t) \/ on_relay_event(t)
  \/ add_event_listener(t) \/ remove_event_listener(t)

-----------------------------------------------------------------------------
(* attach.                                                                 *)

AttachRefused(t) ==
  /\ pc[t] = "attach" /\ Holds(t)
  /\ runtime # 0
  /\ Release
  /\ Return(t)
  /\ UNCHANGED <<runtime, chan, loop, clientVars, keyVars, historyVars,
                 managerVars, counters>>

(* The key comes from the configuration or the storage.  A read that fails *)
(* is taken for a key that is missing.                                     *)
get_secret_key(t) ==
  /\ pc[t] = "attach" /\ Holds(t)
  /\ runtime = 0
  /\ \/ /\ ConfiguredKey \/ stored_key # 0
        /\ our_keys' = [our_keys EXCEPT ![at[t]] =
                          IF ConfiguredKey THEN 0 ELSE stored_key]
        /\ Goto(t, "install")
        /\ UNCHANGED <<unread, faults>>
     \/ /\ ~ ConfiguredKey
        /\ \/ stored_key = 0 /\ UNCHANGED <<unread, faults>>
           \/ Fault /\ unread' = (unread \/ stored_key # 0)
        /\ Goto(t, "set_seckey")
        /\ UNCHANGED our_keys
  /\ UNCHANGED <<runtime, queue, at, service, attempt, chan, loop, clientVars,
                 stored_key, historyVars, managerVars, sessions, calls>>

(* Mutant: the key that is generated is not stored.                        *)
ForgetKey(t) ==
  /\ pc[t] = "set_seckey"
  /\ our_keys' = [our_keys EXCEPT ![at[t]] = at[t]]
  /\ Goto(t, "install")
  /\ UNCHANGED <<queue, at, service, attempt, faults, stored_key, runtime,
                 chan, loop, clientVars, unread, historyVars, managerVars,
                 sessions, calls>>

(* A key is generated and stored, whatever is stored by now.               *)
set_seckey(t) ==
  /\ pc[t] = "set_seckey"
  /\ \/ /\ stored_key' = at[t]
        /\ our_keys' = [our_keys EXCEPT ![at[t]] = at[t]]
        /\ Goto(t, "install")
        /\ UNCHANGED <<queue, at, service, attempt, faults>>
     \/ /\ Fault
        /\ Release
        /\ Return(t)
        /\ UNCHANGED <<stored_key, our_keys>>
  /\ UNCHANGED <<runtime, chan, loop, clientVars, unread, historyVars,
                 managerVars, sessions, calls>>

(* The runtime is there for everyone, and the mutex is released, before    *)
(* anything has been started.                                              *)
InstallRuntime(t) ==
  /\ pc[t] = "install"
  /\ runtime' = at[t]
  /\ loop' = [loop EXCEPT ![at[t]] = "attaching"]
  /\ Release
  /\ Goto(t, "on_init")
  /\ UNCHANGED <<at, service, attempt, chan, clientVars, keyVars, historyVars,
                 managerVars, counters>>

(* Mutant: the receiver is kept although nobody will ever read from it.    *)
KeepReceiver(s) ==
  /\ loop' = [loop EXCEPT ![s] = "attaching"]
  /\ UNCHANGED chan

(* The receiver goes out of scope, and with it what it has not received.   *)
DropReceiver(s) ==
  /\ loop' = [loop EXCEPT ![s] = "gone"]
  /\ chan' = [chan EXCEPT ![s] = <<>>]

(* A routine of attach fails: it returns, and leaves the runtime there.    *)
AttachFails(t) ==
  /\ pc[t] \in {"on_init", "send_info"} /\ Notified(t)
  /\ Fault
  /\ DropReceiver(at[t])
  /\ Return(t)
  /\ UNCHANGED <<runtime, queue, clientVars, keyVars, historyVars, sessions,
                 calls>>
  /\ IF pc[t] = "on_init" THEN Pause(FALSE) ELSE UNCHANGED managerVars

on_init(t) ==
  /\ pc[t] = "on_init"
  /\ Pause(FALSE)
  /\ Goto(t, "add_listener")
  /\ UNCHANGED <<runtime, queue, at, service, attempt, chan, loop, clientVars,
                 keyVars, historyVars, counters>>

(* The SDK registers the listener, and returns its id.                     *)
AddSdkListener(t) ==
  /\ pc[t] = "add_listener"
  /\ sdk_listeners' = sdk_listeners \cup {at[t]}
  /\ Goto(t, "set_id")
  /\ UNCHANGED <<runtime, queue, at, service, attempt, chan, loop, connected,
                 listener_id, keyVars, historyVars, managerVars, counters>>

Connect(t) ==
  /\ pc[t] = "set_id"
  /\ listener_id' = listener_id \cup {at[t]}
  /\ connected' = connected \cup {at[t]}
  /\ Goto(t, "on_connect")
  /\ UNCHANGED <<runtime, queue, at, service, attempt, chan, loop,
                 sdk_listeners, keyVars, historyVars, managerVars, counters>>

on_connect(t) ==
  /\ pc[t] = "on_connect"
  /\ Notify(t)
  /\ Goto(t, "send_info")
  /\ UNCHANGED <<runtime, queue, at, service, attempt, chan, loop, clientVars,
                 keyVars, historyVars, counters>>

(* The info event has been sent: the loop is spawned, or the receiver      *)
(* dropped with the rest of attach.                                        *)
SpawnLoop(t) ==
  /\ pc[t] = "send_info" /\ Notified(t)
  /\ IF ListenToEvents
     THEN loop' = [loop EXCEPT ![at[t]] = "resubscribe"] /\ UNCHANGED chan
     ELSE DropReceiver(at[t])
  /\ Return(t)
  /\ UNCHANGED <<runtime, queue, clientVars, keyVars, historyVars,
                 managerVars, counters>>

AttachStep(t) ==
  \/ AttachRefused(t) \/ get_secret_key(t) \/ set_seckey(t)
  \/ InstallRuntime(t) \/ AttachFails(t) \/ on_init(t)
  \/ AddSdkListener(t) \/ Connect(t) \/ on_connect(t) \/ SpawnLoop(t)

-----------------------------------------------------------------------------
(* stop, get_info and the services.                                        *)

(* Mutant: the runtime is dropped even if its loop could not be told.      *)
StopAnyway(t) ==
  /\ pc[t] = "stop" /\ Holds(t)
  /\ runtime # 0 => ~ HasReceiver(runtime)
  /\ runtime' = 0
  /\ Release
  /\ Return(t)
  /\ UNCHANGED <<chan, loop, clientVars, keyVars, historyVars, managerVars,
                 counters>>

(* Nothing to stop; or Shutdown cannot be sent, and the call gives up.     *)
StopGivesUp(t) ==
  /\ pc[t] = "stop" /\ Holds(t)
  /\ \/ runtime = 0
     \/ runtime # 0 /\ ~ HasReceiver(runtime)
  /\ Release
  /\ Return(t)
  /\ UNCHANGED <<runtime, chan, loop, clientVars, keyVars, historyVars,
                 managerVars, counters>>

(* Shutdown is sent, waiting for room with the mutex held, and the client  *)
(* disconnected: whatever comes between the two might as well come first.  *)
Shutdown(t) ==
  /\ pc[t] = "stop" /\ Holds(t)
  /\ runtime # 0 /\ HasRoom(runtime)
  /\ chan' = [chan EXCEPT ![runtime] = Append(@, "Shutdown")]
  /\ connected' = connected \ {runtime}
  /\ overtaken' = IF \E u \in Tasks : UnderWay(u) /\ at[u] = runtime
                  THEN overtaken \cup {runtime} ELSE overtaken
  /\ Goto(t, "clear")
  /\ UNCHANGED <<runtime, queue, at, service, attempt, loop, sdk_listeners,
                 listener_id, keyVars, believes, managerVars, counters>>

(* Mutant: the SDK is not told to drop the listener.                       *)
KeepSdkListener(t) ==
  /\ pc[t] = "clear"
  /\ Goto(t, "notify")
  /\ UNCHANGED <<runtime, queue, at, service, attempt, chan, loop,
                 clientVars, keyVars, historyVars, managerVars, counters>>

RemoveSdkListener(t) ==
  /\ pc[t] = "clear"
  /\ sdk_listeners' = sdk_listeners \ (listener_id \cap {runtime})
  /\ Goto(t, "notify")
  /\ UNCHANGED <<runtime, queue, at, service, attempt, chan, loop, connected,
                 listener_id, keyVars, historyVars, managerVars, counters>>

(* Mutant: events are paused first.                                        *)
PauseFirst(t) ==
  /\ pc[t] = "notify"
  /\ Pause(TRUE)
  /\ Goto(t, "pause")
  /\ UNCHANGED <<runtime, queue, at, service, attempt, chan, loop, clientVars,
                 keyVars, historyVars, counters>>

NotifyDisconnected(t) ==
  /\ pc[t] = "notify"
  /\ Notify(t)
  /\ Goto(t, "pause")
  /\ UNCHANGED <<runtime, queue, at, service, attempt, chan, loop, clientVars,
                 keyVars, historyVars, counters>>

ClearRuntime(t) ==
  /\ pc[t] = "pause" /\ Notified(t)
  /\ Pause(TRUE)
  /\ runtime' = 0
  /\ Release
  /\ Return(t)
  /\ UNCHANGED <<chan, loop, clientVars, keyVars, historyVars, counters>>

StopStep(t) ==
  \/ StopGivesUp(t) \/ Shutdown(t) \/ RemoveSdkListener(t)
  \/ NotifyDisconnected(t) \/ ClearRuntime(t)

get_info(t) ==
  /\ pc[t] = "get_info" /\ Holds(t)
  /\ Release
  /\ Return(t)
  /\ UNCHANGED <<runtime, chan, loop, clientVars, keyVars, historyVars,
                 managerVars, counters>>

(* The handlers of the runtime that is there now.                          *)
handlers(t) ==
  /\ pc[t] = "handlers" /\ Holds(t)
  /\ \/ /\ runtime # 0
        /\ at' = [at EXCEPT ![t] = runtime]
        /\ Goto(t, service[t])
        /\ Release
        /\ UNCHANGED attempt
     \/ /\ runtime = 0
        /\ attempt' = [attempt EXCEPT ![t] = @ + 1]
        /\ Goto(t, "sleep")
        /\ UNCHANGED <<at, queue>>
  /\ UNCHANGED <<runtime, service, chan, loop, clientVars, keyVars,
                 historyVars, managerVars, counters>>

(* Mutant: one attempt too many.                                           *)
WakeOnceMore(t) ==
  /\ pc[t] = "sleep"
  /\ \/ /\ attempt[t] <= MAX_ATTEMPTS
        /\ Goto(t, "handlers")
        /\ queue' = Append(Tail(queue), t)
        /\ UNCHANGED <<at, service, attempt>>
     \/ attempt[t] > MAX_ATTEMPTS /\ Release /\ Return(t)
  /\ UNCHANGED <<runtime, chan, loop, clientVars, keyVars, historyVars,
                 managerVars, counters>>

(* The guard lives through the match, hence through the sleep.             *)
Wake(t) ==
  /\ pc[t] = "sleep"
  /\ \/ /\ attempt[t] < MAX_ATTEMPTS
        /\ Goto(t, "handlers")
        /\ queue' = Append(Tail(queue), t)
        /\ UNCHANGED <<at, service, attempt>>
     \/ attempt[t] = MAX_ATTEMPTS /\ Release /\ Return(t)
  /\ UNCHANGED <<runtime, chan, loop, clientVars, keyVars, historyVars,
                 managerVars, counters>>

(* The send waits for room, or fails for want of a receiver.               *)
trigger_resubscription(t) ==
  LET s == at[t] IN
  /\ pc[t] = "trigger"
  /\ \/ HasRoom(s) /\ chan' = [chan EXCEPT ![s] = Append(@, "Resubscribe")]
     \/ ~ HasReceiver(s) /\ UNCHANGED chan
  /\ Return(t)
  /\ UNCHANGED <<runtime, queue, loop, clientVars, keyVars, historyVars,
                 managerVars, counters>>

(* client.connect(), on whatever context the call was given.               *)
Reconnect(t) ==
  /\ pc[t] = "reconnect"
  /\ connected' = connected \cup {at[t]}
  /\ Goto(t, "handle")
  /\ UNCHANGED <<runtime, queue, at, service, attempt, chan, loop,
                 sdk_listeners, listener_id, keyVars, historyVars,
                 managerVars, counters>>

(* A request has been handled, or a receipt sent: the host is told, unless *)
(* it was given up on the way or there is nothing to tell.                 *)
forward_nwc_to_sdk(t) ==
  /\ pc[t] = "handle"
  /\ \/ Return(t) /\ UNCHANGED managerVars
     \/ Notify(t) /\ Goto(t, "reply") /\ UNCHANGED <<at, service, attempt>>
  /\ UNCHANGED <<runtime, queue, chan, loop, clientVars, keyVars, historyVars,
                 counters>>

Reply(t) ==
  /\ pc[t] = "reply" /\ Notified(t)
  /\ Return(t)
  /\ UNCHANGED <<runtime, queue, chan, loop, clientVars, keyVars, historyVars,
                 managerVars, counters>>

ServiceStep(t) ==
  get_info(t) \/ handlers(t) \/ Wake(t) \/ trigger_resubscription(t)
    \/ Reconnect(t) \/ forward_nwc_to_sdk(t) \/ Reply(t)

-----------------------------------------------------------------------------
(* The notification loop of a session.                                     *)

loopUnchanged == <<runtime, queue, taskVars, clientVars, keyVars, historyVars,
                   managerVars, sessions, calls>>

(* Mutant: a failure to subscribe leaves the receiver behind.              *)
LeaveReceiver(s) ==
  /\ loop[s] = "resubscribe"
  /\ \/ loop' = [loop EXCEPT ![s] = "select"] /\ UNCHANGED <<chan, faults>>
     \/ Fault /\ KeepReceiver(s)
  /\ UNCHANGED loopUnchanged

(* An error ends the loop for good.                                        *)
on_resubscribe(s) ==
  /\ loop[s] = "resubscribe"
  /\ \/ loop' = [loop EXCEPT ![s] = "select"] /\ UNCHANGED <<chan, faults>>
     \/ Fault /\ DropReceiver(s)
  /\ UNCHANGED loopUnchanged

(* Mutant: every action makes the loop subscribe again.                    *)
AlwaysResubscribe(s) ==
  /\ loop[s] = "select" /\ chan[s] # <<>>
  /\ loop' = [loop EXCEPT ![s] = "resubscribe"]
  /\ chan' = [chan EXCEPT ![s] = Tail(@)]
  /\ UNCHANGED <<loopUnchanged, faults>>

ReceiveAction(s) ==
  /\ loop[s] = "select" /\ chan[s] # <<>>
  /\ \/ Head(chan[s]) = "Shutdown" /\ DropReceiver(s)
     \/ /\ Head(chan[s]) = "Resubscribe"
        /\ loop' = [loop EXCEPT ![s] = "resubscribe"]
        /\ chan' = [chan EXCEPT ![s] = Tail(@)]
  /\ UNCHANGED <<loopUnchanged, faults>>

(* The timer ticks; what expired or was renewed is announced.              *)
on_interval(s) ==
  /\ loop[s] = "select"
  /\ Notify(s)
  /\ loop' = [loop EXCEPT ![s] = "notify"]
  /\ UNCHANGED <<runtime, queue, taskVars, chan, clientVars, keyVars,
                 historyVars, counters>>

IntervalOver(s) ==
  /\ loop[s] = "notify" /\ Notified(s)
  /\ loop' = [loop EXCEPT ![s] = "select"]
  /\ UNCHANGED <<loopUnchanged, chan, faults>>

LoopStep(s) ==
  on_resubscribe(s) \/ ReceiveAction(s) \/ on_interval(s) \/ IntervalOver(s)

-----------------------------------------------------------------------------
(* Notifications under way.                                                *)

BeginReading(n) ==
  /\ ReadLock(n)
  /\ UNCHANGED <<runtime, queue, taskVars, chan, loop, clientVars, keyVars,
                 historyVars, counters>>

At(n, location) == n \in Tasks /\ pc[n] = location

(* attach says Connected of its session, stop Disconnected of the runtime; *)
(* what the others say is about neither.                                   *)
ListenerReturns(n) ==
  /\ \E l \in Listeners :
       /\ on_event(n, l)
       /\ believes' = [believes EXCEPT ![l] =
            IF At(n, "send_info") THEN @ \cup {at[n]}
            ELSE IF At(n, "pause") THEN @ \ {runtime} ELSE @]
  /\ UNCHANGED <<runtime, queue, taskVars, chan, loop, clientVars, keyVars,
                 overtaken, counters>>

NotifyStep(n) == BeginReading(n) \/ ListenerReturns(n)

-----------------------------------------------------------------------------
TaskStep(t) == AttachStep(t) \/ StopStep(t) \/ ServiceStep(t)

Next ==
  \/ \E t \in Tasks : CallStarts(t) \/ TaskStep(t)
  \/ \E s \in Sessions : LoopStep(s)
  \/ \E n \in Notifiers : NotifyStep(n)

Spec == Init /\ [][Next]_vars

(* Calls, loops and notifications that have begun are polled until they    *)
(* end; tokio's select! draws the branch it tries first, so that an action *)
(* that waits is taken in the end, however often the timer ticks.  No call *)
(* is owed, no tick and no failure.                                        *)
FairSpec ==
  /\ Spec
  /\ \A t \in Tasks : WF_vars(TaskStep(t))
  /\ \A s \in Sessions : /\ WF_vars(on_resubscribe(s) \/ IntervalOver(s))
                         /\ SF_vars(ReceiveAction(s))
  /\ \A n \in Notifiers : WF_vars(NotifyStep(n))

-----------------------------------------------------------------------------
Locations ==
  {"idle", "attach", "set_seckey", "install", "on_init", "add_listener",
   "set_id", "on_connect", "send_info", "stop", "clear", "notify", "pause",
   "get_info", "handlers", "sleep", "trigger", "reconnect", "handle", "reply"}
LoopLocations ==
  {"none", "attaching", "resubscribe", "select", "notify", "gone"}

(* The types of the variables.                                             *)
TypeOK ==
  /\ runtime \in 0 .. MaxSessions
  /\ queue \in Seq(Tasks)
  /\ pc \in [Tasks -> Locations]
  /\ at \in [Tasks -> 0 .. MaxSessions]
  /\ service \in [Tasks -> {"trigger", "reconnect"}]
  /\ attempt \in [Tasks -> 0 .. MAX_ATTEMPTS]
  /\ chan \in [Sessions -> Seq(ContextActions)]
  /\ loop \in [Sessions -> LoopLocations]
  /\ connected \in SUBSET Sessions
  /\ sdk_listeners \in SUBSET Sessions
  /\ listener_id \in SUBSET Sessions
  /\ stored_key \in 0 .. MaxSessions
  /\ our_keys \in [Sessions -> 0 .. MaxSessions]
  /\ unread \in BOOLEAN
  /\ believes \in [Listeners -> SUBSET (0 .. MaxSessions)]
  /\ overtaken \in SUBSET Sessions
  /\ ManagerTypeOK
  /\ sessions \in 0 .. MaxSessions /\ calls \in Nat /\ faults \in Nat

Attached(s) == loop[s] # "none"
Stopped(s) == Attached(s) /\ runtime # s

(* What `stop` leaves behind, unless it has overtaken a call: no client is *)
(* connected, the SDK does not report payments to it any more, and its     *)
(* loop, if it has not ended, has Shutdown to read.                        *)
StoppedLeavesNothing ==
  \A s \in Sessions \ overtaken :
    Stopped(s) =>
      /\ s \notin connected
      /\ s \notin sdk_listeners
      /\ HasReceiver(s) => "Shutdown" \in Range(chan[s])

(* The host is told of the end: once a session has been stopped, and not   *)
(* overtaken, no listener that was told of its Connected is left without   *)
(* its Disconnected, whoever else notifies, comes or goes in between.      *)
DisconnectedIsHeard ==
  \A s \in Sessions \ overtaken :
    Stopped(s) => \A l \in Listeners : s \notin believes[l]

(* The wallet keeps its identity from one session to the next, unless the  *)
(* stored key could once not be read: then it is replaced for good.        *)
WalletKeyKept ==
  ~ unread => \A s, r \in Sessions :
                Attached(s) /\ Attached(r) => our_keys[s] = our_keys[r]

(* A runtime whose loop has ended by itself, or was never started, can be  *)
(* neither stopped nor replaced: stop gives up before it clears anything.  *)
DeafRuntimeStays ==
  [][runtime # 0 /\ ~ HasReceiver(runtime) /\ ~ Clearing =>
       runtime' = runtime /\ ~ HasReceiver(runtime)' /\ ~ Clearing']_vars

(* Every call returns: nobody waits for ever on the mutex, or for room in  *)
(* a channel that is not read.                                             *)
CallsReturn == \A t \in Tasks : pc[t] # "idle" ~> pc[t] = "idle"

(* The loop of a session that was stopped ends, even one that attach only  *)
(* spawns afterwards.                                                      *)
StoppedLoopsEnd == \A s \in Sessions : Stopped(s) ~> loop[s] = "gone"
=============================================================================
