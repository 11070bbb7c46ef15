# TLA+ models of the Breez SDK plugins

The repository holds two crates: `core`, the encrypted storage the host gives a
plugin, and `nostr`, a plugin that offers a Lightning wallet over Nostr (Nostr
Wallet Connect, NIP-47, and zap receipts, NIP-57). This directory models them
in TLA+, checks the models with TLC and proves theorems about them with TLAPS.

The repository has no tests and no documents beside its source comments; the
code is the reference, and what comments promise is checked against it.

## 1. The system

| Component | Source | State | Operations | Talks to |
|---|---|---|---|---|
| PluginStorage | `core/src/storage.rs` | none of its own: ciphertexts in the host's store | `get_item`, `set_item`, `set_item_safe`, `remove_item` | the host's `PluginStorageController` |
| Persister | `nostr/src/persist.rs` | none | `set_storage_safe` (optimistic, three attempts), `get_seckey`, `set_seckey` | PluginStorage |
| NWC persistence | `nip47/persist.rs`, `nip47/model.rs` | two stored maps: connections, paid invoices | add, edit, remove, refresh, `update_budget`, `get_min_interval`, `add_nwc_paid_invoice` | Persister |
| NWC wallet service | `nip47/mod.rs`, `nip47/routines.rs` | `active_connections`, a cache under a RwLock | host API (`add_`, `edit_`, `remove_`, `list_connections`, `handle_event`), `handle_event_inner`, `on_resubscribe`, `on_interval` | persistence, SDK, relays, event manager, action channel |
| Payment notifications | `nip47/sdk_services.rs` | none (reads the cache) | `handle_notif_to_relay` | relays |
| Lifecycle | `lib.rs`, `handlers/` | `runtime` under a Mutex, the action channel (10), the loop's refresh timer | `attach`, `stop`, `handlers`, the notification loop | everything |
| Context, key pair | `context.rs` | the keys, the SDK listener id | `get_or_create_keypair`, `trigger_resubscription`, `clear`, `send_event` | storage, relays |
| Event manager | `event.rs` | listeners under a RwLock, a paused flag | `add`, `remove`, `notify`, pause, resume | the host's listeners |
| Zap receipts | `nip57/` | a stored map of tracked zaps | `track_zap`, `is_zap`, receipt on a payment, cleaning | Persister, SDK, relays |
| Message encryption | `encrypt.rs` | none | NIP-04 / NIP-44 by tag | |

How they interact. The host calls the connection API from any number of tasks.
Each call updates the storage and then sends `Resubscribe` down the action
channel. The notification loop is one task: it subscribes, arms the refresh
timer, copies the stored connections into the cache, and then selects between
relay events, ticks of the timer and actions. Each relay event is handled by a
task of its own, which takes a snapshot of the cached connection, parses the
invoice, decides, and then charges the budget, pays, records or refunds, tells
the host and answers, every step being an await.

Around it, the host attaches and stops the plugin, from any task. Each `attach`
makes a runtime: a context (keys, relay client, SDK listener), an action channel
and a loop. The runtime mutex is held across awaits, and released by `attach`
before anything has been started. The SDK reports payments to the runtimes that
are registered with it, in tasks of its own, which notify the clients in the
cache or broadcast the receipt of a zap. Events for the host go through one
event manager, shared by all runtimes of a plugin.

What is hard here:

- the cache, the timer and the storage are updated by different tasks at
  different moments (stale state, lost updates, missed resubscriptions);
- money is counted in several writes around an external payment (partial
  failures, crashes, renewals and removals in between, duplicate requests);
- the storage offers only a conditional write, retried a bounded number of
  times, over values that are encrypted anew each time;
- the loop ends for good on one error, and host calls wait on its channel;
- a stop may overtake calls that still work on the runtime it clears, and its
  loop may not even have been spawned;
- locks are held across awaits: the runtime mutex through the sleep of
  `handlers`, the listeners' read lock through the host's callbacks, the cache's
  read lock through sends to the relays;
- a zap is looked up, receipted, removed and announced in four steps, under a
  name that is parsed again on the way, and any of them may fail.

What makes each component correct:

- *PluginStorage*: callers see a plaintext store; a safe write never discards
  a text its caller has not named, and is refused only for that reason.
- *Persister*: an atomic cell, with errors that leave no trace.
- *NWC persistence*: counters stay ordered, nothing is brought back.
- *Wallet service*: requests are judged by the terms the user has set; what a
  connection spent is what it was charged; a client told of a success was paid
  for; expired connections go away; nobody waits for ever.
- *Lifecycle*: a stop leaves nothing connected or registered and ends the loop;
  whoever was told that a session is connected is told when it no longer is;
  every call returns.
- *Key pair*: one key from session to session.
- *Event manager*: a listener that was removed is not called again.
- *Payment notifications*: a client dropped from the cache is told nothing
  more, and payments do not keep the cache from being replaced.
- *Zap receipts*: a zap is not forgotten without its receipt or its expiry, the
  host hears of it only then, and events of its payment that come one after the
  other do not receipt it twice.

## 2. Modules

| Module | Role |
|---|---|
| `AtomicStore` | abstract: one cell to which operations are applied at once or not at all |
| `SafeStorage` | `set_storage_safe`; implements `AtomicStore` |
| `PluginStorage` | the encrypted storage; implements `AtomicStore` over plaintexts |
| `NwcConnections` | the persisted connections and every closure over them, as pure operators |
| `ConnectionRegistry` | abstract: the terms the host has agreed to under each name |
| `NwcWallet` | the wallet service: host API, loop, handlers, crash; uses `NwcConnections`, implements `ConnectionRegistry` |
| `NwcClaims` | statements of the documentation that the code does not keep |
| `EventManager` | the host's listeners, their lock and the paused flag |
| `Lifecycle` | attach, stop, services and loops over the runtime mutex; extends `EventManager` |
| `ZapReceipts` | tracked zaps and the tasks that receipt them |
| `PaymentNotifications` | notifications to the clients in the cache, and its replacement |
| `SdkPayments` | `on_sdk_payment` over both; extends them |
| `SafeStorage_proofs`, `PluginStorage_proofs`, `NwcConnections_proofs`, `NwcWallet_proofs`, `NwcPayments_proofs`, `Lifecycle_proofs`, `SdkPayments_proofs` | theorems |
| `MCSafeStorage`, `MCNwcWallet`, `MCSdkPayments` | constants for TLC |

Composition. `SafeStorage` is parameterised by the closures (`Outcomes`);
`MCSafeStorage` instantiates it with those of `NwcConnections`. Since
`SafeStorage` implements an atomic cell, `NwcWallet` may take each
read-modify-write of the storage as one step, which may also fail. So does
`ZapReceipts`. `Lifecycle` and `NwcWallet` look at the loop from two sides: the
first at who spawns, tells and ends it, for any number of runtimes, the second
at what one loop does with the cache and the timer. The channel and the ways
the loop ends are in both.

### SafeStorage

`stored` is the item; `pc[t]` is where task `t` stands in the loop of
`set_storage_safe` (`get_data` at line 47, `set_item_safe` at line 51), `old`,
`new` and `op` are its locals, `attempt` counts the refusals. `commits` and
`since` are history. A closure may have several outcomes because some read the
clock. The conditional write compares plaintexts here, *as `set_item_safe`
documents*; `PluginStorage` shows what the code below does instead. The
theorems and the wallet model therefore speak of a host whose controller makes
the documented comparison possible.

### PluginStorage

A ciphertext is a pair of nonce and text, and every encryption draws a new
nonce. The controller belongs to the host and is external: it runs one call at
a time, compares the strings it is given, writes when there is no item, and any
call may fail without effect. Key scoping (`plugin_id-key`) is left out: one
plugin is modelled.

### NwcConnections

A store is a function from names to connections or `None`. Amounts saturate at
`MAX_SAT` (u64), seconds wrap at `U32`, as in a release build.
`connection_string` is reduced to what the properties tell apart, the secret:
the n-th connection added under a name has the secret `<<name, n>>`.
`Durations` leaves out `u32::MAX`, which the search in `get_min_interval`
starts from and never accepts.

### NwcWallet

| Variables | In the code |
|---|---|
| `connections`, `paid_invoices` | the two stored items of `nip47/persist.rs` |
| `host`, `removing` | what a caller of the host API still has to do |
| `chan`, `loop`, `timer`, `due` | the action channel, the loop of `attach`, `maybe_expiry_interval`, the refresh result not yet notified |
| `active` | `active_connections` |
| `pc`, `job`, `res` | one run of `handle_event_inner`: where it stands, its request and snapshot (`job[h].client`), its result |
| `sdk` | external: what the SDK has done about an invoice |
| `added`, `acked`, `told`, `outdated` | history: generations of names, successes reported to clients, events emitted to the host, handlers whose snapshot may not show the terms the host has set |
| `calls`, `faults`, `crashes` | bounds |

Actions follow the awaits: everything between two awaits is one step, and any
other task may run between steps. In particular `remove_connection` is two
writes and a send, `on_resubscribe` is two separate reads (`ArmTimer`,
`fetch_active_connections`), and a payment is `HandleEvent` (the snapshot, line
250), `compute_result` (the verdict on it, once `parse_invoice` has been
awaited, line 296), `Charge`, `CallPayInvoice`, `PaymentSettles`, then
`add_nwc_paid_invoice` or `Refund`, then `Reply`. The closures of an edit and of
a refresh read the clock when they run; `add_connection` reads it before its
write is tried and retried, so it may write an earlier `created_at`. A call the
code rejects (connection exists, is not found, contradictory options) changes
nothing and returns, so it is no step of the model. `HandleEvent` may take any
request of any cached connection at any time, including one it has had before:
relays repeat events and the code remembers none. Verification and decryption
are not modelled: an event that fails them is dropped. `list_transactions` and
`get_info` are treated as `get_balance`.

The SDK is assumed to pay an invoice at most once: a call during a payment of
it answers `PaymentInProgress`, a call after it an error. A payment begun
before a crash may still settle (`OrphanSettles`).

`Crash` kills the process at any moment and attaches the plugin again: only the
stored items, and what the SDK has begun, survive.

`ConnectionRegistry` is what the host may think of its connections: a map from
names to terms that only its own calls change, and time, which drops all that
expired at once. `AgreedTerms` maps the stored map to it by forgetting the
counters and the renewals of the budgets. The payments, refunds and refreshes
of `NwcWallet` read and write that same map, each whole; to the registry all
but the deletion of what expired are stutters.

### EventManager and Lifecycle

A *session* is one call of `attach` with the runtime it makes.

| Variables | In the code |
|---|---|
| `runtime`, `queue` | `NostrPlugin::runtime` and the waiters of its Mutex, in order; the head holds it |
| `pc`, `at`, `service`, `attempt` | where a call stands, the context it works on, what it wants the handlers for, the turns of `handlers()` |
| `chan`, `loop` | the action channel and where its receiver is: with `attach`, in `on_resubscribe`, in the select, or gone |
| `connected`, `sdk_listeners`, `listener_id` | the relay client, the registration with the SDK, `sdk_listener_id` |
| `stored_key`, `our_keys` | the stored secret key and that of each context; a key is named by the session that generated it |
| `is_paused`, `listeners`, `waiting`, `todo` | the event manager: the flag, the listeners, who has found events not paused and waits for the read lock, and whom each notification, holding it, has still to call |
| `believes`, `overtaken`, `unread` | history: the sessions each listener was told are connected; sessions stopped with a call still working on them; a stored key that could not be read |

`attach` is nine steps, `stop` four, each ending where the code awaits. Everyone
who notifies the host does so in three: the look at the flag (`Notify`), the
read lock (`BeginReading`), and one `on_event` per listener (`ListenerReturns`).
Those are `on_connect`, `stop`, the handlers of relay events that a loop has
spawned (`on_relay_event`), `handle_event` and receipts after they have
connected the client (`forward_nwc_to_sdk`, then `Reply`), and the loop at a tick
of its timer (`on_interval`), where one event stands for all that an interval
announces. A handler goes on when its runtime has been stopped, and so does a
notification that was past the flag. Adding and removing a listener is one step,
taken when nobody reads: the wait for the write lock is not modelled, so
`CallsReturn` says nothing of it, nor of readers that such a wait would hold up.

`Shutdown` sends the command and disconnects the client in one step: whatever
could come between might as well come before the first. A listener is assumed
to return and to make no call of the plugin before it does. The failure of the
SDK registration (`lib.rs:182-184`) cannot happen: each context is registered
once. A failure before the key is read leaves no trace, and neither does
`Keys::parse` of a malformed key; both end `attach` as a failing `set_seckey`
does.

### ZapReceipts, PaymentNotifications and SdkPayments

`bolt11[i]` is what `parse_invoice` returns of the string `i`: itself, another
spelling, or nothing. `zpc` and `receipt` are the locals of
`handle_zap_receipt`: `get_tracked_zap_raw`, `BuildReceipt` (parsing and tags),
`SendReceipt`, `remove_tracked_zap`, `AnnounceZap`. A pending payment of any
invoice may be reported at any time, any number of times. A crash ends all
tasks and keeps the stored map. `clean_expired_zaps` may run at any time,
because a later `attach` runs it while tasks of an earlier runtime go on; the
clock it goes by was read before the map. `sent` remembers which task sent which
receipt.

`reading` and `unsent` are the tasks in `handle_notif_to_relay`, which hold the
read lock of the cache, and the events each has still to send; `writing` is the
loop waiting for the write lock in `on_resubscribe`. The storage is read after
the lock is granted (`nip47/routines.rs:64-65`).

## 3. Runs

All bounds are constants of the configurations. Deadlock is not checked
(`CHECK_DEADLOCK FALSE`): the bounded clock, calls and nonces let a behaviour
stop, and a wallet with no requests stops too. One caller that waits for ever
is what `HostCallsReturn` and `CallsReturn` look for.

| Run | Checks | Bounds |
|---|---|---|
| `safe_storage` | `TypeOK`, `RefusalsPaidFor`, `ExhaustionNeedsContention`, `ImplementsCell` | 2 tasks, 5 calls, 1 connection, the 6 closures, amounts up to 2, 3 attempts |
| `plugin_storage` | `TypeOK`, `ImplementsPlain` | 2 tasks, 2 keys, 2 texts, 3 encryptions |
| `plugin_refused` | `RefusedOnlyIfModified` is violated | 1 key |
| `nwc_money` | `TypeOK`, `UsedWithinPaid`, `NoResurrection`, `PaymentsWithinTerms` | 2 handlers, 1 connection, 5 requests (one amountless, one unparsable), 2 host calls, clock 0..1 |
| `nwc_money_faults` | `PaidAmountExact`, `PaidAmountCovers`, `SuccessRecorded` | 2 handlers, 2 invoices, 2 host calls, 1 fault, 1 crash |
| `nwc_coherence` | `ServedAsPersisted`, `RevokedNotServed`, `RefreshScheduled`, `ImplementsRegistry` | 2 callers, 3 host calls, 1 handler, clock 0..2, 1 fault, channel of 1 |
| `nwc_liveness` | `EventuallyServed`, `ExpiredDeleted`, `HostCallsReturn` | 2 callers, 2 host calls, clock 0..4, channel of 1, no faults |
| `nwc_overspend` | `MaxBudgetRespected` is violated | 2 invoices of 2 and 3 sat, budget 4 |
| `nwc_served_expired` | `ExpiredPaysNothing` is violated | 1 invoice, clock 0..2 |
| `nwc_unlistened` | `HandleEventKnowsClients` is violated | 1 connection, no loop, no faults |
| `lifecycle` | `TypeOK`, `StoppedLeavesNothing`, `DisconnectedIsHeard`, `WalletKeyKept`, `RemovedHearsNothing`, `DeafRuntimeStays`, `CallsReturn`, `StoppedLoopsEnd` | 2 tasks, 2 sessions, 4 calls, 1 listener, channel of 1, 1 fault |
| `sdk_payments` | `TypeOK`, `AnnouncedIsReceipted`, `DroppedHearsNothing`, `ForgottenOnlyIfReceipted`, `OneReceiptPerTask`, `CacheCatchesUp` | 2 tasks, 3 spellings of invoices, 2 requests (one without `p` tag), 2 calls of `track_zap`, 1 connection, clock 0..1, 1 fault or crash |

Why the bounds are enough. Two tasks or handlers are what every race here is
between; a third would repeat one. Five calls let one add a connection and three
others overtake the fifth, so that its three attempts are exhausted. A channel
of one command is full as soon as two callers have finished, which ten would
only postpone. One minute is one second (`SECONDS_PER_MINUTE = 1`), so expiry,
renewal and the clamp to the minimum interval all happen within a few ticks.
`nwc_money_faults` has no clock: renewals do not touch `paid_amount_sat`.
Handlers are interchangeable, and so are the host's tasks, so the runs without
liveness use their symmetry. Four calls let a session be attached, stopped and
attached again while one more call is under way in it, which is the longest
story the lifecycle properties tell. Two calls of `track_zap` replace a zap, or
track it under two spellings, while two tasks receipt it. What is proved
(section 5) holds without any of these bounds.

Fairness (`FairSpec`, only in `nwc_liveness`, `nwc_unlistened`, `lifecycle` and
`sdk_payments`). Tokio polls a spawned task until it ends, so each task's own
steps are weakly fair, step by step: the caller's, the loop's and each
handler's. The clock ticks up to its bound. Payments the SDK has begun end.
Nothing is assumed of the environment: no event has to arrive, no call has to be
made, no failure has to happen. Tokio's Mutex is granted in the order of the
requests, which is what `queue` is; its RwLock does not let a reader pass a
writer that waits, which is the guard of `StartNotifying`; its `select!` draws
the branch it tries first, so an action that waits in the channel is taken in
the end, however many relay events and ticks there are. A waiting call's steps
are fair as long as they are enabled. `CallsReturn` of `Lifecycle` rests on
listeners and relays that answer: `on_event(t, l)` and the sends are steps that
happen. `ExpiredDeleted` is stated from the moment the host stops calling,
because each resubscription starts a new interval: a host that edits more often
than the interval puts the refresh off for as long as it likes.

What some properties leave out on purpose:

- `PaidAmountExact`, `PaidAmountCovers` speak of names added once. A refund is
  addressed by name: after a removal and a new connection of that name it
  reduces the new connection's counters.
- `PaidAmountExact`, `RevokedNotServed` and `RefreshScheduled` assume that
  nothing has failed (and the first that nothing crashed). A failed refund
  leaks a charge; a failed second write of a removal skips the resubscription;
  a failed read in `get_min_interval` leaves no timer.
- `ServedAsPersisted` compares the *terms* of a connection, not its counters,
  which the cache does not follow (see below), and holds with failures too.
- `PaymentsWithinTerms` leaves out the handlers in `outdated`: those whose
  snapshot was taken while the loop owed a resubscription, and those that had
  one when the host changed the connection. Such a handler charges and pays by
  the old terms (section 4). Of the others it compares the amount with the whole
  budget, not with what is left of it, which is the finding of `nwc_overspend`.
- `SuccessRecorded` asks for the recorded invoice only where `NoOverlap` holds:
  the connection is the first of its name, or the host makes one call at a time.
  Of two tasks, one may add a name again while the other is between the two
  writes of its removal (`nip47/persist.rs:199`); the second write, which goes
  by name, then takes the paid invoices of the new connection with it. The run
  has one task and two host calls, which do not add a name again; re-added names
  under one task, and first connections under any number of tasks, are covered
  by the proof.
- The sums of `PaidAmountExact` and `PaidAmountCovers` are counted satoshi by
  satoshi, as the size of a set, so that facts about finite sets apply to them.
- `StoppedLeavesNothing` and `DisconnectedIsHeard` leave out sessions in
  `overtaken`: a stop that comes while `attach`, `handle_event` or a receipt
  still works on the context leaves a listener registered, a client connected
  or events paused and resumed out of turn (section 4).
- `DisconnectedIsHeard` is about Connected and Disconnected. It does not say that
  Disconnected comes last: it does not (section 4).
- `WalletKeyKept` stops when a stored key could not be read (section 4).
- `OneReceiptPerTask` speaks of zaps tracked once under the spelling the parsed
  invoice has, with no failures, and of what one task sends. Events of a payment
  that overlap may each send a receipt (section 4). Tracked under another
  spelling, a zap is receipted at every event of its payment until it expires,
  because the receipt is removed under the parsed name.
- `ForgottenOnlyIfReceipted` lets a zap go whose request was replaced while the
  receipt of the former one was on its way: it is removed by name.

## 4. What the code does otherwise than it says

Four runs end in a violation, one per finding:

1. `set_item_safe` encrypts `old_value` under a new nonce (`storage.rs:140-143`):
   a controller that compares what it is given refuses the write of an
   unmodified item with `DataTooOld`, against the doc at `storage.rs:133`.
2. The budget is checked against the cache (`nip47/mod.rs:311-316`), which no
   charge updates: two payments in sequence exceed `max_budget_sat`, against
   `nip47/model.rs:38` and the comment at `nip47/mod.rs:317-318`.
3. An expired connection is deleted from the storage and announced as expired,
   but is served from the cache until the next resubscription
   (`nip47/routines.rs:15-30`), against `nip47/model.rs:94`.
4. With `listen_to_events = Some(false)` the loop that fills the cache is never
   spawned (`lib.rs:192-194`), so `handle_event` knows no client, against
   `model.rs:14`, "Recommended to set to `Some(false)` if you only need event
   handling".

Met while modelling, without a run of their own:

- a payment that fails after its period was renewed is refunded to the new
  period; a renewal is not cached, so a request the new period allows may be
  refused; `paid_amount_sat`, "the _total_ amount of funds sent", is only
  counted for connections with a budget;
- a handler decides on the connection it copied from the cache
  (`nip47/mod.rs:250-259`) and looks at it no more: an edit or removal that is
  stored, and even taken up by the loop, before the handler charges (line 322)
  or pays (line 330) does not stop the payment;
- Disconnected (`context.rs:95-100`) need not be the last event. Relay handlers
  (`lib.rs:213`), `on_interval` (`nip47/routines.rs:15-42`), receipts
  (`nip57/sdk_services.rs:96`) and `handle_event` may notify between it and the
  pause (line 101); a notification that found events not paused is delivered
  even after `stop` has returned, because `notify` looks at the flag
  (`event.rs:69`) before it waits for the lock (line 75); and those of the
  stopped runtime that come after the next `attach` has resumed events are
  delivered too;
- a listener that adds or removes a listener from its callback waits for itself,
  since `notify` holds the read lock (`event.rs:75-76`);
- two overlapping events of one payment both find the zap tracked
  (`nip57/sdk_services.rs:20`) before either has removed it (line 93), and send a
  receipt each;
- `stop` returns at `lib.rs:97-98` without clearing anything when the loop has
  ended on an error, has not been started because `attach` failed, or never is
  (finding 4); from then on `attach` answers "already running" (`lib.rs:150`).
  `DeafRuntimeStays` states it, and is proved;
- a read of the secret key that fails is taken for a missing key
  (`context.rs:71`): "If none exists, generate a new one" (line 75) then
  overwrites the wallet's identity for good;
- the receipt of a zap is broadcast when its payment is *pending*
  (`nip57/sdk_services.rs:108`), not "until the payment is complete"
  (`nip57/mod.rs:19-20`): payments that then fail have been receipted;
- a stop that overtakes a call leaves traces: the client is connected again by
  `attach` (`lib.rs:186`), `handle_event` (`nip47/mod.rs:183`) or a receipt
  (`nip57/sdk_services.rs:87`), and a listener registered after `clear` has
  looked for its id (`context.rs:90`) stays with the SDK.

## 5. Proofs

Assumptions: `ConstantsAssumption` and `OutcomesAssumption` (SafeStorage),
`StorageAssumption` (PluginStorage), `NwcAssumption`, `NoneAssumption`,
`WalletAssumption` and `FiniteAssumption` (the wallet): types of the constants,
that `None` is not one of the values it stands beside, and that there are
finitely many invoices and handlers, as many as one likes. TLC evaluates them on
every run.

- `SafeStorage_proofs`. `IInv` is `TypeOK`, `RefusalsPaidFor` and
  `ExhaustionNeedsContention`; `RefusalsArePaidFor` is the second by itself.
  Exhaustion alone is not inductive: it needs to know that each refusal so far,
  and the one that is due when the value read has been replaced, is paid for by
  a commit made since the call began. `SafeStorageImplementsCell` uses the other
  half of `RefusalsPaidFor`: the task about to write holds the closure's answer
  to the very data it asks to replace, so a write that is accepted is the
  closure applied at that moment.
- `PluginStorage_proofs`. `StorageImplementsPlain` shows each step to be one of
  the store of plaintexts. It needs `SentInv`: what a caller has sent are
  ciphertexts of the texts of its own request. Equal ciphertexts are then of
  equal texts, so the controller replaces nothing the caller has not named.
  The converse fails (the nonces differ), so the store of plaintexts may refuse
  a conditional write it need not refuse: the finding of `plugin_refused`.
- `NwcConnections_proofs`. Lemmas on the closures: each keeps a store a store,
  what it does to a connection's terms, to its durations and to its counters.
- `NwcWallet_proofs`. `TypeCorrect` needs a strengthening (`Types`): what a
  handler or a caller holds at each of its locations. `UsedNeverExceedsPaid`
  is inductive over it: charges and refunds move both counters alike, and
  saturation at either end keeps their order; resets only lower the used one.
  `CacheFollowsStorage`, `RemovalReachesCache` and `RefreshIsScheduled` carry,
  beside the property, that any update not yet in the cache or the timer has a
  resubscription pending: in the channel, in a caller about to send it, or in
  the loop itself. They hold for any number of callers and any capacity.
  `NothingResurrects` is an action property, case by case.
  `WalletImplementsRegistry` maps each step to one of `ConnectionRegistry`. The
  writes of `Charge`, `Refund` and `on_interval` are the steps that could fail
  it: each applies its closure to what is stored at that moment, and the lemmas
  on the closures say what is left of the terms.
- `NwcPayments_proofs`, about payments. `IdentityInv`: secrets are never used
  twice, and whoever holds one (the cache, a handler, the SDK, a client) holds
  one that was issued. `PaymentInv` and `NoOrphan`: the SDK's side of a payment
  agrees with the handler's, no two handlers wait for one invoice, and without
  a crash somebody waits for each. On these rest
  - `PaidAmountIsCovered` and `PaidAmountIsExact`, through `MoneyInv`. With
    `owed` the charged payments plus the charges not yet for a payment, or to be
    refunded, it says `owed <= paid_amount_sat <= MAX_SAT`, with equality until
    something fails or crashes. `PaidAmountCovers` alone is not inductive:
    a refund lowers the counter, and only the charge it undoes, which is in
    `owed`, pays for that. Each step moves an invoice or a handler into or out
    of a set that is summed, and the lemmas on `Total` say by how much;
  - `SuccessIsRecorded`, through `RecordInv`: whoever is about to report a
    success has recorded it, whoever is about to record has paid, and a removal
    between its two writes has no connection left that it could hurt;
  - `BegunWithinTerms`, through `TermsInv`: a handler that is not outdated has
    the persisted terms in its snapshot, and once it has decided, the persisted
    terms allow its payment. The snapshot is taken from a cache that agrees with
    the storage (`ServedAsPersisted`), and no step but an edit or an addition,
    which outdates it, changes terms (`TermsStand`).

  The two theorems on money have the premise `[]NoSaturation`: no charge takes
  `paid_amount_sat` past `u64::MAX`. It is needed, since a counter that has
  saturated is less than what was paid and a refund then takes it lower still.
  2^64 satoshis are several thousand times all the bitcoin there can ever be, and
  a request asks for at most a thousandth of them (its amount is a u64 of
  millisatoshis): a thousand such charges, unpaid, would have to be outstanding
  at once or lost to failures. In the runs, `MAX_SAT` is out of reach too.

- `Lifecycle_proofs`. `Base` is the types and who is where: whoever stands where
  the mutex is needed is the head of its queue (`LockInv`), each `attach` works
  on a session of its own whose receiver it holds (`SessionInv`). Over it,
  `StopInv` strengthens `StoppedLeavesNothing`, which speaks only of sessions
  already stopped, to the steps of a stop: once Shutdown is sent the client is
  disconnected (`LeftInv`), a registered listener has its id set unless `attach`
  is about to (`ListenerInv`), events are not paused when Disconnected is to be
  emitted (`PausedInv`), and whoever could undo any of this works on an
  overtaken session (`OvertakenInv`). `DisconnectedIsHeard` follows from
  `HeardInv`: a listener that was told of Connected, and not yet of
  Disconnected, is registered, the session is the runtime that is there, and a
  stop that has emitted Disconnected still waits for the lock or has that
  listener to call. `PausedInv` makes `Notify` take effect, and the read lock
  keeps the listener registered until it has been called. `KeyInv` adds that the
  mutex is held from reading the key to installing it, so that nobody can
  generate a second one. `DeafRuntimeStays` is an action property from `Base`.
- `SdkPayments_proofs`. `OneReceiptPerTask` rests on `OnceInv`: a task that has
  receipted a zap tracked once is about to remove it, or the zap is gone and the
  task holds no other lookup of it; and on `TrackInv`: whoever sends a receipt
  does it for a zap that was tracked, so that one tracked once is not tracked
  after its receipt. `AnnouncedIsReceipted` needs that the zap is gone when its
  task comes to tell of it (`NotifyInv`). Who is not reading the cache has
  nothing to send.

Assumptions of the last two: `LifecycleAssumption`, `ZapAssumption`,
`ZapNoneAssumption`, `SendersAssumption`, again types of the constants (and that
tasks and loops are all who notify).

Only model-checked: all liveness (`CallsReturn`, `EventuallyServed`,
`ExpiredDeleted`, `HostCallsReturn`, `StoppedLoopsEnd`, `CacheCatchesUp`), since
fairness and ENABLED are out of the prover's reach, and what the four runs of
section 4 find violated. Every other property of a run is proved.

## 6. Not modelled, and what remains

Not modelled:

- `encrypt.rs`: the choice of NIP-04 or NIP-44 by a tag, pure, and told apart
  by no property; the contents of events, notifications and receipts;
- `forward.rs` (both) and `handlers/builder.rs`: they pass calls on;
- `error.rs` and the types of `model.rs`; the relays and the SDK, which are
  outside the repository;
- the wait of `add_event_listener` and `remove_event_listener` for the write lock
  (section 2), and listeners that call the plugin from their callback;
- the receiver of relay notifications, replaced at every end of stored events
  and every resubscription (`lib.rs:206,219`). It can only lose events, and
  the models let any event be lost.

What remains, in the order it would be taken up:

1. The u32 wrap of expiries, reached with a small `U32`.
2. The refinement of `SafeStorage` composed with `PluginStorage` for a
   controller that compares plaintexts.
3. Several runtimes over one `NwcWallet`: handlers of a stopped runtime go on
   with the cache of their own while the next one serves the same storage.
