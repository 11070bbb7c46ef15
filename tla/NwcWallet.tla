------------------------------ MODULE NwcWallet ------------------------------
(***************************************************************************)
(* The Nostr Wallet Connect service of one attached plugin: the host's     *)
(* connection API, the notification loop with its refresh timer, and the   *)
(* concurrent handlers of wallet requests, over the persisted connections. *)
(*                                                                         *)
(* Every access to the storage is one step, which SafeStorage shows        *)
(* set_storage_safe to amount to; a step that may fail there may fail here *)
(* (at most MaxFaults times).  Between any two steps of a task all others  *)
(* may run, exactly at the points where the code awaits.                   *)
(***************************************************************************)
EXTENDS NwcConnections, FiniteSets

CONSTANTS
  Callers,           \* host tasks calling add_, edit_ and remove_connection
  Handlers,          \* concurrent runs of handle_event_inner
  Invoices,          \* bolt11 invoices
  Parsable,          \* those the SDK can parse
  InvoiceMsat,       \* InvoiceMsat[i]: their amounts, None if amountless
  Requests,          \* wallet requests: [method, invoice, amount]
  AddRequests,       \* what the host asks of add_connection
  EditRequests,      \* what it asks of edit_connection
  CHANNEL_CAPACITY,  \* 10 in the code
  ListenToEvents,    \* NostrConfig::listen_to_events
  MaxNow,            \* bound: the clock stops there
  MaxHostCalls,      \* bound: host calls in a behaviour
  MaxFaults,         \* bound: failures of the storage or the relays
  MaxCrashes         \* bound: crashes of the process

(* The refresh timer: its next tick and its period.                        *)
Timers == [next : Nat, period : Nat]

(* list_transactions and get_info are treated as get_balance is.           *)
Methods == {"pay_invoice", "make_invoice", "get_balance", "unhandled"}

ASSUME WalletAssumption ==
  /\ Parsable \subseteq Invoices
  /\ InvoiceMsat \in [Invoices -> Nat \cup {None}]
  /\ Requests \subseteq [method : Methods, invoice : Invoices,
                         amount : Nat \cup {None}]
  /\ AddRequests \subseteq
       [name : Names, receive_only : BOOLEAN \cup {None},
        expiry_time_mins : Nat \cup {None},
        periodic_budget_req : BudgetRequests \cup {None}]
  /\ EditRequests \subseteq
       [name : Names, receive_only : BOOLEAN \cup {None},
        expiry_time_mins : Nat \cup {None},
        remove_expiry : BOOLEAN \cup {None},
        periodic_budget_req : BudgetRequests \cup {None},
        remove_periodic_budget : BOOLEAN \cup {None}]
  /\ CHANNEL_CAPACITY \in Nat \ {0}
  /\ ListenToEvents \in BOOLEAN
  /\ MaxNow \in Nat /\ MaxHostCalls \in Nat
  /\ MaxFaults \in Nat /\ MaxCrashes \in Nat
  /\ None \notin Timers

(* Only finitely many handlers run, and of finitely many invoices.         *)
ASSUME FiniteAssumption == IsFiniteSet(Handlers) /\ IsFiniteSet(Invoices)

VARIABLES
  now,            \* utils::now()
  connections,    \* persisted: KEY_NWC_CONNECTIONS
  paid_invoices,  \* persisted: KEY_NWC_PAID_INVOICES
  added,          \* added[n]: connections added under the name n so far
  host,           \* host[c]: where the caller c stands in an API call
  removing,       \* removing[c]: the connection c is removing
  chan,           \* Resubscribe commands in the action channel
  loop,           \* where the notification loop stands
  timer,          \* its interval: next tick and period, None if unarmed
  due,            \* the outcome of a refresh not yet notified
  active,         \* active_connections: the store as last fetched
  pc,             \* pc[h]: where the handler h stands
  job,            \* job[h]: its request and what it read from `active`
  outdated,       \* history: handlers whose snapshot may be outdated
  res,            \* res[h]: the result it is going to answer
  sdk,            \* sdk[i]: what the SDK has done about the invoice i
  acked,          \* history: payments reported as made, as [to, invoice]
  told,           \* history: host notifications, as [kind, connection_name]
  calls, faults, crashes  \* bounded counters

storeVars == <<connections, paid_invoices, added>>
hostVars == <<host, removing, calls>>
loopVars == <<loop, timer, due>>
handlerVars == <<pc, job, res>>
seenVars == <<acked, told, outdated>>
vars == <<now, storeVars, hostVars, chan, loopVars, active, handlerVars, sdk,
          seenVars, faults, crashes>>

NotPaid == [state |-> "none", by |-> None, charged |-> FALSE, sat |-> 0,
            period |-> None]

(* Mutant: the flag is taken for its opposite.                             *)
LoopUnlessListening == IF ListenToEvents THEN "off" ELSE "resubscribe"

(* The loop of a runtime that has just been attached; without              *)
(* listen_to_events `attach` returns before it is spawned.                 *)
LoopStart == IF ListenToEvents THEN "resubscribe" ELSE "off"

Init ==
  /\ now = 0
  /\ connections = [n \in Names |-> None]
  /\ paid_invoices = [n \in Names |-> {}]
  /\ added = [n \in Names |-> 0]
  /\ host = [c \in Callers |-> "idle"]
  /\ removing = [c \in Callers |-> None]
  /\ chan = 0
  /\ loop = LoopStart
  /\ timer = None
  /\ due = [deleted |-> {}, refreshed |-> {}]
  /\ active = [n \in Names |-> None]
  /\ pc = [h \in Handlers |-> "idle"]
  /\ job = [h \in Handlers |-> None]
  /\ res = [h \in Handlers |-> None]
  /\ sdk = [i \in Invoices |-> NotPaid]
  /\ acked = {}
  /\ told = {}
  /\ outdated = {}
  /\ calls = 0 /\ faults = 0 /\ crashes = 0

(* A failure of the storage or of the relays, of which there are few.      *)
Fault == faults < MaxFaults /\ faults' = faults + 1

Tick ==
  /\ now < MaxNow
  /\ now' = now + 1
  /\ UNCHANGED <<storeVars, hostVars, chan, loopVars, active, handlerVars, sdk,
                 seenVars, faults, crashes>>

-----------------------------------------------------------------------------
(* The host's API.  A call that is rejected changes nothing and returns;   *)
(* one that succeeds in the storage goes on to trigger_resubscription.     *)

HostCall(c) == host[c] = "idle" /\ calls < MaxHostCalls /\ calls' = calls + 1

(* History: the host changes the connection n, of which the handlers that  *)
(* have not called the SDK yet go on with their snapshot.                  *)
Outdate(n) ==
  outdated' = outdated \cup {h \in Handlers :
                               /\ pc[h] \in {"verdict", "charge", "pay"}
                               /\ job[h].name = n}

(* The clock is read, for created_at, before the write is tried and        *)
(* retried.                                                                *)
add_connection(c) ==
  /\ HostCall(c)
  /\ \E req \in AddRequests, at \in 0 .. now :
       LET n == req.name
           con == NewConnection(req, <<n, added[n] + 1>>, at)
           out == add_nwc_connection(connections, n, con)
       IN /\ out.changed
          /\ connections' = out.data
          /\ added' = [added EXCEPT ![n] = @ + 1]
          /\ Outdate(n)
  /\ host' = [host EXCEPT ![c] = "trigger"]
  /\ UNCHANGED <<now, paid_invoices, removing, chan, loopVars, active,
                 handlerVars, sdk, acked, told, faults, crashes>>

(* Here the closure reads it, at each attempt.                             *)
edit_connection(c) ==
  /\ HostCall(c)
  /\ \E req \in EditRequests :
       LET out == edit_nwc_connection(connections, req, now)
       IN /\ out.changed
          /\ connections' = out.data
          /\ Outdate(req.name)
  /\ host' = [host EXCEPT ![c] = "trigger"]
  /\ UNCHANGED <<now, paid_invoices, added, removing, chan, loopVars, active,
                 handlerVars, sdk, acked, told, faults, crashes>>

remove_connection(c) ==
  /\ HostCall(c)
  /\ \E n \in Names :
       LET out == remove_nwc_connection(connections, n)
       IN /\ out.changed
          /\ connections' = out.data
          /\ removing' = [removing EXCEPT ![c] = n]
  /\ host' = [host EXCEPT ![c] = "forget"]
  /\ UNCHANGED <<now, paid_invoices, added, chan, loopVars, active,
                 handlerVars, sdk, seenVars, faults, crashes>>

(* Mutant: the loop is not told to resubscribe.                            *)
ForgetUnpublished(c) ==
  /\ host[c] = "forget"
  /\ removing' = [removing EXCEPT ![c] = None]
  /\ paid_invoices' = [paid_invoices EXCEPT ![removing[c]] = {}]
  /\ host' = [host EXCEPT ![c] = "idle"]
  /\ UNCHANGED <<now, connections, added, calls, chan, loopVars, active,
                 handlerVars, sdk, seenVars, faults, crashes>>

(* The second write of remove_nwc_connection.  If it fails, the `?` of     *)
(* remove_connection returns before the resubscription is triggered.       *)
ForgetPaidInvoices(c) ==
  /\ host[c] = "forget"
  /\ removing' = [removing EXCEPT ![c] = None]
  /\ \/ /\ paid_invoices' = [paid_invoices EXCEPT ![removing[c]] = {}]
        /\ host' = [host EXCEPT ![c] = "trigger"]
        /\ UNCHANGED faults
     \/ /\ Fault
        /\ host' = [host EXCEPT ![c] = "idle"]
        /\ UNCHANGED paid_invoices
  /\ UNCHANGED <<now, connections, added, calls, chan, loopVars, active,
                 handlerVars, sdk, seenVars, crashes>>

(* send(Resubscribe) waits for room in the channel; once the loop, and the *)
(* receiver with it, is gone it fails, which is ignored.                   *)
trigger_resubscription(c) ==
  /\ host[c] = "trigger"
  /\ \/ loop # "off" /\ chan < CHANNEL_CAPACITY /\ chan' = chan + 1
     \/ loop = "off" /\ UNCHANGED chan
  /\ host' = [host EXCEPT ![c] = "idle"]
  /\ UNCHANGED <<now, storeVars, removing, calls, loopVars, active,
                 handlerVars, sdk, seenVars, faults, crashes>>

HostStep(c) == ForgetPaidInvoices(c) \/ trigger_resubscription(c)

-----------------------------------------------------------------------------
(* The notification loop: on_resubscribe, the select, on_interval.         *)

(* Mutant: a timer that is armed is left as it is.                         *)
ArmTimerOnce ==
  /\ loop = "resubscribe"
  /\ LET period == get_min_interval(connections)
     IN timer' = IF timer # None \/ period = None THEN timer
                 ELSE [next |-> now + period, period |-> period]
  /\ loop' = "fetch"
  /\ UNCHANGED <<now, storeVars, hostVars, chan, due, active, handlerVars, sdk,
                 seenVars, faults, crashes>>

(* The period is read first, in a read of its own.  A failure of it leaves *)
(* the timer unarmed; the first tick of a new interval is consumed.        *)
ArmTimer ==
  /\ loop = "resubscribe"
  /\ \/ /\ LET period == get_min_interval(connections)
           IN timer' = IF period = None THEN None
                       ELSE [next |-> now + period, period |-> period]
        /\ UNCHANGED faults
     \/ Fault /\ timer' = None
  /\ loop' = "fetch"
  /\ UNCHANGED <<now, storeVars, hostVars, chan, due, active, handlerVars, sdk,
                 seenVars, crashes>>

(* Mutant: connections that are cached already are not replaced.           *)
FetchMissing ==
  /\ loop = "fetch"
  /\ active' = [n \in Names |->
                  IF active[n] # None THEN active[n] ELSE connections[n]]
  /\ loop' = "select"
  /\ UNCHANGED <<now, storeVars, hostVars, chan, timer, due, handlerVars, sdk,
                 seenVars, faults, crashes>>

(* Under the write lock.  A failure here, or of the subscription before    *)
(* it, ends the loop: nothing will be received any more.                   *)
fetch_active_connections ==
  /\ loop = "fetch"
  /\ \/ /\ active' = connections
        /\ loop' = "select"
        /\ UNCHANGED <<faults, chan, timer>>
     \/ /\ Fault
        /\ loop' = "off"
        /\ chan' = 0
        /\ timer' = None
        /\ UNCHANGED active
  /\ UNCHANGED <<now, storeVars, hostVars, due, handlerVars, sdk, seenVars,
                 crashes>>

(* Mutant: the command is not taken out of the channel.                    *)
ResubscribePeeking ==
  /\ loop = "select" /\ chan > 0
  /\ loop' = "resubscribe"
  /\ UNCHANGED <<now, storeVars, hostVars, chan, timer, due, active,
                 handlerVars, sdk, seenVars, faults, crashes>>

Resubscribe ==
  /\ loop = "select" /\ chan > 0
  /\ chan' = chan - 1
  /\ loop' = "resubscribe"
  /\ UNCHANGED <<now, storeVars, hostVars, timer, due, active, handlerVars,
                 sdk, seenVars, faults, crashes>>

(* A tick of the timer.  A failed refresh is only logged.                  *)
on_interval ==
  /\ loop = "select" /\ timer # None
  /\ now >= timer.next
  /\ timer' = [timer EXCEPT !.next = @ + timer.period]
  /\ \/ LET out == refresh_connections(connections, now)
        IN /\ connections' = out.data
           /\ due' = out.res
           /\ loop' = IF out.changed THEN "notify" ELSE "select"
           /\ UNCHANGED faults
     \/ Fault /\ UNCHANGED <<connections, due, loop>>
  /\ UNCHANGED <<now, paid_invoices, added, hostVars, chan, active,
                 handlerVars, sdk, seenVars, crashes>>

NotifyRefreshed ==
  /\ loop = "notify"
  /\ told' = told
       \cup {[kind |-> "ConnectionExpired", connection_name |-> n] :
               n \in due.deleted}
       \cup {[kind |-> "ConnectionRefreshed", connection_name |-> n] :
               n \in due.refreshed}
  /\ due' = [deleted |-> {}, refreshed |-> {}]
  /\ loop' = "select"
  /\ UNCHANGED <<now, storeVars, hostVars, chan, timer, active, handlerVars,
                 sdk, acked, outdated, faults, crashes>>

LoopStep ==
  \/ ArmTimer \/ fetch_active_connections \/ Resubscribe
  \/ on_interval \/ NotifyRefreshed

-----------------------------------------------------------------------------
(* handle_event_inner, reached from the loop and from handle_event.        *)

(* req.amount.or(amount_msat), in satoshi rounded up.                      *)
Msat(req) == IF req.amount # None THEN req.amount ELSE InvoiceMsat[req.invoice]
AmountSat(req) == (Msat(req) + 999) \div 1000

(* No resubscription is under way or owed.                                 *)
NothingPending == chan = 0 /\ \A c \in Callers : host[c] # "trigger"

CaughtUp == loop \in {"select", "notify"} /\ NothingPending

(* The early returns of a request, in their order, decided on the snapshot *)
(* of the connection.                                                      *)
Verdict(con, req) ==
  LET budget == con.periodic_budget IN
  IF con.receive_only /\ req.method # "make_invoice" THEN "Generic"
  ELSE IF req.method = "unhandled" THEN "Generic"
  ELSE IF req.method # "pay_invoice" THEN "Serve"
  ELSE IF req.invoice \notin Parsable THEN "Generic"
  ELSE IF Msat(req) = None THEN "InvoiceWithoutAmount"
  ELSE IF budget = None THEN "Pay"
  ELSE IF budget.used_budget_sat + AmountSat(req) > budget.max_budget_sat
  THEN "MaxBudgetExceeded"
  ELSE "Charge"

Answer(h, r) ==
  /\ pc' = [pc EXCEPT ![h] = "reply"]
  /\ res' = [res EXCEPT ![h] = r]

(* An event signed with the secret of a cached connection arrives, perhaps *)
(* not for the first time, and a snapshot of the connection is taken.  Any *)
(* other event is dropped.  (History: the snapshot is up to date if the    *)
(* loop owes no resubscription.)                                           *)
HandleEvent(h) ==
  /\ pc[h] = "idle"
  /\ \E n \in Names, req \in Requests :
       /\ active[n] # None
       /\ job' = [job EXCEPT ![h] =
                     [secret |-> active[n].secret, req |-> req, name |-> n,
                      client |-> active[n], charged |-> FALSE,
                      period |-> None]]
  /\ pc' = [pc EXCEPT ![h] = "verdict"]
  /\ outdated' = IF CaughtUp THEN outdated ELSE outdated \cup {h}
  /\ UNCHANGED <<now, storeVars, hostVars, chan, loopVars, active, res, sdk,
                 acked, told, faults, crashes>>

(* Once the invoice is parsed, which is awaited, the snapshot decides.     *)
compute_result(h) ==
  LET j == job[h]
      verdict == Verdict(j.client, j.req)
  IN
  /\ pc[h] = "verdict"
  /\ job' = [job EXCEPT ![h].client = None,
                        ![h].charged = verdict = "Charge"]
  /\ \/ /\ verdict \in {"Generic", "InvoiceWithoutAmount",
                         "MaxBudgetExceeded"}
        /\ Answer(h, verdict)
     \/ /\ verdict = "Serve"
        /\ \E r \in {"Ok", "Generic"} : Answer(h, r)
     \/ /\ verdict = "Pay"
        /\ pc' = [pc EXCEPT ![h] = "pay"]
        /\ UNCHANGED res
     \/ /\ verdict = "Charge"
        /\ pc' = [pc EXCEPT ![h] = "charge"]
        /\ UNCHANGED res
  /\ UNCHANGED <<now, storeVars, hostVars, chan, loopVars, active, sdk,
                 seenVars, faults, crashes>>

PeriodOf(c) ==
  IF c.periodic_budget = None THEN None ELSE c.periodic_budget.updated_at

(* Mutant: the cached connection is written back.                          *)
ChargeCached(h) ==
  LET n == job[h].name IN
  /\ pc[h] = "charge" /\ active[n] # None
  /\ connections' = [connections EXCEPT ![n] =
                       Spend(active[n], AmountSat(job[h].req))]
  /\ pc' = [pc EXCEPT ![h] = "pay"]
  /\ UNCHANGED <<now, paid_invoices, added, hostVars, chan, loopVars, active,
                 job, res, sdk, seenVars, faults, crashes>>

(* Mutant: a failure to charge is ignored.                                 *)
ChargeOrNot(h) ==
  LET n == job[h].name
      out == update_budget(connections, n, AmountSat(job[h].req))
  IN
  /\ pc[h] = "charge"
  /\ \/ connections' = out.data /\ UNCHANGED faults
     \/ Fault /\ UNCHANGED connections
  /\ pc' = [pc EXCEPT ![h] = "pay"]
  /\ UNCHANGED <<now, paid_invoices, added, hostVars, chan, loopVars, active,
                 job, res, sdk, seenVars, crashes>>

(* The budget is charged before the payment is attempted.                  *)
Charge(h) ==
  LET n == job[h].name
      out == update_budget(connections, n, AmountSat(job[h].req))
  IN
  /\ pc[h] = "charge"
  /\ \/ /\ out.changed
        /\ connections' = out.data
        /\ job' = [job EXCEPT ![h].period = PeriodOf(connections[n])]
        /\ pc' = [pc EXCEPT ![h] = "pay"]
        /\ UNCHANGED <<res, faults>>
     \/ /\ \/ ~ out.changed /\ UNCHANGED faults
           \/ Fault
        /\ Answer(h, "Generic")
        /\ UNCHANGED <<connections, job>>
  /\ UNCHANGED <<now, paid_invoices, added, hostVars, chan, loopVars, active,
                 sdk, seenVars, crashes>>

(* Mutant: a payment in progress elsewhere returns at once.                *)
PaymentErrorNoRefund(h, e) ==
  /\ pc' = [pc EXCEPT ![h] = IF job[h].charged /\ e # "PaymentInProgress"
                             THEN "refund" ELSE "reply"]
  /\ res' = [res EXCEPT ![h] = e]

(* pay_invoice has returned the error e.                                   *)
PaymentError(h, e) ==
  /\ pc' = [pc EXCEPT ![h] = IF job[h].charged THEN "refund" ELSE "reply"]
  /\ res' = [res EXCEPT ![h] = e]

(* The SDK is called.  It pays an invoice at most once: it answers         *)
(* PaymentInProgress during a payment of it, and an error after one.       *)
CallPayInvoice(h) ==
  LET i == job[h].req.invoice IN
  /\ pc[h] = "pay"
  /\ \/ /\ sdk[i].state = "none"
        /\ sdk' = [sdk EXCEPT ![i] =
                     [state |-> "inflight", by |-> job[h].secret,
                      charged |-> job[h].charged,
                      sat |-> AmountSat(job[h].req),
                      period |-> job[h].period]]
        /\ pc' = [pc EXCEPT ![h] = "paying"]
        /\ UNCHANGED res
     \/ /\ sdk[i].state = "inflight"
        /\ PaymentError(h, "PaymentInProgress")
        /\ UNCHANGED sdk
     \/ /\ sdk[i].state = "paid"
        /\ PaymentError(h, "Generic")
        /\ UNCHANGED sdk
  /\ UNCHANGED <<now, storeVars, hostVars, chan, loopVars, active, job,
                 seenVars, faults, crashes>>

PaymentSettles(h) ==
  LET i == job[h].req.invoice IN
  /\ pc[h] = "paying"
  /\ \/ /\ sdk' = [sdk EXCEPT ![i].state = "paid"]
        /\ pc' = [pc EXCEPT ![h] = "record"]
        /\ UNCHANGED res
     \/ /\ sdk' = [sdk EXCEPT ![i] = NotPaid]
        /\ PaymentError(h, "Generic")
  /\ UNCHANGED <<now, storeVars, hostVars, chan, loopVars, active, job,
                 seenVars, faults, crashes>>

(* Mutant: a failure to record the invoice is ignored.                     *)
RecordOrNot(h) ==
  LET n == job[h].name IN
  /\ pc[h] = "record"
  /\ \/ /\ paid_invoices' =
             [paid_invoices EXCEPT ![n] = @ \cup {job[h].req.invoice}]
        /\ UNCHANGED faults
     \/ Fault /\ UNCHANGED paid_invoices
  /\ Answer(h, "Ok")
  /\ UNCHANGED <<now, connections, added, hostVars, chan, loopVars, active,
                 job, sdk, seenVars, crashes>>

add_nwc_paid_invoice(h) ==
  LET n == job[h].name IN
  /\ pc[h] = "record"
  /\ \/ /\ paid_invoices' =
             [paid_invoices EXCEPT ![n] = @ \cup {job[h].req.invoice}]
        /\ Answer(h, "Ok")
        /\ UNCHANGED faults
     \/ /\ Fault
        /\ Answer(h, "Persist")
        /\ UNCHANGED paid_invoices
  /\ UNCHANGED <<now, connections, added, hostVars, chan, loopVars, active,
                 job, sdk, seenVars, crashes>>

(* The payment failed: the charge is undone, by name, whatever the store   *)
(* holds under that name by now.                                           *)
Refund(h) ==
  LET out == update_budget(connections, job[h].name, -AmountSat(job[h].req))
  IN
  /\ pc[h] = "refund"
  /\ \/ /\ out.changed
        /\ connections' = out.data
        /\ Answer(h, res[h])
        /\ UNCHANGED faults
     \/ /\ \/ ~ out.changed /\ UNCHANGED faults
           \/ Fault
        /\ Answer(h, "Generic")
        /\ UNCHANGED connections
  /\ UNCHANGED <<now, paid_invoices, added, hostVars, chan, loopVars, active,
                 job, sdk, seenVars, crashes>>

(* The kinds of event forward_nwc_to_sdk emits for a result: at most one.  *)
(* (An InvoiceExpired of the SDK, which it also forwards, is taken for any *)
(* other failure of the payment.)                                          *)
ForwardedKinds(method, r) ==
  CASE method = "pay_invoice" /\ r = "Ok" -> {"PayInvoice(success)"}
    [] r \in {"InvoiceWithoutAmount", "MaxBudgetExceeded"} ->
         {"PayInvoice(failure)"}
    [] method = "make_invoice" /\ r = "Ok" -> {"MakeInvoice"}
    [] method = "get_balance" /\ r = "Ok" -> {"ListTransactions"}
    [] OTHER -> {}

Acknowledged(j, r) ==
  IF j.req.method = "pay_invoice" /\ r = "Ok"
  THEN {[to |-> j.secret, invoice |-> j.req.invoice]} ELSE {}

(* The host is notified, then the response is broadcast, unless it cannot  *)
(* be sent.  A payment in progress elsewhere is left to whoever pays it.   *)
Reply(h) ==
  LET j == job[h] IN
  /\ pc[h] = "reply"
  /\ \/ /\ res[h] = "PaymentInProgress"
        /\ UNCHANGED <<acked, told, faults>>
     \/ /\ res[h] # "PaymentInProgress"
        /\ told' = told \cup {[kind |-> k, connection_name |-> j.name] :
                                k \in ForwardedKinds(j.req.method, res[h])}
        /\ \/ acked' = acked \cup Acknowledged(j, res[h]) /\ UNCHANGED faults
           \/ Fault /\ UNCHANGED acked
  /\ pc' = [pc EXCEPT ![h] = "idle"]
  /\ job' = [job EXCEPT ![h] = None]
  /\ res' = [res EXCEPT ![h] = None]
  /\ outdated' = outdated \ {h}
  /\ UNCHANGED <<now, storeVars, hostVars, chan, loopVars, active, sdk,
                 crashes>>

HandlerStep(h) ==
  \/ compute_result(h) \/ Charge(h) \/ CallPayInvoice(h) \/ PaymentSettles(h)
  \/ add_nwc_paid_invoice(h) \/ Refund(h) \/ Reply(h)

-----------------------------------------------------------------------------
(* The process dies and the plugin is attached again: only the storage,    *)
(* and what the SDK has begun, is still there.                             *)
Crash ==
  /\ crashes < MaxCrashes
  /\ crashes' = crashes + 1
  /\ host' = [c \in Callers |-> "idle"]
  /\ removing' = [c \in Callers |-> None]
  /\ chan' = 0
  /\ loop' = LoopStart
  /\ timer' = None
  /\ due' = [deleted |-> {}, refreshed |-> {}]
  /\ active' = [n \in Names |-> None]
  /\ pc' = [h \in Handlers |-> "idle"]
  /\ job' = [h \in Handlers |-> None]
  /\ res' = [h \in Handlers |-> None]
  /\ outdated' = {}
  /\ UNCHANGED <<now, storeVars, calls, sdk, acked, told, faults>>

(* A payment begun before a crash ends with nobody waiting for it.         *)
OrphanSettles(i) ==
  /\ sdk[i].state = "inflight"
  /\ \A h \in Handlers : pc[h] = "paying" => job[h].req.invoice # i
  /\ \/ sdk' = [sdk EXCEPT ![i].state = "paid"]
     \/ sdk' = [sdk EXCEPT ![i] = NotPaid]
  /\ UNCHANGED <<now, storeVars, hostVars, chan, loopVars, active, handlerVars,
                 seenVars, faults, crashes>>

Next ==
  \/ Tick
  \/ \E c \in Callers : \/ add_connection(c) \/ edit_connection(c)
                        \/ remove_connection(c) \/ HostStep(c)
  \/ LoopStep
  \/ \E h \in Handlers : HandleEvent(h) \/ HandlerStep(h)
  \/ Crash
  \/ \E i \in Invoices : OrphanSettles(i)

Spec == Init /\ [][Next]_vars

(* Spawned tasks are polled until they end and the clock ticks; that an    *)
(* event arrives, that the host calls, and failures are not owed.          *)
FairSpec ==
  /\ Spec
  /\ WF_vars(Tick)
  /\ WF_vars(LoopStep)
  /\ \A c \in Callers : WF_vars(HostStep(c))
  /\ \A h \in Handlers : WF_vars(HandlerStep(h))
  /\ \A i \in Invoices : WF_vars(OrphanSettles(i))

-----------------------------------------------------------------------------
Results ==
  {"Ok", "Generic", "Persist", "InvoiceWithoutAmount", "MaxBudgetExceeded",
   "PaymentInProgress"}

Kinds ==
  {"PayInvoice(success)", "PayInvoice(failure)", "MakeInvoice",
   "ListTransactions", "ConnectionExpired", "ConnectionRefreshed"}

Jobs ==
  [secret : Secrets, req : Requests, name : Names,
   client : Connections \cup {None}, charged : BOOLEAN,
   period : Nat \cup {None}]

Payments ==
  [state : {"none", "inflight", "paid"}, by : Secrets \cup {None},
   charged : BOOLEAN, sat : Nat, period : Nat \cup {None}]

(* The types of the variables.                                             *)
TypeOK ==
  /\ now \in Nat
  /\ connections \in Stores
  /\ paid_invoices \in [Names -> SUBSET Invoices]
  /\ added \in [Names -> Nat]
  /\ host \in [Callers -> {"idle", "forget", "trigger"}]
  /\ removing \in [Callers -> Names \cup {None}]
  /\ chan \in 0 .. CHANNEL_CAPACITY
  /\ loop \in {"resubscribe", "fetch", "select", "notify", "off"}
  /\ timer \in Timers \cup {None}
  /\ due \in [deleted : SUBSET Names, refreshed : SUBSET Names]
  /\ active \in Stores
  /\ pc \in [Handlers -> {"idle", "verdict", "charge", "pay", "paying",
                          "record", "refund", "reply"}]
  /\ job \in [Handlers -> Jobs \cup {None}]
  /\ res \in [Handlers -> Results \cup {None}]
  /\ sdk \in [Invoices -> Payments]
  /\ acked \subseteq [to : Secrets, invoice : Invoices]
  /\ told \subseteq [kind : Kinds, connection_name : Names]
  /\ outdated \subseteq Handlers
  /\ calls \in Nat /\ faults \in Nat /\ crashes \in Nat

-----------------------------------------------------------------------------
(* The cache of connections and the timer against the storage.             *)

(* What the user has agreed to, without what has been spent of it.         *)
BudgetTerms(b) ==
  IF b = None THEN None
  ELSE [b EXCEPT !.used_budget_sat = 0, !.updated_at = 0]

Terms(c) ==
  [c EXCEPT !.paid_amount_sat = 0, !.periodic_budget = BudgetTerms(@)]

(* The terms under each name, of a request and after an edit.              *)
AgreedTerms ==
  [n \in Names |->
     IF connections[n] = None THEN None ELSE Terms(connections[n])]
NewTerms(req, secret, at) == Terms(NewConnection(req, secret, at))
EditedTerms(t, req, at) == Terms(Edited(t, req, at))

Registry ==
  INSTANCE ConnectionRegistry
  WITH terms <- AgreedTerms,
       EditRequests <- {req \in EditRequests : ~ Contradictory(req)},
       Agreed <- NewTerms, Amended <- EditedTerms, Lapsed <- Expired

(* No payment, refund, renewal or refresh, however late, undoes or mixes   *)
(* up what the host has added, edited or removed, or changes its terms in  *)
(* any other way than to drop, together, the connections that expired.     *)
ImplementsRegistry == Registry!Spec

(* Once every host call has made its resubscription and the loop is back   *)
(* in its select, requests are judged by the persisted terms of every      *)
(* connection, whatever was added, edited, removed, renewed or spent while *)
(* the loop was reading: `active_connections` has missed no update.        *)
ServedAsPersisted ==
  CaughtUp =>
    \A n \in Names :
      connections[n] # None =>
        active[n] # None /\ Terms(active[n]) = Terms(connections[n])

(* At such a moment, had nothing failed, a connection that is served but   *)
(* no longer persisted is one that has expired: a removal is never missed. *)
RevokedNotServed ==
  /\ CaughtUp
  /\ faults = 0
  /\ \A c \in Callers : host[c] # "forget"
  => \A n \in Names :
       active[n] # None /\ connections[n] = None => Expired(active[n], now)

(* As soon as on_resubscribe has re-armed the timer, and had nothing       *)
(* failed, whatever is persisted with an expiry or a renewal is looked at  *)
(* again within that duration and the grace period: an update made after   *)
(* the period was computed has a resubscription of its own coming.         *)
RefreshScheduled ==
  loop \in {"fetch", "select", "notify"} /\ NothingPending /\ faults = 0 =>
    \A d \in Durations(connections) :
      timer # None /\ timer.period <= Interval(d) /\ timer.next <= now + Interval(d)

(* The payment of the job j is one the connection c allows: not over a     *)
(* receive-only one, not uncharged over a budgeted one, and not larger     *)
(* than the whole budget.                                                  *)
Allows(c, j) ==
  c # None =>
    /\ ~ c.receive_only
    /\ c.periodic_budget # None =>
         /\ j.charged
         /\ AmountSat(j.req) <= c.periodic_budget.max_budget_sat

(* pay_invoice is called only for what the terms persisted at that very    *)
(* moment allow, if the snapshot was taken with no resubscription owed and *)
(* the host has not changed the connection since: no charge, refund,       *)
(* renewal or refetch in the meantime makes the payment one they rule out. *)
(* A snapshot that predates an edit is another matter: its handler charges *)
(* and pays by the old terms, even after the loop has taken the edit up.   *)
PaymentsWithinTerms ==
  [][\A h \in Handlers \ outdated :
       pc[h] = "pay" /\ pc'[h] = "paying" =>
         Allows(connections[job[h].name], job[h])]_vars

-----------------------------------------------------------------------------
(* The money.                                                              *)

(* The budget in use never exceeds what the connection has paid in total,  *)
(* across concurrent charges, refunds, renewals and edits.                 *)
UsedWithinPaid ==
  \A n \in Names :
    connections[n] # None /\ connections[n].periodic_budget # None =>
      connections[n].periodic_budget.used_budget_sat
        <= connections[n].paid_amount_sat

(* Charged payments of a connection that are made or under way.            *)
ChargedPayments(secret) ==
  {i \in Invoices : sdk[i].by = secret /\ sdk[i].charged}

(* Charges of it that are not yet, or no longer, for such a payment.       *)
LooseCharges(secret) ==
  {h \in Handlers : /\ pc[h] \in {"pay", "refund"}
                    /\ job[h].charged
                    /\ job[h].secret = secret}

(* A sum over S, counted satoshi by satoshi.                               *)
Total(S, sat) == Cardinality(UNION {{x} \X (1 .. sat[x]) : x \in S})

PaidFor(secret) ==
  Total(ChargedPayments(secret), [i \in Invoices |-> sdk[i].sat])
ChargedFor(secret) ==
  Total(LooseCharges(secret),
        [h \in LooseCharges(secret) |-> AmountSat(job[h].req)])

(* Had nothing failed and nothing crashed, what paid_amount_sat says was   *)
(* sent over a connection with a budget is what was: every charge is for a *)
(* payment made or under way, or is about to be paid with or refunded.     *)
(* (Not so for a name used again: see the README.)                         *)
PaidAmountExact ==
  faults = 0 /\ crashes = 0 =>
    \A n \in Names :
      connections[n] # None /\ added[n] = 1 =>
        connections[n].paid_amount_sat =
          PaidFor(connections[n].secret) + ChargedFor(connections[n].secret)

(* Whatever fails and whenever the process dies, paid_amount_sat is never  *)
(* less than the charged payments: a charge may be lost, a payment never.  *)
PaidAmountCovers ==
  \A n \in Names :
    connections[n] # None /\ added[n] = 1 =>
      connections[n].paid_amount_sat >= PaidFor(connections[n].secret)

(* No connection of the name is mistaken for one that is being removed: it *)
(* is the first of the name, or the host makes one call at a time.         *)
NoOverlap(n) == added[n] = 1 \/ \A c, d \in Callers : c = d

(* A client that has been told its payment succeeded was not lied to, and  *)
(* as long as its connection exists the invoice is in its paid invoices.   *)
(* (A removal that overlaps the next addition of the name may clear them.) *)
SuccessRecorded ==
  \A a \in acked :
    /\ sdk[a.invoice].state = "paid"
    /\ \A n \in Names :
         connections[n] # None /\ connections[n].secret = a.to /\ NoOverlap(n)
           => a.invoice \in paid_invoices[n]

(* No late charge or refund, and no refresh, brings back a connection that *)
(* was removed or that expired: only add_connection creates one.           *)
NoResurrection ==
  [][\A n \in Names :
       connections[n] = None /\ connections'[n] # None =>
         added'[n] = added[n] + 1]_vars

-----------------------------------------------------------------------------
(* What is promised to happen.                                             *)

Holds(n, g) == connections[n] # None /\ connections[n].secret = <<n, g>>

(* A connection that is persisted is eventually served, unless it has gone *)
(* by then: nothing else is needed of the host after add_connection.       *)
EventuallyServed ==
  \A n \in Names : \A g \in 1 .. MaxHostCalls :
    Holds(n, g) ~> \/ ~ Holds(n, g)
                   \/ active[n] # None /\ active[n].secret = <<n, g>>

(* n's connection has expired, its refresh is not put off any more by      *)
(* resubscriptions, and the clock does not stop before it.                 *)
Overdue(n, g) ==
  /\ Holds(n, g)
  /\ Expired(connections[n], now)
  /\ loop = "select" /\ NothingPending /\ calls = MaxHostCalls
  /\ now + Interval(connections[n].expiry_time_sec) <= MaxNow

(* A connection that has expired is eventually deleted.                    *)
ExpiredDeleted ==
  \A n \in Names : \A g \in 1 .. MaxHostCalls :
    Overdue(n, g) ~> ~ Holds(n, g)

(* No call of the host waits for ever on the action channel.               *)
HostCallsReturn == \A c \in Callers : host[c] # "idle" ~> host[c] = "idle"
=============================================================================
