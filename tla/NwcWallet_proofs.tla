--------------------------- MODULE NwcWallet_proofs ---------------------------
(***************************************************************************)
(* Proofs about NwcWallet: types, the budget in use, the coherence of      *)
(* `active_connections` with the storage, and that only add_connection     *)
(* creates a connection.                                                   *)
(***************************************************************************)
EXTENDS NwcWallet, NwcConnections_proofs

(* The requests that the constants allow are those of the closures.        *)
LEMMA RequestTypes ==
  /\ AddRequests \subseteq AddReqs
  /\ EditRequests \subseteq EditReqs
  BY WalletAssumption DEF AddReqs, EditReqs

LEMMA NextSecret ==
  ASSUME TypeOK, NEW n \in Names PROVE <<n, added[n] + 1>> \in Secrets
  BY DEF TypeOK, Secrets

LEMMA AmountNat ==
  ASSUME NEW req \in Requests, Msat(req) # None PROVE AmountSat(req) \in Nat
<1>1. Msat(req) \in Nat
  BY WalletAssumption DEF Msat
<1> QED
  BY <1>1 DEF AmountSat

-----------------------------------------------------------------------------
(* A handler that is charging, paying or refunding has a request whose     *)
(* amount is known.                                                        *)
Paying == {"charge", "pay", "paying", "record", "refund"}

HandlersOK ==
  \A h \in Handlers :
    /\ pc[h] # "idle" => job[h] \in Jobs
    /\ pc[h] \in Paying => Msat(job[h].req) # None
    /\ pc[h] \in {"refund", "reply"} => res[h] \in Results

(* A caller between the two writes of a removal knows what it removes.     *)
CallersOK == \A c \in Callers : host[c] = "forget" => removing[c] \in Names

Types == TypeOK /\ HandlersOK /\ CallersOK

LEMMA InitTypes == Init => Types
<1> SUFFICES ASSUME Init PROVE Types
  OBVIOUS
<1>1. TypeOK
  BY WalletAssumption
  DEF Init, TypeOK, Stores, LoopStart, NotPaid, Payments
<1>2. HandlersOK /\ CallersOK
  BY DEF Init, HandlersOK, CallersOK, Paying
<1> QED
  BY <1>1, <1>2 DEF Types

LEMMA HostTypes ==
  ASSUME Types, NEW c \in Callers,
         \/ add_connection(c) \/ edit_connection(c) \/ remove_connection(c)
         \/ HostStep(c)
  PROVE  Types'
<1> USE DEF Types
<1>1. ASSUME add_connection(c) PROVE Types'
  <2>1. PICK req \in AddRequests, at \in 0 .. now :
          LET n == req.name
              con == NewConnection(req, <<n, added[n] + 1>>, at)
          IN /\ connections' = add_nwc_connection(connections, n, con).data
             /\ added' = [added EXCEPT ![n] = @ + 1]
    BY <1>1 DEF add_connection
  <2>2. req.name \in Names /\ req \in AddReqs /\ at \in Nat
    BY RequestTypes DEF AddReqs, TypeOK
  <2>3. connections' \in Stores
    BY <2>1, <2>2, NextSecret, NewConnectionType, AddType DEF TypeOK
  <2>4. added' \in [Names -> Nat]
    BY <2>1, <2>2 DEF TypeOK
  <2>5. TypeOK'
    BY <1>1, <2>3, <2>4
    DEF add_connection, HostCall, Outdate, TypeOK, loopVars, handlerVars
  <2> QED
    BY <1>1, <2>5
    DEF add_connection, TypeOK, HandlersOK, CallersOK, handlerVars
<1>2. ASSUME edit_connection(c) PROVE Types'
  <2>1. connections' \in Stores
    BY <1>2, RequestTypes, EditType DEF edit_connection, TypeOK
  <2>2. TypeOK'
    BY <1>2, <2>1
    DEF edit_connection, HostCall, Outdate, TypeOK, loopVars, handlerVars
  <2> QED
    BY <1>2, <2>2
    DEF edit_connection, TypeOK, HandlersOK, CallersOK, handlerVars
<1>3. ASSUME remove_connection(c) PROVE Types'
  <2>1. PICK n \in Names :
          /\ connections' = remove_nwc_connection(connections, n).data
          /\ removing' = [removing EXCEPT ![c] = n]
    BY <1>3 DEF remove_connection
  <2>2. connections' \in Stores
    BY <2>1, RemoveType DEF TypeOK
  <2>3. TypeOK'
    BY <1>3, <2>1, <2>2
    DEF remove_connection, HostCall, TypeOK, loopVars, handlerVars, seenVars
  <2> QED
    BY <1>3, <2>1, <2>3
    DEF remove_connection, TypeOK, HandlersOK, CallersOK, handlerVars
<1>4. ASSUME ForgetPaidInvoices(c) PROVE Types'
  <2>1. TypeOK'
    BY <1>4
    DEF ForgetPaidInvoices, Fault, TypeOK, CallersOK, loopVars, handlerVars,
        seenVars
  <2> QED
    BY <1>4, <2>1
    DEF ForgetPaidInvoices, TypeOK, HandlersOK, CallersOK, handlerVars
<1>5. ASSUME trigger_resubscription(c) PROVE Types'
  <2>1. TypeOK'
    BY <1>5, WalletAssumption
    DEF trigger_resubscription, TypeOK, storeVars, loopVars, handlerVars,
        seenVars
  <2> QED
    BY <1>5, <2>1
    DEF trigger_resubscription, TypeOK, HandlersOK, CallersOK, handlerVars
<1> QED
  BY <1>1, <1>2, <1>3, <1>4, <1>5 DEF HostStep

LEMMA LoopTypes == ASSUME Types, LoopStep PROVE Types'
<1> USE DEF Types
<1>1. ASSUME ArmTimer PROVE TypeOK'
  <2>1. get_min_interval(connections) \in Nat \cup {None}
    BY MinInterval DEF TypeOK
  <2>2. timer' \in Timers \cup {None}
    BY <1>1, <2>1 DEF ArmTimer, TypeOK, Fault, Timers
  <2> QED
    BY <1>1, <2>2
    DEF ArmTimer, Fault, TypeOK, storeVars, hostVars, handlerVars, seenVars
<1>2. ASSUME fetch_active_connections PROVE TypeOK'
  BY <1>2, WalletAssumption
  DEF fetch_active_connections, Fault, TypeOK, storeVars, hostVars,
      handlerVars, seenVars
<1>3. ASSUME Resubscribe PROVE TypeOK'
  BY <1>3, WalletAssumption
  DEF Resubscribe, TypeOK, storeVars, hostVars, handlerVars, seenVars
<1>4. ASSUME on_interval PROVE TypeOK'
  <2>1. /\ connections' \in Stores
        /\ due' \in [deleted : SUBSET Names, refreshed : SUBSET Names]
    BY <1>4, RefreshType DEF on_interval, TypeOK, Fault
  <2>2. timer' \in Timers \cup {None}
    BY <1>4 DEF on_interval, TypeOK, Timers
  <2> QED
    BY <1>4, <2>1, <2>2
    DEF on_interval, Fault, TypeOK, hostVars, handlerVars, seenVars
<1>5. ASSUME NotifyRefreshed PROVE TypeOK'
  BY <1>5
  DEF NotifyRefreshed, TypeOK, Kinds, storeVars, hostVars, handlerVars
<1>6. UNCHANGED <<handlerVars, hostVars>>
  BY DEF LoopStep, ArmTimer, fetch_active_connections, Resubscribe,
         on_interval, NotifyRefreshed
<1>7. HandlersOK' /\ CallersOK'
  BY <1>6 DEF HandlersOK, CallersOK, handlerVars, hostVars, Msat
<1> QED
  BY <1>1, <1>2, <1>3, <1>4, <1>5, <1>7 DEF LoopStep

LEMMA HandleEventTypes ==
  ASSUME Types, NEW h \in Handlers, HandleEvent(h) PROVE Types'
<1> USE DEF Types
<1>1. PICK n \in Names, req \in Requests :
        /\ active[n] # None
        /\ job' = [job EXCEPT ![h] =
                     [secret |-> active[n].secret, req |-> req, name |-> n,
                      client |-> active[n], charged |-> FALSE,
                      period |-> None]]
  BY DEF HandleEvent
<1>2. active[n] \in Connections /\ active[n].secret \in Secrets
  BY <1>1 DEF TypeOK, Stores, Connections
<1>3. job' \in [Handlers -> Jobs \cup {None}] /\ job'[h] \in Jobs
  BY <1>1, <1>2 DEF TypeOK, Jobs
<1>4. TypeOK'
  BY <1>3 DEF HandleEvent, TypeOK, storeVars, hostVars, loopVars
<1>5. HandlersOK'
  <2> SUFFICES ASSUME NEW g \in Handlers PROVE HandlersOK!(g)'
    BY DEF HandlersOK
  <2>1. CASE g = h
    BY <1>3, <2>1 DEF HandleEvent, TypeOK, Paying
  <2>2. CASE g # h
    BY <1>1, <2>2 DEF HandleEvent, HandlersOK, TypeOK, Msat
  <2> QED
    BY <2>1, <2>2
<1>6. CallersOK'
  BY DEF HandleEvent, CallersOK, hostVars
<1> QED
  BY <1>4, <1>5, <1>6

(* Only a request whose amount is known is paid.                           *)
LEMMA VerdictKnowsAmount ==
  ASSUME NEW con, NEW req, Verdict(con, req) \in {"Pay", "Charge"}
  PROVE  Msat(req) # None
  BY DEF Verdict

LEMMA VerdictTypes ==
  ASSUME Types, NEW h \in Handlers, compute_result(h), job[h] \in Jobs
  PROVE  Types'
<1> USE DEF Types
<1> DEFINE verdict == Verdict(job[h].client, job[h].req)
<1>1. /\ job' = [job EXCEPT ![h].client = None, ![h].charged = verdict = "Charge"]
      /\ job' \in [Handlers -> Jobs \cup {None}] /\ job'[h] \in Jobs
      /\ job'[h].req = job[h].req
      /\ \A g \in Handlers \ {h} : job'[g] = job[g]
  BY DEF compute_result, TypeOK, Jobs
<1>2. /\ pc'[h] \in {"charge", "pay", "reply"}
      /\ pc' = [pc EXCEPT ![h] = pc'[h]]
      /\ pc'[h] = "reply" => res'[h] \in Results
      /\ pc'[h] # "reply" => verdict \in {"Pay", "Charge"}
      /\ res' \in [Handlers -> Results \cup {None}]
      /\ \A g \in Handlers \ {h} : res'[g] = res[g]
  BY DEF compute_result, TypeOK, Answer, Results
<1>3. TypeOK'
  <2>1. pc' \in [Handlers -> {"idle", "verdict", "charge", "pay", "paying",
                             "record", "refund", "reply"}]
    BY <1>2 DEF TypeOK
  <2> QED
    BY <1>1, <1>2, <2>1
    DEF compute_result, TypeOK, storeVars, hostVars, loopVars, seenVars
<1>4. pc'[h] # "reply" => Msat(job'[h].req) # None
  BY <1>1, <1>2, VerdictKnowsAmount
<1>5. HandlersOK'
  <2> SUFFICES ASSUME NEW g \in Handlers PROVE HandlersOK!(g)'
    BY DEF HandlersOK
  <2>1. CASE g = h
    BY <1>1, <1>2, <1>4, <2>1 DEF Paying
  <2>2. CASE g # h
    BY <1>1, <1>2, <2>2 DEF HandlersOK, TypeOK, Msat
  <2> QED
    BY <2>1, <2>2
<1>6. CallersOK'
  BY DEF compute_result, CallersOK, hostVars
<1> QED
  BY <1>3, <1>5, <1>6

(* A payment that ends is still a payment.                                 *)
LEMMA SettledPayment ==
  /\ \A p \in Payments : [p EXCEPT !.state = "paid"] \in Payments
  /\ NotPaid \in Payments
  BY DEF Payments, NotPaid

LEMMA HandlerTypes ==
  ASSUME Types, NEW h \in Handlers, HandlerStep(h) PROVE Types'
<1> USE DEF Types
<1> DEFINE req == job[h].req
<1>1. /\ job[h] \in Jobs /\ job[h].name \in Names
      /\ req \in Requests /\ req.invoice \in Invoices
      /\ job[h].secret \in Secrets
  BY WalletAssumption
  DEF HandlerStep, Charge, compute_result, CallPayInvoice, PaymentSettles,
      add_nwc_paid_invoice, Refund, Reply, HandlersOK, Jobs
<1>2. pc[h] \in Paying => AmountSat(req) \in Nat
  BY <1>1, AmountNat DEF HandlersOK
<1>3. ASSUME Charge(h) PROVE Types'
  <2>1. connections' \in Stores
    BY <1>1, <1>2, <1>3, UpdateType DEF Charge, TypeOK, Paying
  <2>2. PICK p : /\ p \in Nat \cup {None}
                 /\ job' = job \/ job' = [job EXCEPT ![h].period = p]
    <3>1. connections[job[h].name] # None =>
            PeriodOf(connections[job[h].name]) \in Nat \cup {None}
      BY <1>1 DEF PeriodOf, TypeOK, Stores, Connections, Budgets
    <3>2. update_budget(connections, job[h].name, AmountSat(req)).changed =>
            connections[job[h].name] # None
      BY DEF update_budget, Rejected, Unchanged
    <3> QED
      BY <1>3, <3>1, <3>2 DEF Charge
  <2>3. /\ job' \in [Handlers -> Jobs \cup {None}]
        /\ job'[h] \in Jobs /\ job'[h].req = req
        /\ \A g \in Handlers \ {h} : job'[g] = job[g]
    BY <1>1, <2>2 DEF TypeOK, Jobs
  <2>4. TypeOK'
    BY <1>3, <2>1, <2>3
    DEF Charge, Answer, Fault, TypeOK, Results, hostVars, loopVars, seenVars
  <2>5. HandlersOK'
    BY <1>3, <2>3 DEF Charge, Answer, TypeOK, HandlersOK, Paying, Results, Msat
  <2> QED
    BY <1>3, <2>4, <2>5 DEF Charge, CallersOK, hostVars
<1>4. ASSUME CallPayInvoice(h) PROVE Types'
  <2>1. sdk' \in [Invoices -> Payments]
    BY <1>1, <1>2, <1>4 DEF CallPayInvoice, TypeOK, Jobs, Paying, Payments
  <2>2. TypeOK'
    BY <1>4, <2>1
    DEF CallPayInvoice, PaymentError, TypeOK, Results, storeVars, hostVars,
        loopVars, seenVars
  <2>3. HandlersOK'
    BY <1>4 DEF CallPayInvoice, PaymentError, TypeOK, HandlersOK, Paying,
                Results, Msat
  <2> QED
    BY <1>4, <2>2, <2>3 DEF CallPayInvoice, CallersOK, hostVars
<1>5. ASSUME PaymentSettles(h) PROVE Types'
  <2>1. sdk' \in [Invoices -> Payments]
    BY <1>1, <1>5, SettledPayment DEF PaymentSettles, TypeOK
  <2>2. TypeOK'
    BY <1>5, <2>1
    DEF PaymentSettles, PaymentError, TypeOK, Results, storeVars, hostVars,
        loopVars, seenVars
  <2>3. HandlersOK'
    BY <1>5 DEF PaymentSettles, PaymentError, TypeOK, HandlersOK, Paying,
                Results, Msat
  <2> QED
    BY <1>5, <2>2, <2>3 DEF PaymentSettles, CallersOK, hostVars
<1>6. ASSUME add_nwc_paid_invoice(h) PROVE Types'
  <2>1. paid_invoices' \in [Names -> SUBSET Invoices]
    BY <1>1, <1>6 DEF add_nwc_paid_invoice, TypeOK
  <2>2. TypeOK'
    BY <1>6, <2>1
    DEF add_nwc_paid_invoice, Answer, Fault, TypeOK, Results, hostVars,
        loopVars, seenVars
  <2>3. HandlersOK'
    BY <1>6 DEF add_nwc_paid_invoice, Answer, TypeOK, HandlersOK, Paying,
                Results, Msat
  <2> QED
    BY <1>6, <2>2, <2>3 DEF add_nwc_paid_invoice, CallersOK, hostVars
<1>7. ASSUME Refund(h) PROVE Types'
  <2>1. connections' \in Stores
    BY <1>1, <1>2, <1>7, UpdateType DEF Refund, TypeOK, Paying
  <2>2. res[h] \in Results
    BY <1>7 DEF Refund, HandlersOK
  <2>3. TypeOK'
    BY <1>7, <2>1, <2>2
    DEF Refund, Answer, Fault, TypeOK, Results, hostVars, loopVars, seenVars
  <2>4. HandlersOK'
    BY <1>7, <2>2 DEF Refund, Answer, TypeOK, HandlersOK, Paying, Results, Msat
  <2> QED
    BY <1>7, <2>3, <2>4 DEF Refund, CallersOK, hostVars
<1>8. ASSUME Reply(h) PROVE Types'
  <2>1. Acknowledged(job[h], res[h]) \subseteq [to : Secrets, invoice : Invoices]
    BY <1>1 DEF Acknowledged
  <2>2. ForwardedKinds(req.method, res[h]) \subseteq Kinds
    BY DEF ForwardedKinds, Kinds
  <2>3. acked' \subseteq [to : Secrets, invoice : Invoices]
    BY <1>8, <2>1 DEF Reply, TypeOK, seenVars
  <2>4. told' \subseteq [kind : Kinds, connection_name : Names]
    BY <1>1, <1>8, <2>2 DEF Reply, TypeOK, seenVars
  <2>5. TypeOK'
    BY <1>8, <2>3, <2>4
    DEF Reply, Fault, TypeOK, storeVars, hostVars, loopVars
  <2>6. HandlersOK'
    BY <1>8 DEF Reply, TypeOK, HandlersOK, Paying, Msat
  <2> QED
    BY <1>8, <2>5, <2>6 DEF Reply, CallersOK, hostVars
<1> QED
  BY <1>1, <1>3, <1>4, <1>5, <1>6, <1>7, <1>8, VerdictTypes DEF HandlerStep

LEMMA OtherTypes ==
  ASSUME Types,
         \/ Tick \/ Crash \/ (\E i \in Invoices : OrphanSettles(i))
         \/ UNCHANGED vars
  PROVE  Types'
<1> USE DEF Types
<1>1. ASSUME Tick \/ UNCHANGED vars PROVE Types'
  <2>1. TypeOK'
    BY <1>1
    DEF Tick, TypeOK, vars, storeVars, hostVars, loopVars, handlerVars,
        seenVars
  <2> QED
    BY <1>1, <2>1
    DEF Tick, HandlersOK, CallersOK, vars, hostVars, handlerVars, Msat
<1>2. ASSUME Crash PROVE Types'
  <2>1. TypeOK'
    BY <1>2, WalletAssumption
    DEF Crash, TypeOK, LoopStart, Stores, storeVars, seenVars
  <2> QED
    BY <1>2, <2>1 DEF Crash, HandlersOK, CallersOK, Paying
<1>3. ASSUME NEW i \in Invoices, OrphanSettles(i) PROVE Types'
  <2>1. sdk' \in [Invoices -> Payments]
    BY <1>3, SettledPayment DEF OrphanSettles, TypeOK
  <2>2. TypeOK'
    BY <1>3, <2>1
    DEF OrphanSettles, TypeOK, storeVars, hostVars, loopVars, handlerVars,
        seenVars
  <2> QED
    BY <1>3, <2>2
    DEF OrphanSettles, HandlersOK, CallersOK, hostVars, handlerVars, Msat
<1> QED
  BY <1>1, <1>2, <1>3

LEMMA SpecTypes == Spec => []Types
<1>1. Types /\ [Next]_vars => Types'
  BY HostTypes, LoopTypes, HandleEventTypes, HandlerTypes, OtherTypes DEF Next
<1> QED
  BY <1>1, InitTypes, PTL DEF Spec

(* Every variable keeps its type, in every interleaving.                   *)
THEOREM TypeCorrect == Spec => []TypeOK
  BY SpecTypes, PTL DEF Types

-----------------------------------------------------------------------------
Adding == \E c \in Callers : add_connection(c) \/ edit_connection(c)
Removing == \E c \in Callers : remove_connection(c)

(* What a step other than of add_connection and edit_connection may do to  *)
(* the connection of a name, and what any step may do.                     *)
QuietChange(n) ==
  LET c == connections[n]
      d == connections'[n]
  IN \/ d = c
     \/ d = None /\ (Removing \/ Expired(c, now))
     \/ c # None /\ \E delta \in Int : d = Spend(c, delta)
     \/ c # None /\ c.periodic_budget # None /\ d = Renewed(c, now)

ConnectionChange(n) ==
  LET c == connections[n]
      d == connections'[n]
  IN \/ QuietChange(n)
     \/ /\ c = None
        /\ added'[n] = added[n] + 1
        /\ \E req \in AddReqs, secret \in Secrets, at \in Nat :
             d = NewConnection(req, secret, at)
     \/ c # None /\ \E req \in EditReqs : d = Edited(c, req, now)

LEMMA Writers ==
  ASSUME [Next]_vars, ~ Adding
  PROVE  \/ connections' = connections
         \/ Removing
         \/ on_interval
         \/ \E h \in Handlers : Charge(h) \/ Refund(h)
  BY DEF Next, vars, storeVars, Adding, Removing, Tick, HostStep, ForgetPaidInvoices,
         trigger_resubscription, LoopStep, ArmTimer, fetch_active_connections,
         Resubscribe, NotifyRefreshed, HandleEvent, HandlerStep,
         compute_result, CallPayInvoice, PaymentSettles, add_nwc_paid_invoice,
         Reply, Crash,
         OrphanSettles

LEMMA QuietChanges ==
  ASSUME Types, [Next]_vars, ~ Adding, NEW n \in Names PROVE QuietChange(n)
<1> USE DEF Types
<1>1. ASSUME Removing PROVE QuietChange(n)
  <2>1. connections'[n] \in {connections[n], None}
    BY <1>1
    DEF Removing, remove_connection, remove_nwc_connection, Rejected, Changed,
        Unchanged, TypeOK, Stores
  <2> QED
    BY <1>1, <2>1 DEF QuietChange
<1>2. ASSUME on_interval PROVE QuietChange(n)
  BY <1>2, RefreshEach DEF on_interval, QuietChange, TypeOK
<1>3. ASSUME NEW h \in Handlers, Charge(h) \/ Refund(h)
      PROVE  QuietChange(n)
  <2> DEFINE sat == AmountSat(job[h].req)
  <2>1. sat \in Nat
    BY <1>3, AmountNat DEF Charge, Refund, HandlersOK, Paying, Jobs
  <2>2. PICK delta \in {sat, -sat} :
          \/ connections' = connections
          \/ LET out == update_budget(connections, job[h].name, delta)
             IN out.changed /\ connections' = out.data
    BY <1>3 DEF Charge, Refund
  <2>3. delta \in Int
    BY <2>1
  <2>4. \/ connections' = connections
        \/ /\ connections[job[h].name] # None
           /\ connections' = [connections EXCEPT ![job[h].name] = Spend(@, delta)]
    BY <2>2 DEF update_budget, Rejected, Changed, Unchanged
  <2> QED
    BY <2>3, <2>4 DEF QuietChange, TypeOK, Stores
<1> QED
  BY <1>1, <1>2, <1>3, Writers DEF QuietChange

LEMMA ConnectionChanges ==
  ASSUME Types, [Next]_vars, NEW n \in Names PROVE ConnectionChange(n)
<1> USE DEF Types
<1>1. ASSUME NEW c \in Callers, add_connection(c) PROVE ConnectionChange(n)
  <2>1. PICK req \in AddRequests, at \in 0 .. now :
          LET m == req.name
              con == NewConnection(req, <<m, added[m] + 1>>, at)
              out == add_nwc_connection(connections, m, con)
          IN /\ out.changed
             /\ connections' = out.data
             /\ added' = [added EXCEPT ![m] = @ + 1]
    BY <1>1 DEF add_connection
  <2>2. req \in AddReqs /\ req.name \in Names /\ at \in Nat
    BY RequestTypes DEF AddReqs, TypeOK
  <2>3. <<req.name, added[req.name] + 1>> \in Secrets
    BY <2>2, NextSecret
  <2>4. CASE n = req.name
    <3>1. /\ connections[n] = None
          /\ connections'[n] = NewConnection(req, <<n, added[n] + 1>>, at)
          /\ added'[n] = added[n] + 1
      BY <2>1, <2>2, <2>4
      DEF add_nwc_connection, Rejected, Changed, Unchanged, TypeOK, Stores
    <3> QED
      BY <2>2, <2>3, <2>4, <3>1 DEF ConnectionChange
  <2>5. CASE n # req.name
    BY <2>1, <2>2, <2>5
    DEF add_nwc_connection, Rejected, Changed, Unchanged, TypeOK, Stores,
        ConnectionChange, QuietChange
  <2> QED
    BY <2>4, <2>5
<1>2. ASSUME NEW c \in Callers, edit_connection(c) PROVE ConnectionChange(n)
  <2>1. PICK req \in EditRequests :
          LET out == edit_nwc_connection(connections, req, now)
          IN out.changed /\ connections' = out.data
    BY <1>2 DEF edit_connection
  <2>2. /\ connections[req.name] # None
        /\ connections' = [connections EXCEPT ![req.name] = Edited(@, req, now)]
    BY <2>1 DEF edit_nwc_connection, Rejected, Changed, Unchanged
  <2>3. req \in EditReqs
    BY RequestTypes
  <2> QED
    BY <2>2, <2>3 DEF ConnectionChange, QuietChange, TypeOK, Stores
<1> QED
  BY <1>1, <1>2, QuietChanges DEF Adding, ConnectionChange

(* The budget in use never exceeds what the connection has paid: charges   *)
(* and refunds move both counters alike, and every other step only resets  *)
(* the first.                                                              *)
THEOREM UsedNeverExceedsPaid == Spec => []UsedWithinPaid
<1>1. Init => UsedWithinPaid
  BY DEF Init, UsedWithinPaid
<1>2. Types /\ UsedWithinPaid /\ [Next]_vars => UsedWithinPaid'
  <2> SUFFICES ASSUME Types, UsedWithinPaid, [Next]_vars, NEW n \in Names,
                      connections'[n] # None
               PROVE  UsedWithin(connections'[n])
    BY DEF UsedWithinPaid, UsedWithin
  <2>1. now \in Nat /\ connections[n] \in Connections \cup {None}
    BY DEF Types, TypeOK, Stores
  <2>2. connections[n] # None => UsedWithin(connections[n])
    BY DEF UsedWithinPaid, UsedWithin
  <2>3. ConnectionChange(n)
    BY ConnectionChanges
  <2> QED
    BY <2>1, <2>2, <2>3, NewUsedWithin, EditedUsedWithin, SpendUsedWithin,
       RenewedUsedWithin DEF ConnectionChange, QuietChange
<1> QED
  BY <1>1, <1>2, SpecTypes, PTL DEF Spec

(* Whatever is written late or concurrently, only add_connection brings a  *)
(* connection into being.                                                  *)
THEOREM NothingResurrects == Spec => NoResurrection
<1> DEFINE A == \A n \in Names :
                  connections[n] = None /\ connections'[n] # None =>
                    added'[n] = added[n] + 1
<1>1. Types /\ [Next]_vars => [A]_vars
  BY ConnectionChanges DEF ConnectionChange, QuietChange
<1> QED
  BY <1>1, SpecTypes, PTL DEF Spec, NoResurrection

-----------------------------------------------------------------------------
(* Spending and renewing leave the terms of a connection alone.            *)
LEMMA SpendTerms ==
  ASSUME NEW c \in Connections, NEW delta \in Int
  PROVE  Terms(Spend(c, delta)) = Terms(c)
<1> DEFINE b == c.periodic_budget
<1>1. BudgetTerms(SpendBudget(b, delta)) = BudgetTerms(b)
  <2>1. CASE b = None
    BY <2>1 DEF SpendBudget
  <2>2. CASE b # None
    <3>1. b \in Budgets
      BY <2>2 DEF Connections
    <3>2. SpendBudget(b, delta)
            = [b EXCEPT !.used_budget_sat = SaturatingAddSigned(@, delta)]
      BY <2>2 DEF SpendBudget
    <3>3. SpendBudget(b, delta) # None
      BY <3>1, <3>2, SaturatingNat, NoneAssumption DEF Budgets
    <3> QED
      BY <2>2, <3>1, <3>2, <3>3 DEF BudgetTerms, Budgets
  <2> QED
    BY <2>1, <2>2
<1> QED
  BY <1>1 DEF Terms, Spend, Connections

LEMMA RenewedTerms ==
  ASSUME NEW c \in Connections, NEW at \in Nat, c.periodic_budget # None
  PROVE  Terms(Renewed(c, at)) = Terms(c)
<1> DEFINE b == c.periodic_budget
           r == [b EXCEPT !.used_budget_sat = 0, !.updated_at = at]
<1>1. b \in Budgets
  BY DEF Connections
<1>2. r \in Budgets
  BY <1>1 DEF Budgets
<1>3. BudgetTerms(r) = BudgetTerms(b)
  BY <1>1, <1>2, NoneAssumption DEF BudgetTerms, Budgets
<1>4. Renewed(c, at) = [c EXCEPT !.periodic_budget = r]
  BY <1>1 DEF Renewed, Connections, Budgets
<1> HIDE DEF r
<1> QED
  BY <1>3, <1>4 DEF Terms, Connections

(* A step other than an addition or an edit keeps, of every connection     *)
(* that stays, the terms.                                                  *)
LEMMA TermsKept ==
  ASSUME Types, [Next]_vars, ~ Adding, NEW n \in Names, connections'[n] # None
  PROVE  /\ connections[n] # None
         /\ Terms(connections'[n]) = Terms(connections[n])
<1>1. QuietChange(n)
  BY QuietChanges
<1>2. connections[n] \in Connections \cup {None} /\ now \in Nat
  BY DEF Types, TypeOK, Stores
<1> QED
  BY <1>1, <1>2, SpendTerms, RenewedTerms DEF QuietChange

(* A host call that has written to the storage has a resubscription coming,*)
(* and only fetch_active_connections brings the loop back to its select.   *)
Selecting == loop \in {"select", "notify"}

LEMMA Pending ==
  ASSUME Types, [Next]_vars, Selecting', NothingPending',
         ~ fetch_active_connections
  PROVE  Selecting /\ NothingPending /\ ~ Adding /\ active' = active
<1> USE DEF Selecting, NothingPending
<1>1. /\ host \in [Callers -> {"idle", "forget", "trigger"}]
      /\ chan \in Nat
  BY WalletAssumption DEF Types, TypeOK
<1>2. CASE UNCHANGED vars
  BY <1>1, <1>2
  DEF vars, hostVars, loopVars, Adding, add_connection, edit_connection
<1>3. ~ Adding
  BY <1>1 DEF Adding, add_connection, edit_connection
<1>4. ASSUME NEW c \in Callers,
             remove_connection(c) \/ ForgetPaidInvoices(c)
      PROVE  Selecting /\ NothingPending /\ active' = active
  BY <1>1, <1>4 DEF remove_connection, ForgetPaidInvoices, loopVars, HostCall
<1>5. ASSUME NEW c \in Callers, trigger_resubscription(c) PROVE FALSE
  BY <1>1, <1>5 DEF trigger_resubscription, loopVars
<1>6. ASSUME LoopStep
      PROVE  Selecting /\ NothingPending /\ active' = active
  BY <1>6
  DEF LoopStep, ArmTimer, Resubscribe, on_interval, NotifyRefreshed, hostVars
<1>7. ASSUME \/ Tick \/ (\E h \in Handlers : HandleEvent(h) \/ HandlerStep(h))
             \/ (\E i \in Invoices : OrphanSettles(i))
      PROVE  Selecting /\ NothingPending /\ active' = active
  BY <1>7
  DEF Tick, HandleEvent, HandlerStep, Charge, compute_result, CallPayInvoice,
      PaymentSettles,
      add_nwc_paid_invoice, Refund, Reply, OrphanSettles, hostVars, loopVars
<1>8. ~ Crash
  BY DEF Crash, LoopStart
<1> QED
  BY <1>2, <1>3, <1>4, <1>5, <1>6, <1>7, <1>8 DEF Next, HostStep, Adding

(* The cache misses no update: in every interleaving of host calls, loop   *)
(* and handlers, with any failures and crashes, requests are judged by the *)
(* persisted terms as soon as no resubscription is pending.                *)
THEOREM CacheFollowsStorage == Spec => []ServedAsPersisted
<1>1. Init => ServedAsPersisted
  BY DEF Init, ServedAsPersisted, CaughtUp
<1>2. Types /\ ServedAsPersisted /\ [Next]_vars => ServedAsPersisted'
  <2> SUFFICES ASSUME Types, ServedAsPersisted, [Next]_vars,
                      Selecting', NothingPending',
                      NEW n \in Names, connections'[n] # None
               PROVE  /\ active'[n] # None
                      /\ Terms(active'[n]) = Terms(connections'[n])
    BY DEF ServedAsPersisted, CaughtUp, Selecting
  <2>1. CASE fetch_active_connections
    BY <2>1 DEF fetch_active_connections, Selecting, storeVars
  <2>2. CASE ~ fetch_active_connections
    <3>1. Selecting /\ NothingPending /\ ~ Adding /\ active' = active
      BY <2>2, Pending
    <3> QED
      BY <3>1, TermsKept DEF ServedAsPersisted, CaughtUp, Selecting
  <2> QED
    BY <2>1, <2>2
<1> QED
  BY <1>1, <1>2, SpecTypes, PTL DEF Spec

-----------------------------------------------------------------------------
(* The same terms have the same durations.                                 *)
LEMMA SameTerms ==
  ASSUME NEW a \in Connections, NEW c \in Connections, Terms(a) = Terms(c)
  PROVE  /\ a.created_at = c.created_at
         /\ a.expiry_time_sec = c.expiry_time_sec
         /\ a.periodic_budget = None <=> c.periodic_budget = None
         /\ a.periodic_budget # None =>
              a.periodic_budget.renewal_time_sec
                = c.periodic_budget.renewal_time_sec
<1> DEFINE x == a.periodic_budget
           y == c.periodic_budget
<1>1. /\ a.created_at = Terms(a).created_at
      /\ a.expiry_time_sec = Terms(a).expiry_time_sec
      /\ BudgetTerms(x) = Terms(a).periodic_budget
  BY DEF Terms, Connections
<1>2. /\ c.created_at = Terms(c).created_at
      /\ c.expiry_time_sec = Terms(c).expiry_time_sec
      /\ BudgetTerms(y) = Terms(c).periodic_budget
  BY DEF Terms, Connections
<1>3. BudgetTerms(x) = BudgetTerms(y)
  BY <1>1, <1>2
<1>4. ASSUME NEW b \in Budgets
      PROVE  /\ BudgetTerms(b) \in Budgets
             /\ BudgetTerms(b).renewal_time_sec = b.renewal_time_sec
  BY NoneAssumption DEF BudgetTerms, Budgets
<1>5. BudgetTerms(None) = None
  BY DEF BudgetTerms
<1>6. x \in Budgets \cup {None} /\ y \in Budgets \cup {None}
  BY DEF Connections
<1> QED
  BY <1>1, <1>2, <1>3, <1>4, <1>5, <1>6, NoneAssumption

LEMMA DurationsKept ==
  ASSUME NEW s \in Stores, NEW t \in Stores,
         \A n \in Names :
           t[n] # None => s[n] # None /\ Terms(t[n]) = Terms(s[n])
  PROVE  Durations(t) \subseteq Durations(s)
<1> SUFFICES ASSUME NEW d \in Durations(t) PROVE d \in Durations(s)
  OBVIOUS
<1>1. PICK n \in Names :
        /\ t[n] # None
        /\ \/ d = t[n].expiry_time_sec
           \/ /\ t[n].periodic_budget # None
              /\ d = t[n].periodic_budget.renewal_time_sec
  BY DEF Durations
<1>2. s[n] # None /\ s[n] \in Connections /\ t[n] \in Connections
  BY <1>1 DEF Stores
<1>3. d \notin {None, U32 - 1}
  BY DEF Durations
<1> QED
  BY <1>1, <1>2, <1>3, SameTerms DEF Durations

LEMMA ExpiredForGood ==
  ASSUME NEW c \in Connections, NEW t \in Nat, NEW u \in Nat, t <= u,
         Expired(c, t)
  PROVE  Expired(c, u)
<1>1. c.expiry_time_sec \in Nat
  BY DEF Expired, Connections
<1>2. AddSeconds(c.created_at, c.expiry_time_sec) \in Nat
  <2>1. c.created_at + c.expiry_time_sec \in Nat
    BY <1>1 DEF Connections
  <2> QED
    BY <2>1, ModNat DEF AddSeconds
<1> QED
  BY <1>2 DEF Expired

(* Time only passes, and failures are only added.                          *)
LEMMA Forward ==
  ASSUME Types, [Next]_vars
  PROVE  now' \in Nat /\ now' >= now /\ (faults' = 0 => faults = 0)
<1>1. now \in Nat /\ faults \in Nat
  BY DEF Types, TypeOK
<1>2. \/ faults' = faults /\ now' \in {now, now + 1}
      \/ faults' = faults + 1 /\ now' = now
  <2>1. ASSUME Tick \/ Crash \/ UNCHANGED vars
               \/ \E i \in Invoices : OrphanSettles(i)
        PROVE  faults' = faults /\ now' \in {now, now + 1}
    BY <2>1 DEF Tick, Crash, vars, OrphanSettles
  <2>2. ASSUME NEW c \in Callers,
               \/ add_connection(c) \/ edit_connection(c)
               \/ remove_connection(c) \/ HostStep(c)
        PROVE  now' = now /\ faults' \in {faults, faults + 1}
    BY <2>2
    DEF add_connection, edit_connection, remove_connection, HostStep,
        ForgetPaidInvoices, trigger_resubscription, Fault
  <2>3. ASSUME LoopStep PROVE now' = now /\ faults' \in {faults, faults + 1}
    BY <2>3
    DEF LoopStep, ArmTimer, fetch_active_connections, Resubscribe,
        on_interval, NotifyRefreshed, Fault
  <2>4. ASSUME NEW h \in Handlers, HandleEvent(h) \/ HandlerStep(h)
        PROVE  now' = now /\ faults' \in {faults, faults + 1}
    BY <2>4
    DEF HandleEvent, HandlerStep, Charge, compute_result, CallPayInvoice,
        PaymentSettles,
        add_nwc_paid_invoice, Refund, Reply, Fault
  <2> QED
    BY <2>1, <2>2, <2>3, <2>4 DEF Next
<1> QED
  BY <1>1, <1>2

Forgetting == \E c \in Callers : host[c] = "forget"

(* A removal ends in a resubscription or in a failure.                     *)
LEMMA NotForgetting ==
  ASSUME Types, [Next]_vars, Selecting', NothingPending', faults' = 0,
         ~ Forgetting', ~ fetch_active_connections
  PROVE  ~ Forgetting /\ ~ Removing
<1>1. host \in [Callers -> {"idle", "forget", "trigger"}] /\ faults \in Nat
  BY DEF Types, TypeOK
<1>2. ~ Removing
  BY <1>1 DEF Removing, remove_connection, Forgetting
<1>3. SUFFICES ASSUME NEW c \in Callers, host[c] = "forget" PROVE FALSE
  BY <1>2 DEF Forgetting
<1>4. host'[c] # "forget" /\ host'[c] # "trigger"
  BY DEF Forgetting, NothingPending
<1>5. CASE ForgetPaidInvoices(c)
  BY <1>1, <1>4, <1>5 DEF ForgetPaidInvoices, Fault
<1>6. CASE ~ ForgetPaidInvoices(c)
  <2>1. ~ Crash
    BY DEF Crash, LoopStart, Selecting
  <2>2. ~ Adding
    BY <1>6, Pending
  <2>3. host'[c] = host[c]
    BY <1>1, <1>2, <1>3, <1>6, <2>1, <2>2
    DEF Next, vars, hostVars, Tick, Adding, Removing, HostStep,
        ForgetPaidInvoices,
        trigger_resubscription, LoopStep, ArmTimer, fetch_active_connections,
        Resubscribe, on_interval, NotifyRefreshed, HandleEvent, HandlerStep,
        Charge, compute_result, CallPayInvoice, PaymentSettles,
        add_nwc_paid_invoice, Refund,
        Reply, OrphanSettles
  <2> QED
    BY <1>3, <1>4, <2>3
<1> QED
  BY <1>5, <1>6

(* As long as nothing fails, a connection that was removed is not served   *)
(* once no resubscription is pending: only one that expired can be.        *)
THEOREM RemovalReachesCache == Spec => []RevokedNotServed
<1>1. Init => RevokedNotServed
  BY DEF Init, RevokedNotServed, CaughtUp
<1>2. Types /\ ServedAsPersisted /\ RevokedNotServed /\ [Next]_vars
        => RevokedNotServed'
  <2> SUFFICES ASSUME Types, ServedAsPersisted, RevokedNotServed, [Next]_vars,
                      Selecting', NothingPending', faults' = 0, ~ Forgetting',
                      NEW n \in Names,
                      active'[n] # None, connections'[n] = None
               PROVE  Expired(active'[n], now')
    BY DEF RevokedNotServed, CaughtUp, Selecting, Forgetting
  <2>1. ~ fetch_active_connections
    BY DEF fetch_active_connections, Selecting, storeVars
  <2>2. Selecting /\ NothingPending /\ ~ Adding /\ active' = active
    BY <2>1, Pending
  <2>3. ~ Forgetting /\ ~ Removing
    BY <2>1, NotForgetting
  <2>4. /\ faults = 0 /\ now \in Nat /\ now' \in Nat /\ now' >= now
        /\ active[n] \in Connections
    BY <2>2, Forward DEF Types, TypeOK, Stores
  <2>5. Expired(active[n], now)
    <3>1. CASE connections[n] = None
      BY <2>2, <2>3, <2>4, <3>1 DEF RevokedNotServed, CaughtUp, Selecting, Forgetting
    <3>2. CASE connections[n] # None
      <4>1. connections[n] \in Connections
        BY <3>2 DEF Types, TypeOK, Stores
      <4>2. Terms(active[n]) = Terms(connections[n])
        BY <2>2, <3>2 DEF ServedAsPersisted, CaughtUp, Selecting
      <4>3. \A delta \in Int : Spend(connections[n], delta) # None
        BY <4>1, SpendType, NoneAssumption
      <4>4. connections[n].periodic_budget # None =>
              Renewed(connections[n], now) # None
        BY <4>1, <2>4, RenewedType, NoneAssumption
      <4>5. Expired(connections[n], now)
        BY <2>2, <2>3, <3>2, <4>3, <4>4, QuietChanges DEF QuietChange
      <4> QED
        BY <4>1, <4>2, <4>5, <2>4, SameTerms DEF Expired
    <3> QED
      BY <3>1, <3>2
  <2> QED
    BY <2>2, <2>4, <2>5, ExpiredForGood
<1> QED
  BY <1>1, <1>2, SpecTypes, CacheFollowsStorage, PTL DEF Spec

-----------------------------------------------------------------------------
(* From the arming of the timer to the next resubscription.                *)
Armed == loop \in {"fetch", "select", "notify"}

(* A step of that time other than the arming leaves the timer alone, but   *)
(* for its next tick, and no write that needs a resubscription is made.    *)
LEMMA StaysArmed ==
  ASSUME Types, [Next]_vars, Armed', NothingPending', ~ ArmTimer
  PROVE  /\ Armed /\ NothingPending /\ ~ Adding
         /\ \/ timer' = timer
            \/ /\ timer # None /\ now >= timer.next /\ now' = now
               /\ timer' = [timer EXCEPT !.next = @ + timer.period]
<1> USE DEF Armed, NothingPending
<1>1. /\ host \in [Callers -> {"idle", "forget", "trigger"}]
      /\ chan \in Nat
  BY WalletAssumption DEF Types, TypeOK
<1>2. ~ Adding
  BY <1>1 DEF Adding, add_connection, edit_connection
<1>3. CASE UNCHANGED vars
  BY <1>1, <1>2, <1>3 DEF vars, hostVars, loopVars
<1>4. ASSUME NEW c \in Callers,
             remove_connection(c) \/ ForgetPaidInvoices(c)
      PROVE  Armed /\ NothingPending /\ timer' = timer
  BY <1>1, <1>4 DEF remove_connection, ForgetPaidInvoices, loopVars, HostCall
<1>5. ASSUME NEW c \in Callers, trigger_resubscription(c) PROVE FALSE
  BY <1>1, <1>5 DEF trigger_resubscription, loopVars
<1>6. ASSUME fetch_active_connections \/ NotifyRefreshed
      PROVE  Armed /\ NothingPending /\ timer' = timer
  BY <1>6 DEF fetch_active_connections, NotifyRefreshed, hostVars
<1>7. ASSUME on_interval
      PROVE  /\ Armed /\ NothingPending
             /\ timer # None /\ now >= timer.next /\ now' = now
             /\ timer' = [timer EXCEPT !.next = @ + timer.period]
  BY <1>7 DEF on_interval, hostVars
<1>8. ~ Resubscribe
  BY DEF Resubscribe
<1>9. ASSUME \/ Tick \/ (\E h \in Handlers : HandleEvent(h) \/ HandlerStep(h))
             \/ (\E i \in Invoices : OrphanSettles(i))
      PROVE  Armed /\ NothingPending /\ timer' = timer
  BY <1>9
  DEF Tick, HandleEvent, HandlerStep, Charge, compute_result, CallPayInvoice,
      PaymentSettles,
      add_nwc_paid_invoice, Refund, Reply, OrphanSettles, hostVars, loopVars
<1>10. ~ Crash
  BY DEF Crash, LoopStart
<1> QED
  BY <1>2, <1>3, <1>4, <1>5, <1>6, <1>7, <1>8, <1>9, <1>10
  DEF Next, HostStep, LoopStep, Adding

(* As long as nothing fails, whatever is persisted with an expiry or a     *)
(* renewal is looked at again within that duration and the grace period.   *)
THEOREM RefreshIsScheduled == Spec => []RefreshScheduled
<1>1. Init => RefreshScheduled
  BY DEF Init, RefreshScheduled, LoopStart
<1>2. Types /\ RefreshScheduled /\ [Next]_vars => RefreshScheduled'
  <2> SUFFICES ASSUME Types, RefreshScheduled, [Next]_vars,
                      Armed', NothingPending', faults' = 0,
                      NEW d \in Durations(connections')
               PROVE  /\ timer' # None
                      /\ timer'.period <= Interval(d)
                      /\ timer'.next <= now' + Interval(d)
    BY DEF RefreshScheduled, Armed
  <2>1. /\ connections \in Stores /\ connections' \in Stores
        /\ now \in Nat /\ now' \in Nat /\ now' >= now
        /\ faults \in Nat /\ faults = 0
    <3>1. Types'
      BY HostTypes, LoopTypes, HandleEventTypes, HandlerTypes, OtherTypes
      DEF Next
    <3> QED
      BY <3>1, Forward DEF Types, TypeOK
  <2>2. Interval(d) \in Nat
    BY <2>1, DurationsNat, NwcAssumption DEF Interval
  <2>3. CASE ArmTimer
    <3> DEFINE p == get_min_interval(connections)
    <3>1. connections' = connections /\ now' = now
      BY <2>3 DEF ArmTimer, storeVars
    <3>2. p \in Nat /\ p # None /\ p <= Interval(d)
      BY <2>1, <3>1, MinInterval, NwcAssumption
    <3>3. timer' = [next |-> now + p, period |-> p]
      BY <2>1, <2>3, <3>2 DEF ArmTimer, Fault
    <3>4. timer' # None
      BY <2>1, <3>2, <3>3, WalletAssumption DEF Timers
    <3> HIDE DEF p
    <3> QED
      BY <2>1, <2>2, <3>1, <3>2, <3>3, <3>4
  <2>4. CASE ~ ArmTimer
    <3>1. /\ Armed /\ NothingPending /\ ~ Adding
          /\ \/ timer' = timer
             \/ /\ timer # None /\ now >= timer.next /\ now' = now
                /\ timer' = [timer EXCEPT !.next = @ + timer.period]
      BY <2>4, StaysArmed
    <3>2. d \in Durations(connections)
      BY <2>1, <3>1, TermsKept, DurationsKept
    <3>3. /\ timer # None
          /\ timer.period <= Interval(d)
          /\ timer.next <= now + Interval(d)
      BY <2>1, <3>1, <3>2 DEF RefreshScheduled, Armed
    <3>4. timer \in Timers
      BY <3>3 DEF Types, TypeOK
    <3>5. CASE timer' = timer
      BY <2>1, <2>2, <3>3, <3>4, <3>5 DEF Timers
    <3>6. CASE /\ now >= timer.next /\ now' = now
               /\ timer' = [timer EXCEPT !.next = @ + timer.period]
      <4>1. timer' = [next |-> timer.next + timer.period, period |-> timer.period]
        BY <3>4, <3>6 DEF Timers
      <4>2. timer' # None
        BY <3>4, <4>1, WalletAssumption DEF Timers
      <4> QED
        BY <2>1, <2>2, <3>3, <3>4, <3>6, <4>1, <4>2 DEF Timers
    <3> QED
      BY <3>1, <3>5, <3>6
  <2> QED
    BY <2>3, <2>4
<1> QED
  BY <1>1, <1>2, SpecTypes, PTL DEF Spec

-----------------------------------------------------------------------------
(* The terms of a connection are those of a connection, and all that an    *)
(* edit and the refresh go by.                                             *)
LEMMA BudgetTermsType ==
  ASSUME NEW b \in Budgets \cup {None}
  PROVE  /\ BudgetTerms(b) \in Budgets \cup {None}
         /\ BudgetTerms(BudgetTerms(b)) = BudgetTerms(b)
  BY NoneAssumption DEF BudgetTerms, Budgets

LEMMA TermsType ==
  ASSUME NEW c \in Connections
  PROVE  /\ Terms(c) \in Connections /\ Terms(c) # None
         /\ \A t \in Nat : Expired(Terms(c), t) <=> Expired(c, t)
<1>1. BudgetTerms(c.periodic_budget) \in Budgets \cup {None}
  BY BudgetTermsType DEF Connections
<1>2. /\ Terms(c) \in Connections
      /\ Terms(c).created_at = c.created_at
      /\ Terms(c).expiry_time_sec = c.expiry_time_sec
  BY <1>1 DEF Terms, Connections
<1> QED
  BY <1>2, NoneAssumption DEF Expired

LEMMA EditOfTerms ==
  ASSUME NEW c \in Connections, NEW req \in EditReqs, NEW at \in Nat
  PROVE  EditedTerms(Terms(c), req, at) = Terms(Edited(c, req, at))
<1> DEFINE b == c.periodic_budget
           new(x) == IF req.periodic_budget_req # None
                     THEN from_budget_request(req.periodic_budget_req, at)
                     ELSE IF req.remove_periodic_budget = TRUE THEN None
                     ELSE x
           open == IF req.receive_only = None THEN c.receive_only
                   ELSE req.receive_only
           expiry == IF req.expiry_time_mins # None
                     THEN mins_to_seconds(req.expiry_time_mins)
                     ELSE IF req.remove_expiry = TRUE THEN None
                     ELSE c.expiry_time_sec
<1>1. b \in Budgets \cup {None}
  BY DEF Connections
<1>2. BudgetTerms(new(BudgetTerms(b))) = BudgetTerms(new(b))
  BY <1>1, BudgetTermsType
<1>3. Edited(c, req, at)
        = [c EXCEPT !.receive_only = open, !.expiry_time_sec = expiry,
                    !.periodic_budget = new(b)]
  BY DEF Edited, Connections
<1>4. Edited(Terms(c), req, at)
        = [Terms(c) EXCEPT !.receive_only = open, !.expiry_time_sec = expiry,
                           !.periodic_budget = new(BudgetTerms(b))]
  BY DEF Edited, Terms, Connections
<1> HIDE DEF new, open, expiry
<1> QED
  BY <1>2, <1>3, <1>4 DEF EditedTerms, Terms, Connections

LEMMA AgreedAt ==
  ASSUME connections \in Stores, NEW n \in Names, NEW v,
         connections' = [connections EXCEPT ![n] = v]
  PROVE  AgreedTerms' = [AgreedTerms EXCEPT ![n] =
                           IF v = None THEN None ELSE Terms(v)]
  BY DEF AgreedTerms, Stores

LEMMA AgreedIn ==
  ASSUME connections \in Stores, NEW n \in Names
  PROVE  /\ AgreedTerms[n] = None <=> connections[n] = None
         /\ connections[n] # None => AgreedTerms[n] = Terms(connections[n])
  BY TermsType DEF AgreedTerms, Stores

(* Every step is one of the registry, or changes no terms.                 *)
LEMMA RegistryStep ==
  ASSUME Types, [Next]_vars PROVE [Registry!Next]_(Registry!vars)
<1>1. /\ connections \in Stores /\ now \in Nat /\ added \in [Names -> Nat]
  BY DEF Types, TypeOK
<1>2. ASSUME NEW c \in Callers, add_connection(c) PROVE Registry!Next
  <2>1. PICK req \in AddRequests, at \in 0 .. now :
          LET m == req.name
              con == NewConnection(req, <<m, added[m] + 1>>, at)
              out == add_nwc_connection(connections, m, con)
          IN /\ out.changed
             /\ connections' = out.data
             /\ added' = [added EXCEPT ![m] = @ + 1]
    BY <1>2 DEF add_connection
  <2> DEFINE m == req.name
             con == NewConnection(req, <<m, added[m] + 1>>, at)
  <2>2. req \in AddReqs /\ m \in Names /\ at \in Nat
    BY <1>1, RequestTypes DEF AddReqs
  <2>3. connections[m] = None /\ connections' = [connections EXCEPT ![m] = con]
    BY <2>1 DEF add_nwc_connection, Rejected, Changed, Unchanged
  <2>4. con \in Connections /\ con # None
    BY <1>1, <2>2, NextSecret, NewConnectionType, NoneAssumption DEF Types
  <2>5. AgreedTerms[m] = None
    BY <1>1, <2>2, <2>3, AgreedIn
  <2>6. AgreedTerms' = [AgreedTerms EXCEPT ![m] =
                          NewTerms(req, <<m, added[m] + 1>>, at)]
    <3> HIDE DEF con
    <3>1. AgreedTerms' = [AgreedTerms EXCEPT ![m] = Terms(con)]
      BY <1>1, <2>2, <2>3, <2>4, AgreedAt
    <3> QED
      BY <3>1 DEF con, NewTerms
  <2>7. now' = now
    BY <1>2 DEF add_connection
  <2>8. Registry!Add(req)
    BY <2>1, <2>5, <2>6, <2>7 DEF Registry!Add
  <2> QED
    BY <2>8 DEF Registry!Next
<1>3. ASSUME NEW c \in Callers, edit_connection(c) PROVE Registry!Next
  <2>1. PICK req \in EditRequests :
          LET out == edit_nwc_connection(connections, req, now)
          IN out.changed /\ connections' = out.data
    BY <1>3 DEF edit_connection
  <2> DEFINE n == req.name
  <2>2. /\ connections[n] # None /\ ~ Contradictory(req)
        /\ connections' = [connections EXCEPT ![n] =
                             Edited(connections[n], req, now)]
    BY <2>1 DEF edit_nwc_connection, Rejected, Changed, Unchanged
  <2>3. req \in EditReqs /\ n \in Names
    BY RequestTypes DEF EditReqs
  <2>4. /\ connections[n] \in Connections
        /\ Edited(connections[n], req, now) # None
    BY <1>1, <2>2, <2>3, EditedType, NoneAssumption DEF Stores
  <2>5. /\ AgreedTerms[n] # None
        /\ AgreedTerms[n] = Terms(connections[n])
    BY <1>1, <2>2, <2>3, AgreedIn
  <2>6. AgreedTerms' = [AgreedTerms EXCEPT ![n] =
                          Terms(Edited(connections[n], req, now))]
    BY <1>1, <2>2, <2>3, <2>4, AgreedAt
  <2>7. AgreedTerms' = [AgreedTerms EXCEPT ![n] =
                          EditedTerms(AgreedTerms[n], req, now)]
    BY <1>1, <2>3, <2>4, <2>5, <2>6, EditOfTerms
  <2>8. UNCHANGED <<now, added>>
    BY <1>3 DEF edit_connection
  <2>9. Registry!Amend(req)
    BY <2>5, <2>7, <2>8 DEF Registry!Amend
  <2> QED
    BY <2>2, <2>9 DEF Registry!Next
<1>4. ASSUME NEW c \in Callers, remove_connection(c) PROVE Registry!Next
  <2>1. PICK n \in Names :
          LET out == remove_nwc_connection(connections, n)
          IN out.changed /\ connections' = out.data
    BY <1>4 DEF remove_connection
  <2>2. connections[n] # None /\ connections' = [connections EXCEPT ![n] = None]
    BY <2>1 DEF remove_nwc_connection, Rejected, Changed, Unchanged
  <2>3. AgreedTerms[n] # None /\ AgreedTerms' = [AgreedTerms EXCEPT ![n] = None]
    BY <1>1, <2>2, AgreedIn, AgreedAt
  <2>4. UNCHANGED <<now, added>>
    BY <1>4 DEF remove_connection
  <2> QED
    BY <2>3, <2>4 DEF Registry!Next, Registry!Remove
<1>5. ASSUME on_interval PROVE Registry!Next \/ UNCHANGED Registry!vars
  <2>1. UNCHANGED <<now, added>>
    BY <1>5 DEF on_interval
  <2>2. CASE connections' = connections
    BY <2>1, <2>2 DEF Registry!vars, AgreedTerms
  <2>3. CASE connections' = refresh_connections(connections, now).data
    <3>1. ASSUME NEW n \in Names
          PROVE  AgreedTerms'[n] =
                   IF AgreedTerms[n] # None /\ Expired(AgreedTerms[n], now)
                   THEN None ELSE AgreedTerms[n]
      <4>1. connections[n] \in Connections \cup {None}
        BY <1>1 DEF Stores
      <4>2. CASE connections[n] = None
        BY <1>1, <2>3, <4>2 DEF AgreedTerms, refresh_connections
      <4>3. CASE connections[n] # None /\ Expired(connections[n], now)
        BY <1>1, <2>3, <4>1, <4>3, TermsType
        DEF AgreedTerms, refresh_connections
      <4>4. CASE connections[n] # None /\ ~ Expired(connections[n], now)
        <5>1. \/ connections'[n] = connections[n]
              \/ /\ connections[n].periodic_budget # None
                 /\ connections'[n] = Renewed(connections[n], now)
          BY <1>1, <2>3, <4>4, RefreshEach
        <5>2. /\ connections'[n] # None
              /\ Terms(connections'[n]) = Terms(connections[n])
          BY <1>1, <4>1, <4>4, <5>1, RenewedType, RenewedTerms, NoneAssumption
        <5> QED
          BY <1>1, <4>1, <4>4, <5>2, TermsType DEF AgreedTerms
      <4> QED
        BY <4>2, <4>3, <4>4
    <3>2. AgreedTerms' =
            [n \in Names |->
               IF AgreedTerms[n] # None /\ Expired(AgreedTerms[n], now)
               THEN None ELSE AgreedTerms[n]]
      BY <3>1 DEF AgreedTerms
    <3> QED
      BY <2>1, <3>2 DEF Registry!Next, Registry!Lapse
  <2> QED
    BY <1>5, <2>2, <2>3 DEF on_interval
<1>6. ASSUME NEW h \in Handlers, Charge(h) \/ Refund(h)
      PROVE  UNCHANGED Registry!vars
  <2>1. \A n \in Names : connections'[n] # None <=> connections[n] # None
    <3> DEFINE sat == AmountSat(job[h].req)
    <3>1. sat \in Nat /\ -sat \in Int
      BY <1>6, AmountNat DEF Charge, Refund, Types, HandlersOK, Paying, Jobs
    <3>2. /\ update_budget(connections, job[h].name, sat).changed
               => connections[job[h].name] # None
          /\ update_budget(connections, job[h].name, -sat).changed
               => connections[job[h].name] # None
      BY DEF update_budget, Rejected, Unchanged
    <3>3. \A c \in Connections, delta \in Int : Spend(c, delta) # None
      BY SpendType, NoneAssumption
    <3> QED
      BY <1>1, <1>6, <3>1, <3>2, <3>3
      DEF Charge, Refund, update_budget, Changed, Stores
  <2>2. ~ Adding
    <3>1. pc \in [Handlers -> {"idle", "verdict", "charge", "pay", "paying",
                              "record", "refund", "reply"}]
      BY DEF Types, TypeOK
    <3>2. pc[h] \in {"charge", "refund"} /\ pc'[h] \in {"pay", "reply"}
      BY <1>6, <3>1 DEF Charge, Refund, Answer
    <3>3. Adding => pc' = pc
      BY DEF Adding, add_connection, edit_connection, handlerVars
    <3> QED
      BY <3>2, <3>3
  <2>3. AgreedTerms' = AgreedTerms
    BY <2>1, <2>2, TermsKept DEF AgreedTerms
  <2> QED
    BY <1>6, <2>3 DEF Registry!vars, Charge, Refund
<1>7. ASSUME Tick PROVE Registry!Next
  BY <1>7 DEF Tick, storeVars, AgreedTerms, Registry!Next, Registry!Tick
<1>8. ASSUME ~ Adding, ~ Removing, ~ on_interval, ~ Tick,
             \A h \in Handlers : ~ Charge(h) /\ ~ Refund(h)
      PROVE  UNCHANGED Registry!vars
  <2>1. connections' = connections
    BY <1>8, Writers
  <2>2. CASE UNCHANGED vars
    BY <2>1, <2>2 DEF vars, storeVars, Registry!vars, AgreedTerms
  <2>3. ASSUME NEW c \in Callers, HostStep(c) PROVE UNCHANGED <<now, added>>
    BY <2>3 DEF HostStep, ForgetPaidInvoices, trigger_resubscription, storeVars
  <2>4. ASSUME LoopStep PROVE UNCHANGED <<now, added>>
    BY <1>8, <2>4
    DEF LoopStep, ArmTimer, fetch_active_connections, Resubscribe,
        NotifyRefreshed, storeVars
  <2>5. ASSUME NEW h \in Handlers, HandleEvent(h) \/ HandlerStep(h)
        PROVE  UNCHANGED <<now, added>>
    BY <1>8, <2>5
    DEF HandleEvent, HandlerStep, compute_result, CallPayInvoice,
        PaymentSettles,
        add_nwc_paid_invoice, Reply, storeVars
  <2>6. ASSUME \/ Crash \/ \E i \in Invoices : OrphanSettles(i)
        PROVE  UNCHANGED <<now, added>>
    BY <2>6 DEF Crash, OrphanSettles, storeVars
  <2>7. CASE UNCHANGED <<now, added>>
    BY <2>1, <2>7 DEF Registry!vars, AgreedTerms
  <2> QED
    BY <1>8, <2>2, <2>3, <2>4, <2>5, <2>6, <2>7 DEF Next, Adding, Removing
<1> QED
  BY <1>2, <1>3, <1>4, <1>5, <1>6, <1>7, <1>8 DEF Adding, Removing

(* The wallet service keeps the promise of the registry: whatever the      *)
(* handlers and the loop write, and however late, the host's connections   *)
(* stand under the terms it agreed to, until it removes them or they       *)
(* expire.                                                                 *)
THEOREM WalletImplementsRegistry == Spec => ImplementsRegistry
<1>1. Init => Registry!Init
  BY DEF Init, Registry!Init, AgreedTerms
<1>2. Types /\ [Next]_vars => [Registry!Next]_(Registry!vars)
  BY RegistryStep
<1> QED
  BY <1>1, <1>2, SpecTypes, PTL DEF Spec, ImplementsRegistry, Registry!Spec
=============================================================================
