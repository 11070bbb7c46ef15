-------------------------- MODULE NwcPayments_proofs --------------------------
(***************************************************************************)
(* Proofs about the payments of NwcWallet: the terms they are begun under, *)
(* what is charged for them, and what their clients are told.              *)
(***************************************************************************)
EXTENDS NwcWallet_proofs, FiniteSetTheorems

(* Secrets of connections added so far, of whoever may still hold one.     *)
Issued(secret) == secret[2] \in 1 .. added[secret[1]]

IdentityInv ==
  /\ \A n \in Names : connections[n] # None =>
       /\ connections[n].secret = <<n, added[n]>>
       /\ added[n] >= 1
  /\ \A n \in Names : active[n] # None =>
       active[n].secret[1] = n /\ Issued(active[n].secret)
  /\ \A h \in Handlers : pc[h] # "idle" =>
       job[h].secret[1] = job[h].name /\ Issued(job[h].secret)
  /\ \A i \in Invoices : sdk[i].by # None => Issued(sdk[i].by)
  /\ \A a \in acked : Issued(a.to)

(* The SDK's side of a payment and the handler's agree.                    *)
Pays(h) ==
  sdk[job[h].req.invoice] =
    [state |-> "inflight", by |-> job[h].secret, charged |-> job[h].charged,
     sat |-> AmountSat(job[h].req), period |-> job[h].period]

PaymentInv ==
  /\ \A i \in Invoices : sdk[i].state = "none" => ~ sdk[i].charged
  /\ \A h \in Handlers :
       /\ pc[h] \in {"charge", "refund"} => job[h].charged
       /\ pc[h] = "paying" => Pays(h)
  /\ \A g, h \in Handlers :
       pc[g] = "paying" /\ pc[h] = "paying" /\ g # h =>
         job[g].req.invoice # job[h].req.invoice

(* As long as nothing crashes, whoever began a payment waits for it.       *)
NoOrphan ==
  crashes = 0 =>
    \A i \in Invoices : sdk[i].state = "inflight" =>
      \E h \in Handlers : pc[h] = "paying" /\ job[h].req.invoice = i

(* A charge that is lost to a failure is lost to the connection.           *)
MoneyInv ==
  \A n \in Names, s \in Secrets :
    connections[n] # None /\ added[n] = 1 /\ connections[n].secret = s =>
      LET paid == connections[n].paid_amount_sat
          owed == PaidFor(s) + ChargedFor(s)
      IN /\ owed <= paid /\ paid <= MAX_SAT
         /\ faults = 0 /\ crashes = 0 => paid = owed

(* No charge takes an amount past what u64 holds.                          *)
NoSaturation ==
  \A h \in Handlers :
    LET c == connections[job[h].name] IN
    pc[h] = "charge" /\ c # None =>
      c.paid_amount_sat + AmountSat(job[h].req) <= MAX_SAT

Recorded(secret, invoice) ==
  /\ sdk[invoice].state = "paid"
  /\ \A n \in Names :
       connections[n] # None /\ connections[n].secret = secret /\ NoOverlap(n)
         => invoice \in paid_invoices[n]

RecordInv ==
  /\ \A h \in Handlers :
       /\ pc[h] = "record" => sdk[job[h].req.invoice].state = "paid"
       /\ pc[h] = "refund" => res[h] # "Ok"
       /\ pc[h] = "reply" /\ res[h] = "Ok" /\ job[h].req.method = "pay_invoice"
            => Recorded(job[h].secret, job[h].req.invoice)
  /\ \A a \in acked : Recorded(a.to, a.invoice)
  /\ \A c \in Callers : host[c] = "forget" =>
       LET n == removing[c] IN
       added[n] >= 1 /\ (NoOverlap(n) => connections[n] = None)

Tokens(S, sat) == UNION {{x} \X (1 .. sat[x]) : x \in S}

LEMMA TotalTokens ==
  ASSUME NEW S, NEW sat PROVE Total(S, sat) = Cardinality(Tokens(S, sat))
  BY DEF Total, Tokens

(* What one element adds to a sum.                                         *)
LEMMA OneTotal ==
  ASSUME NEW x, NEW n \in Nat
  PROVE  IsFiniteSet({x} \X (1 .. n)) /\ Cardinality({x} \X (1 .. n)) = n
<1>1. IsFiniteSet({x}) /\ Cardinality({x}) = 1
  BY FS_Singleton
<1>2. IsFiniteSet(1 .. n) /\ Cardinality(1 .. n) = n
  BY FS_Interval
<1>3. /\ IsFiniteSet({x} \X (1 .. n))
      /\ Cardinality({x} \X (1 .. n)) = Cardinality({x}) * Cardinality(1 .. n)
  BY <1>1, <1>2, FS_Product
<1>4. 1 * n = n
  OBVIOUS
<1> QED
  BY <1>1, <1>2, <1>3, <1>4

LEMMA TokensFinite ==
  ASSUME NEW S, IsFiniteSet(S), NEW sat, \A x \in S : sat[x] \in Nat
  PROVE  IsFiniteSet(Tokens(S, sat))
<1> DEFINE T == {{x} \X (1 .. sat[x]) : x \in S}
           f == [x \in S |-> {x} \X (1 .. sat[x])]
<1>1. f \in Surjection(S, T)
  BY DEF Surjection
<1>2. IsFiniteSet(T)
  BY <1>1, FS_Surjection
<1>3. \A t \in T : IsFiniteSet(t)
  <2> SUFFICES ASSUME NEW x \in S PROVE IsFiniteSet({x} \X (1 .. sat[x]))
    OBVIOUS
  <2>1. sat[x] \in Nat
    OBVIOUS
  <2> QED
    BY <2>1, OneTotal
<1>4. Tokens(S, sat) = UNION T
  BY DEF Tokens
<1> HIDE DEF T
<1> QED
  BY <1>2, <1>3, <1>4, FS_UNION

LEMMA TotalNat ==
  ASSUME NEW S, IsFiniteSet(S), NEW sat, \A x \in S : sat[x] \in Nat
  PROVE  Total(S, sat) \in Nat
  BY TokensFinite, FS_CardinalityType, TotalTokens

LEMMA TotalEmpty == ASSUME NEW sat PROVE Total({}, sat) = 0
<1>1. UNION {{x} \X (1 .. sat[x]) : x \in {}} = {}
  OBVIOUS
<1> QED
  BY <1>1, FS_EmptySet DEF Total

(* Only what is summed over matters.                                       *)
LEMMA TotalSame ==
  ASSUME NEW S, NEW a, NEW b, \A x \in S : a[x] = b[x]
  PROVE  Total(S, a) = Total(S, b)
<1>1. UNION {{x} \X (1 .. a[x]) : x \in S} = UNION {{x} \X (1 .. b[x]) : x \in S}
  OBVIOUS
<1> QED
  BY <1>1 DEF Total

LEMMA TotalAdd ==
  ASSUME NEW S, IsFiniteSet(S), NEW x, x \notin S, NEW sat,
         \A y \in S \cup {x} : sat[y] \in Nat
  PROVE  Total(S \cup {x}, sat) = Total(S, sat) + sat[x]
<1> DEFINE one == {x} \X (1 .. sat[x])
<1>1. IsFiniteSet(one) /\ Cardinality(one) = sat[x]
  BY OneTotal
<1>2. Tokens(S \cup {x}, sat) = Tokens(S, sat) \cup one
  BY DEF Tokens
<1>3. Tokens(S, sat) \cap one = {}
  BY DEF Tokens
<1>4. IsFiniteSet(Tokens(S, sat)) /\ Cardinality(Tokens(S, sat)) \in Nat
  BY TokensFinite, FS_CardinalityType
<1>5. Cardinality({}) = 0
  BY FS_EmptySet
<1>6. Cardinality(Tokens(S, sat) \cup one)
        = Cardinality(Tokens(S, sat)) + Cardinality(one)
          - Cardinality(Tokens(S, sat) \cap one)
  BY <1>1, <1>4, FS_Union
<1> HIDE DEF one
<1>7. Total(S \cup {x}, sat) = Cardinality(Tokens(S, sat) \cup one)
  BY <1>2, TotalTokens
<1>8. Cardinality(Tokens(S, sat) \cap one) = 0 /\ sat[x] \in Nat
  BY <1>3, <1>5
<1>9. Total(S, sat) = Cardinality(Tokens(S, sat))
  BY TotalTokens
<1> QED
  BY <1>1, <1>4, <1>6, <1>7, <1>8, <1>9

(* A sum, before and after x is added to what is summed over.              *)
LEMMA TotalStep ==
  ASSUME NEW S, IsFiniteSet(S), NEW a, \A y \in S : a[y] \in Nat,
         NEW x, x \notin S, NEW T, T = S \cup {x},
         NEW b, \A y \in S : b[y] = a[y], b[x] \in Nat
  PROVE  Total(T, b) = Total(S, a) + b[x]
<1>1. Total(S, b) = Total(S, a)
  BY TotalSame
<1>2. Total(S \cup {x}, b) = Total(S, b) + b[x]
  <2>1. \A y \in S \cup {x} : b[y] \in Nat
    OBVIOUS
  <2> QED
    BY <2>1, TotalAdd
<1> QED
  BY <1>1, <1>2

LEMMA TotalBack ==
  ASSUME NEW S, IsFiniteSet(S), NEW a, \A y \in S : a[y] \in Nat,
         NEW x \in S, NEW T, T = S \ {x}, NEW b, \A y \in T : b[y] = a[y]
  PROVE  Total(S, a) = Total(T, b) + a[x]
<1>1. IsFiniteSet(T)
  BY FS_RemoveElement
<1>2. S = T \cup {x} /\ x \notin T
  OBVIOUS
<1>3. /\ \A y \in T : b[y] \in Nat
      /\ \A y \in T : a[y] = b[y]
      /\ a[x] \in Nat
  OBVIOUS
<1> QED
  BY <1>1, <1>2, <1>3, TotalStep

-----------------------------------------------------------------------------
LEMMA NextTypes == ASSUME Types, [Next]_vars PROVE Types'
  BY HostTypes, LoopTypes, HandleEventTypes, HandlerTypes, OtherTypes DEF Next

LEMMA LooseTypes ==
  ASSUME Types, NEW s
  PROVE  /\ IsFiniteSet(LooseCharges(s)) /\ LooseCharges(s) \subseteq Handlers
         /\ \A h \in LooseCharges(s) : AmountSat(job[h].req) \in Nat
         /\ ChargedFor(s) \in Nat
<1>1. LooseCharges(s) \subseteq Handlers
  BY DEF LooseCharges
<1>2. IsFiniteSet(LooseCharges(s))
  BY <1>1, FiniteAssumption, FS_Subset
<1>3. \A h \in LooseCharges(s) : AmountSat(job[h].req) \in Nat
  BY AmountNat DEF LooseCharges, Types, HandlersOK, Paying, Jobs
<1>4. ChargedFor(s) \in Nat
  <2> DEFINE a == [h \in LooseCharges(s) |-> AmountSat(job[h].req)]
  <2>1. \A h \in LooseCharges(s) : a[h] \in Nat
    BY <1>3
  <2>2. Total(LooseCharges(s), a) \in Nat
    BY <1>2, <2>1, TotalNat
  <2> QED
    BY <2>2 DEF ChargedFor
<1> QED
  BY <1>1, <1>2, <1>3, <1>4

LEMMA PaidTypes ==
  ASSUME Types, NEW s
  PROVE  /\ IsFiniteSet(ChargedPayments(s))
         /\ \A i \in Invoices : sdk[i].sat \in Nat
         /\ PaidFor(s) \in Nat
<1>1. ChargedPayments(s) \subseteq Invoices
  BY DEF ChargedPayments
<1>2. IsFiniteSet(ChargedPayments(s))
  BY <1>1, FiniteAssumption, FS_Subset
<1>3. \A i \in Invoices : sdk[i].sat \in Nat
  BY DEF Types, TypeOK, Payments
<1>4. PaidFor(s) \in Nat
  <2> DEFINE a == [i \in Invoices |-> sdk[i].sat]
  <2>1. \A i \in ChargedPayments(s) : a[i] \in Nat
    BY <1>1, <1>3
  <2>2. Total(ChargedPayments(s), a) \in Nat
    BY <1>2, <2>1, TotalNat
  <2> QED
    BY <2>2 DEF PaidFor
<1> QED
  BY <1>2, <1>3, <1>4

(* What a step does to the sums follows from what it does to their terms.  *)
LEMMA PaidSame ==
  ASSUME NEW s, ChargedPayments(s)' = ChargedPayments(s),
         \A i \in ChargedPayments(s) : sdk'[i].sat = sdk[i].sat
  PROVE  PaidFor(s)' = PaidFor(s)
<1> DEFINE a == [i \in Invoices |-> sdk[i].sat]
           b == [i \in Invoices |-> sdk'[i].sat]
<1>1. \A i \in ChargedPayments(s) : a[i] = b[i]
  BY DEF ChargedPayments
<1>2. Total(ChargedPayments(s), a) = Total(ChargedPayments(s), b)
  BY <1>1, TotalSame
<1> QED
  BY <1>2 DEF PaidFor

LEMMA PaidMore ==
  ASSUME Types, Types', NEW s, NEW i \in Invoices, i \notin ChargedPayments(s),
         ChargedPayments(s)' = ChargedPayments(s) \cup {i},
         \A j \in ChargedPayments(s) : sdk'[j].sat = sdk[j].sat
  PROVE  PaidFor(s)' = PaidFor(s) + sdk'[i].sat
<1> DEFINE a == [j \in Invoices |-> sdk[j].sat]
           b == [j \in Invoices |-> sdk'[j].sat]
<1>1. /\ IsFiniteSet(ChargedPayments(s))
      /\ \A j \in ChargedPayments(s) : a[j] \in Nat /\ b[j] = a[j]
      /\ b[i] \in Nat /\ b[i] = sdk'[i].sat
  <2>1. \A j \in Invoices : sdk[j].sat \in Nat /\ sdk'[j].sat \in Nat
    BY DEF Types, TypeOK, Payments
  <2>2. ChargedPayments(s) \subseteq Invoices
    BY DEF ChargedPayments
  <2> QED
    BY <2>1, <2>2, PaidTypes
<1>2. Total(ChargedPayments(s)', b) = Total(ChargedPayments(s), a) + b[i]
  <2> HIDE DEF a, b
  <2> QED
    BY <1>1, TotalStep
<1> QED
  BY <1>1, <1>2 DEF PaidFor

LEMMA PaidLess ==
  ASSUME Types, NEW s, NEW i \in ChargedPayments(s),
         ChargedPayments(s)' = ChargedPayments(s) \ {i},
         \A j \in ChargedPayments(s) \ {i} : sdk'[j].sat = sdk[j].sat
  PROVE  PaidFor(s) = PaidFor(s)' + sdk[i].sat
<1> DEFINE a == [j \in Invoices |-> sdk[j].sat]
           b == [j \in Invoices |-> sdk'[j].sat]
<1>1. ChargedPayments(s) \subseteq Invoices
  BY DEF ChargedPayments
<1>2. /\ IsFiniteSet(ChargedPayments(s))
      /\ \A j \in ChargedPayments(s) : a[j] \in Nat
      /\ \A j \in ChargedPayments(s) \ {i} : b[j] = a[j]
      /\ a[i] = sdk[i].sat
  BY <1>1, PaidTypes
<1>3. Total(ChargedPayments(s), a) = Total(ChargedPayments(s)', b) + a[i]
  <2> HIDE DEF a, b
  <2> QED
    BY <1>2, TotalBack
<1> QED
  BY <1>2, <1>3 DEF PaidFor

LEMMA ChargedSame ==
  ASSUME NEW s, LooseCharges(s)' = LooseCharges(s),
         \A g \in LooseCharges(s) : job'[g].req = job[g].req
  PROVE  ChargedFor(s)' = ChargedFor(s)
<1> DEFINE a == [g \in LooseCharges(s) |-> AmountSat(job[g].req)]
           b == [g \in LooseCharges(s) |-> AmountSat(job'[g].req)]
<1>1. \A g \in LooseCharges(s) : a[g] = b[g]
  OBVIOUS
<1>2. Total(LooseCharges(s), a) = Total(LooseCharges(s), b)
  <2> HIDE DEF a, b
  <2> QED
    BY <1>1, TotalSame
<1>3. ChargedFor(s)' = Total(LooseCharges(s), b)
  BY DEF ChargedFor
<1> QED
  BY <1>2, <1>3 DEF ChargedFor

LEMMA ChargedMore ==
  ASSUME Types, NEW s, NEW h, h \notin LooseCharges(s),
         LooseCharges(s)' = LooseCharges(s) \cup {h},
         \A g \in LooseCharges(s) : job'[g].req = job[g].req,
         AmountSat(job'[h].req) \in Nat
  PROVE  ChargedFor(s)' = ChargedFor(s) + AmountSat(job'[h].req)
<1> DEFINE a == [g \in LooseCharges(s) |-> AmountSat(job[g].req)]
           b == [g \in LooseCharges(s) \cup {h} |-> AmountSat(job'[g].req)]
<1>1. /\ IsFiniteSet(LooseCharges(s))
      /\ \A g \in LooseCharges(s) : a[g] \in Nat
      /\ \A g \in LooseCharges(s) : b[g] = a[g]
      /\ b[h] = AmountSat(job'[h].req) /\ b[h] \in Nat
  BY LooseTypes
<1>2. Total(LooseCharges(s)', b) = Total(LooseCharges(s), a) + b[h]
  <2> HIDE DEF a, b
  <2> QED
    BY <1>1, TotalStep
<1>3. ChargedFor(s)' = Total(LooseCharges(s)', b)
  BY DEF ChargedFor
<1> QED
  BY <1>1, <1>2, <1>3 DEF ChargedFor

LEMMA ChargedLess ==
  ASSUME Types, NEW s, NEW h \in LooseCharges(s),
         LooseCharges(s)' = LooseCharges(s) \ {h},
         \A g \in LooseCharges(s) \ {h} : job'[g].req = job[g].req
  PROVE  ChargedFor(s) = ChargedFor(s)' + AmountSat(job[h].req)
<1> DEFINE a == [g \in LooseCharges(s) |-> AmountSat(job[g].req)]
           b == [g \in LooseCharges(s) \ {h} |-> AmountSat(job'[g].req)]
<1>1. /\ IsFiniteSet(LooseCharges(s))
      /\ \A g \in LooseCharges(s) : a[g] \in Nat
      /\ \A g \in LooseCharges(s) \ {h} : b[g] = a[g]
      /\ a[h] = AmountSat(job[h].req)
  BY LooseTypes
<1>2. Total(LooseCharges(s), a) = Total(LooseCharges(s)', b) + a[h]
  <2> HIDE DEF a, b
  <2> QED
    BY <1>1, TotalBack
<1>3. ChargedFor(s)' = Total(LooseCharges(s)', b)
  BY DEF ChargedFor
<1> QED
  BY <1>1, <1>2, <1>3 DEF ChargedFor

-----------------------------------------------------------------------------
(* Who is who: secrets, names and how often a name was added.              *)
LEMMA SecretsKept ==
  ASSUME NEW c \in Connections
  PROVE  /\ \A delta \in Int : Spend(c, delta).secret = c.secret
         /\ \A at \in Nat : Renewed(c, at).secret = c.secret
         /\ \A req \in EditReqs, at \in Nat : Edited(c, req, at).secret = c.secret
  BY DEF Spend, Renewed, Edited, Connections

LEMMA Addition ==
  ASSUME Types, NEW c \in Callers, add_connection(c)
  PROVE  \E req \in AddRequests, at \in Nat :
           LET m == req.name
               con == NewConnection(req, <<m, added[m] + 1>>, at)
           IN /\ m \in Names /\ connections[m] = None
              /\ connections' = [connections EXCEPT ![m] = con]
              /\ added' = [added EXCEPT ![m] = @ + 1]
              /\ outdated' = outdated \cup
                   {h \in Handlers : /\ pc[h] \in {"verdict", "charge", "pay"}
                                    /\ job[h].name = m}
<1>1. PICK req \in AddRequests, at \in 0 .. now :
        LET m == req.name
            con == NewConnection(req, <<m, added[m] + 1>>, at)
            out == add_nwc_connection(connections, m, con)
        IN /\ out.changed
           /\ connections' = out.data
           /\ added' = [added EXCEPT ![m] = @ + 1]
           /\ Outdate(m)
  BY DEF add_connection
<1>2. req.name \in Names /\ at \in Nat
  BY RequestTypes DEF AddReqs, Types, TypeOK
<1> QED
  BY <1>1, <1>2
  DEF add_nwc_connection, Rejected, Changed, Unchanged, Outdate

LEMMA NotAdded ==
  ASSUME [Next]_vars, ~ \E c \in Callers : add_connection(c)
  PROVE  added' = added
  BY DEF Next, vars, storeVars, edit_connection, remove_connection, Tick,
         HostStep, ForgetPaidInvoices, trigger_resubscription, LoopStep,
         ArmTimer, fetch_active_connections, Resubscribe, on_interval,
         NotifyRefreshed, HandleEvent, HandlerStep, Charge, compute_result,
         CallPayInvoice,
         PaymentSettles, add_nwc_paid_invoice, Refund, Reply, Crash,
         OrphanSettles

SameConnection(n) ==
  /\ connections[n] # None
  /\ connections'[n].secret = connections[n].secret
  /\ added'[n] = added[n]

NewlyAdded(n) ==
  /\ connections[n] = None
  /\ added'[n] = added[n] + 1
  /\ connections'[n].secret = <<n, added[n] + 1>>
  /\ connections'[n].paid_amount_sat = 0

LEMMA SecretChange ==
  ASSUME Types, [Next]_vars, NEW n \in Names
  PROVE  /\ added[n] \in Nat /\ added'[n] \in {added[n], added[n] + 1}
         /\ connections'[n] # None => SameConnection(n) \/ NewlyAdded(n)
<1>1. /\ added \in [Names -> Nat] /\ now \in Nat
      /\ connections[n] \in Connections \cup {None}
      /\ connections \in [Names -> Connections \cup {None}]
  BY DEF Types, TypeOK, Stores
<1>2. ASSUME NEW c \in Callers, add_connection(c)
      PROVE  /\ added'[n] \in {added[n], added[n] + 1}
             /\ connections'[n] # None => SameConnection(n) \/ NewlyAdded(n)
  <2>1. PICK req \in AddRequests, at \in Nat :
          LET m == req.name
              con == NewConnection(req, <<m, added[m] + 1>>, at)
          IN /\ m \in Names /\ connections[m] = None
             /\ connections' = [connections EXCEPT ![m] = con]
             /\ added' = [added EXCEPT ![m] = @ + 1]
    BY <1>2, Addition
  <2> QED
    BY <1>1, <2>1 DEF SameConnection, NewlyAdded, NewConnection
<1>3. ASSUME ~ \E c \in Callers : add_connection(c)
      PROVE  /\ added'[n] = added[n]
             /\ connections'[n] # None => SameConnection(n)
  <2>1. added' = added
    BY <1>3, NotAdded
  <2>2. ConnectionChange(n)
    BY ConnectionChanges
  <2> QED
    BY <1>1, <2>1, <2>2, SecretsKept
    DEF ConnectionChange, QuietChange, SameConnection
<1> QED
  BY <1>1, <1>2, <1>3

(* Only handlers, crashes and orphaned payments change the handlers' state, *)
(* the payments and what clients are told.                                 *)
HandlerMoves == \E h \in Handlers : HandleEvent(h) \/ HandlerStep(h)
OrphanMoves == \E i \in Invoices : OrphanSettles(i)

LEMMA Elsewhere ==
  ASSUME [Next]_vars, ~ HandlerMoves, ~ OrphanMoves, ~ Crash
  PROVE  UNCHANGED <<pc, job, res, sdk, acked, crashes>>
  BY DEF Next, vars, storeVars, hostVars, loopVars, handlerVars, seenVars,
         HandlerMoves, OrphanMoves, add_connection, edit_connection,
         remove_connection, Tick, HostStep, ForgetPaidInvoices,
         trigger_resubscription, LoopStep, ArmTimer, fetch_active_connections,
         Resubscribe, on_interval, NotifyRefreshed

LEMMA ActiveChange ==
  ASSUME [Next]_vars
  PROVE  \/ active' = active
         \/ active' = connections
         \/ active' = [n \in Names |-> None]
  BY DEF Next, vars, loopVars, add_connection, edit_connection,
         remove_connection, Tick, HostStep, ForgetPaidInvoices,
         trigger_resubscription, LoopStep, ArmTimer, fetch_active_connections,
         Resubscribe, on_interval, NotifyRefreshed, HandleEvent, HandlerStep,
         Charge, compute_result, CallPayInvoice, PaymentSettles,
         add_nwc_paid_invoice, Refund,
         Reply, Crash, OrphanSettles

(* A handler keeps its request until it replies.                           *)
SameJob(h) ==
  /\ job'[h].secret = job[h].secret
  /\ job'[h].name = job[h].name
  /\ job'[h].req = job[h].req
  /\ pc[h] # "verdict" => job'[h].charged = job[h].charged

LEMMA JobKept ==
  ASSUME Types, NEW h \in Handlers, HandlerStep(h)
  PROVE  /\ pc[h] # "idle" /\ job[h] \in Jobs
         /\ pc'[h] # "idle" => SameJob(h)
         /\ \A g \in Handlers \ {h} :
              pc'[g] = pc[g] /\ job'[g] = job[g] /\ res'[g] = res[g]
<1>1. pc[h] # "idle" /\ job[h] \in Jobs
  BY DEF HandlerStep, Charge, compute_result, CallPayInvoice, PaymentSettles,
         add_nwc_paid_invoice, Refund, Reply, Types, HandlersOK
<1>2. CASE Charge(h)
  BY <1>1, <1>2 DEF Charge, Answer, Types, TypeOK, Jobs, SameJob
<1>3. CASE Reply(h)
  BY <1>1, <1>3 DEF Reply, Types, TypeOK
<1>4. CASE CallPayInvoice(h) \/ PaymentSettles(h)
  BY <1>1, <1>4
  DEF CallPayInvoice, PaymentSettles, PaymentError, Types, TypeOK, SameJob
<1>5. CASE add_nwc_paid_invoice(h) \/ Refund(h)
  BY <1>1, <1>5
  DEF add_nwc_paid_invoice, Refund, Answer, Types, TypeOK, SameJob
<1>6. CASE compute_result(h)
  BY <1>1, <1>6 DEF compute_result, Answer, Types, TypeOK, Jobs, SameJob
<1> QED
  BY <1>1, <1>2, <1>3, <1>4, <1>5, <1>6 DEF HandlerStep

(* What a request that arrives makes of an idle handler.                   *)
LEMMA Arrival ==
  ASSUME Types, NEW h \in Handlers, HandleEvent(h)
  PROVE  /\ pc[h] = "idle" /\ pc'[h] = "verdict"
         /\ \E n \in Names, req \in Requests :
              /\ active[n] # None /\ active[n] \in Connections
              /\ job'[h] = [secret |-> active[n].secret, req |-> req,
                            name |-> n, client |-> active[n],
                            charged |-> FALSE, period |-> None]
         /\ \A g \in Handlers \ {h} :
              pc'[g] = pc[g] /\ job'[g] = job[g] /\ res'[g] = res[g]
         /\ UNCHANGED <<connections, paid_invoices, added, host, removing, chan,
                        loop, active, sdk, acked, faults, crashes>>
<1>1. PICK n \in Names, req \in Requests :
        /\ active[n] # None
        /\ job' = [job EXCEPT ![h] =
                     [secret |-> active[n].secret, req |-> req, name |-> n,
                      client |-> active[n], charged |-> FALSE,
                      period |-> None]]
  BY DEF HandleEvent
<1>2. active[n] \in Connections
  BY <1>1 DEF Types, TypeOK, Stores
<1>3. /\ job'[h] = [secret |-> active[n].secret, req |-> req, name |-> n,
                    client |-> active[n], charged |-> FALSE, period |-> None]
      /\ \A g \in Handlers \ {h} : job'[g] = job[g]
  BY <1>1 DEF Types, TypeOK
<1>4. /\ pc[h] = "idle" /\ pc'[h] = "verdict"
      /\ \A g \in Handlers \ {h} : pc'[g] = pc[g] /\ res'[g] = res[g]
  BY DEF HandleEvent, Types, TypeOK
<1>5. UNCHANGED <<connections, paid_invoices, added, host, removing, chan,
                  loop, active, sdk, acked, faults, crashes>>
  BY DEF HandleEvent, storeVars, hostVars, loopVars
<1> QED
  BY <1>1, <1>2, <1>3, <1>4, <1>5

(* What the verdict on its request makes of a handler.                     *)
LEMMA Decision ==
  ASSUME Types, NEW h \in Handlers, compute_result(h)
  PROVE  /\ pc[h] = "verdict" /\ pc'[h] \in {"charge", "pay", "reply"}
         /\ pc'[h] = "charge" => /\ job'[h].charged
                                /\ Verdict(job[h].client, job[h].req) = "Charge"
         /\ pc'[h] = "pay" => /\ ~ job'[h].charged
                             /\ Verdict(job[h].client, job[h].req) = "Pay"
         /\ pc'[h] = "reply" /\ res'[h] = "Ok" =>
              Verdict(job[h].client, job[h].req) = "Serve"
         /\ UNCHANGED <<connections, paid_invoices, added, host, removing, chan,
                        loop, active, sdk, acked, outdated, faults, crashes>>
<1> DEFINE verdict == Verdict(job[h].client, job[h].req)
<1>1. pc[h] = "verdict" /\ job[h] \in Jobs
  BY DEF compute_result, Types, HandlersOK
<1>2. /\ pc'[h] \in {"charge", "pay", "reply"}
      /\ pc'[h] = "charge" => verdict = "Charge"
      /\ pc'[h] = "pay" => verdict = "Pay"
      /\ pc'[h] = "reply" /\ res'[h] = "Ok" => verdict = "Serve"
  BY <1>1 DEF compute_result, Answer, Types, TypeOK
<1>3. job'[h].charged = (verdict = "Charge")
  BY <1>1 DEF compute_result, Types, TypeOK, Jobs
<1>4. UNCHANGED <<connections, paid_invoices, added, host, removing, chan,
                  loop, active, sdk, acked, outdated, faults, crashes>>
  BY DEF compute_result, storeVars, hostVars, loopVars, seenVars
<1> HIDE DEF verdict
<1>5. /\ pc'[h] = "charge" => job'[h].charged
      /\ pc'[h] = "pay" => ~ job'[h].charged
  <2>1. ASSUME pc'[h] = "charge" PROVE job'[h].charged
    BY <1>2, <1>3, <2>1, Zenon
  <2>2. ASSUME pc'[h] = "pay" PROVE ~ job'[h].charged
    <3>1. verdict # "Charge"
      BY <1>2, <2>2
    <3> QED
      BY <1>3, <3>1, Zenon
  <2> QED
    BY <2>1, <2>2
<1> QED
  BY <1>1, <1>2, <1>4, <1>5 DEF verdict

(* Payments are begun by handlers, for the connection of their job.        *)
LEMMA PayerKnown ==
  ASSUME Types, [Next]_vars, NEW i \in Invoices, sdk'[i].by # None
  PROVE  \/ sdk'[i].by = sdk[i].by
         \/ \E h \in Handlers : pc[h] # "idle" /\ sdk'[i].by = job[h].secret
<1>1. sdk \in [Invoices -> Payments]
  BY DEF Types, TypeOK
<1>2. ASSUME NEW h \in Handlers, HandlerStep(h)
      PROVE  \/ sdk'[i].by = sdk[i].by
             \/ pc[h] # "idle" /\ sdk'[i].by = job[h].secret
  <2>1. CASE CallPayInvoice(h)
    BY <1>1, <2>1 DEF CallPayInvoice
  <2>2. CASE PaymentSettles(h)
    BY <1>1, <2>2 DEF PaymentSettles, NotPaid, Payments
  <2>3. CASE ~ CallPayInvoice(h) /\ ~ PaymentSettles(h)
    BY <1>2, <2>3 DEF HandlerStep, compute_result, Charge, add_nwc_paid_invoice,
            Refund, Reply
  <2> QED
    BY <2>1, <2>2, <2>3
<1>3. ASSUME NEW j \in Invoices, OrphanSettles(j)
      PROVE  sdk'[i].by = sdk[i].by
  BY <1>1, <1>3 DEF OrphanSettles, NotPaid, Payments
<1>4. ASSUME NEW h \in Handlers, HandleEvent(h) PROVE sdk' = sdk
  BY <1>4 DEF HandleEvent
<1>5. CASE Crash
  BY <1>5 DEF Crash
<1> QED
  BY <1>2, <1>3, <1>4, <1>5, Elsewhere DEF HandlerMoves, OrphanMoves

LEMMA ToldBy ==
  ASSUME Types, [Next]_vars, NEW a \in acked'
  PROVE  \/ a \in acked
         \/ \E h \in Handlers :
              /\ pc[h] = "reply" /\ res[h] = "Ok"
              /\ job[h].req.method = "pay_invoice"
              /\ a = [to |-> job[h].secret, invoice |-> job[h].req.invoice]
              /\ UNCHANGED <<connections, paid_invoices, added, sdk>>
<1>1. ASSUME NEW h \in Handlers, HandlerStep(h), ~ Reply(h)
      PROVE  acked' = acked
  BY <1>1 DEF HandlerStep, Charge, compute_result, CallPayInvoice,
  PaymentSettles,
              add_nwc_paid_invoice, Refund, seenVars
<1>2. ASSUME NEW h \in Handlers, Reply(h)
      PROVE  \/ a \in acked
             \/ /\ pc[h] = "reply" /\ res[h] = "Ok"
                /\ job[h].req.method = "pay_invoice"
                /\ a = [to |-> job[h].secret, invoice |-> job[h].req.invoice]
                /\ UNCHANGED <<connections, paid_invoices, added, sdk>>
  BY <1>2 DEF Reply, Acknowledged, seenVars, storeVars
<1>3. CASE Crash \/ OrphanMoves \/ \E h \in Handlers : HandleEvent(h)
  BY <1>3 DEF Crash, OrphanMoves, OrphanSettles, HandleEvent, seenVars
<1> QED
  BY <1>1, <1>2, <1>3, Elsewhere DEF HandlerMoves

LEMMA IdentityStep ==
  ASSUME Types, IdentityInv, [Next]_vars PROVE IdentityInv'
<1>1. Types'
  BY NextTypes
<1>2. /\ added \in [Names -> Nat] /\ added' \in [Names -> Nat]
      /\ connections \in Stores /\ active \in Stores
  BY <1>1 DEF Types, TypeOK
<1>3. \A n \in Names : connections'[n] # None =>
        connections'[n].secret = <<n, added'[n]>> /\ added'[n] >= 1
  BY <1>2, SecretChange DEF IdentityInv, SameConnection, NewlyAdded
<1>4. ASSUME NEW s \in Secrets, s[2] \in 1 .. added[s[1]]
      PROVE  s[2] \in 1 .. added'[s[1]]
  <2>1. s[1] \in Names /\ s[2] \in Nat
    BY DEF Secrets
  <2>2. added'[s[1]] >= added[s[1]]
    BY <1>2, <2>1, SecretChange
  <2> QED
    BY <1>2, <1>4, <2>1, <2>2
<1>5. ASSUME NEW n \in Names, active'[n] # None
      PROVE  /\ active'[n].secret[1] = n
             /\ active'[n].secret[2] \in 1 .. added'[active'[n].secret[1]]
  <2>1. CASE active' = active
    <3>1. active[n].secret \in Secrets
      BY <1>2, <1>5, <2>1 DEF Stores, Connections
    <3>2. Issued(active[n].secret)
      BY <1>5, <2>1 DEF IdentityInv
    <3> QED
      BY <1>4, <1>5, <2>1, <3>1, <3>2 DEF IdentityInv, Issued
  <2>2. CASE active' = connections
    <3>1. /\ connections[n].secret = <<n, added[n]>> /\ added[n] \in Nat
          /\ added[n] >= 1
      BY <1>2, <1>5, <2>2 DEF IdentityInv
    <3>2. <<n, added[n]>> \in Secrets /\ added[n] \in 1 .. added[n]
      BY <3>1 DEF Secrets
    <3> QED
      BY <1>4, <2>2, <3>1, <3>2
  <2> QED
    BY <1>5, <2>1, <2>2, ActiveChange
<1>6. ASSUME NEW h \in Handlers, pc'[h] # "idle"
      PROVE  /\ job'[h].secret[1] = job'[h].name
             /\ job'[h].secret[2] \in 1 .. added'[job'[h].secret[1]]
  <2>1. CASE pc[h] # "idle" /\ SameJob(h)
    <3>1. job[h].secret \in Secrets
      BY <2>1 DEF Types, HandlersOK, Jobs
    <3> QED
      BY <1>4, <2>1, <3>1 DEF IdentityInv, SameJob, Issued
  <2>2. CASE pc[h] # "idle" /\ job'[h] = job[h]
    BY <2>1, <2>2 DEF SameJob
  <2>3. CASE HandleEvent(h)
    <3>1. PICK n \in Names, req \in Requests :
            /\ active[n] # None /\ active[n] \in Connections
            /\ job'[h] = [secret |-> active[n].secret, req |-> req,
                          name |-> n, client |-> active[n],
                          charged |-> FALSE, period |-> None]
      BY <2>3, Arrival
    <3>2. active[n].secret \in Secrets
      BY <3>1 DEF Connections
    <3>3. active[n].secret[1] = n
      BY <3>1 DEF IdentityInv
    <3>4. active[n].secret[2] \in 1 .. added[active[n].secret[1]]
      BY <3>1 DEF IdentityInv, Issued
    <3> QED
      BY <1>4, <3>1, <3>2, <3>3, <3>4
  <2>4. CASE HandlerStep(h)
    BY <1>6, <2>1, <2>4, JobKept
  <2>5. ASSUME NEW g \in Handlers \ {h}, HandleEvent(g) \/ HandlerStep(g)
        PROVE  pc'[h] = pc[h] /\ job'[h] = job[h]
    BY <2>5, Arrival, JobKept
  <2>6. CASE OrphanMoves
    BY <1>6, <2>2, <2>6 DEF OrphanMoves, OrphanSettles, handlerVars
  <2>7. ~ Crash
    BY <1>6 DEF Crash
  <2> QED
    BY <1>6, <2>2, <2>3, <2>4, <2>5, <2>6, <2>7, Elsewhere DEF HandlerMoves
<1>7. ASSUME NEW i \in Invoices, sdk'[i].by # None 
      PROVE  sdk'[i].by[2] \in 1 .. added'[sdk'[i].by[1]]
  <2>1. sdk[i].by \in Secrets \cup {None}
    BY DEF Types, TypeOK, Payments
  <2>2. \A h \in Handlers : pc[h] # "idle" => job[h].secret \in Secrets
    BY DEF Types, HandlersOK, Jobs
  <2> QED
    BY <1>4, <1>7, <2>1, <2>2, PayerKnown DEF IdentityInv, Issued
<1>8. ASSUME NEW a \in acked'
      PROVE  a.to[2] \in 1 .. added'[a.to[1]]
  <2>1. a \in acked => a.to \in Secrets
    BY DEF Types, TypeOK
  <2>2. \A h \in Handlers : pc[h] # "idle" => job[h].secret \in Secrets
    BY DEF Types, HandlersOK, Jobs
  <2> QED
    BY <1>4, <2>1, <2>2, ToldBy DEF IdentityInv, Issued
<1> QED
  BY <1>3, <1>5, <1>6, <1>7, <1>8 DEF IdentityInv, Issued

-----------------------------------------------------------------------------
(* The payments of the SDK and the handlers that wait for them.            *)
LEMMA PaymentStep ==
  ASSUME Types, PaymentInv, [Next]_vars PROVE PaymentInv'
<1> DEFINE Inv(h) == job[h].req.invoice
<1>1. /\ sdk \in [Invoices -> Payments]
      /\ pc \in [Handlers -> {"idle", "verdict", "charge", "pay", "paying",
                              "record", "refund", "reply"}]
      /\ \A h \in Handlers : pc[h] # "idle" =>
           job[h] \in Jobs /\ Inv(h) \in Invoices
  BY WalletAssumption DEF Types, TypeOK, HandlersOK, Jobs
<1>2. CASE UNCHANGED <<pc, job, res, sdk>>
  BY <1>2 DEF PaymentInv, Pays
<1>3. ASSUME NEW h \in Handlers, HandleEvent(h) PROVE PaymentInv'
  <2>1. pc[h] = "idle" /\ pc'[h] = "verdict"
    BY <1>3, Arrival
  <2>2. /\ sdk' = sdk
        /\ \A g \in Handlers \ {h} : pc'[g] = pc[g] /\ job'[g] = job[g]
    BY <1>3, Arrival
  <2> QED
    BY <2>1, <2>2 DEF PaymentInv, Pays
<1>4. ASSUME NEW h \in Handlers, HandlerStep(h) PROVE PaymentInv'
  <2>1. /\ pc[h] # "idle" /\ job[h] \in Jobs /\ Inv(h) \in Invoices
        /\ pc'[h] # "idle" => SameJob(h)
        /\ \A g \in Handlers \ {h} : pc'[g] = pc[g] /\ job'[g] = job[g]
    BY <1>1, <1>4, JobKept
  <2>2. CASE \/ Charge(h) \/ add_nwc_paid_invoice(h) \/ Refund(h) \/ Reply(h)
    <3>1. sdk' = sdk /\ pc'[h] \notin {"charge", "refund", "paying"}
      BY <1>1, <2>2 DEF Charge, add_nwc_paid_invoice, Refund, Reply, Answer
    <3> QED
      BY <2>1, <3>1 DEF PaymentInv, Pays
  <2>3. CASE CallPayInvoice(h)
    <3>1. job' = job
      BY <2>3 DEF CallPayInvoice
    <3>2. CASE /\ sdk[Inv(h)].state = "none"
               /\ sdk' = [sdk EXCEPT ![Inv(h)] =
                            [state |-> "inflight", by |-> job[h].secret,
                             charged |-> job[h].charged,
                             sat |-> AmountSat(job[h].req),
                             period |-> job[h].period]]
               /\ pc' = [pc EXCEPT ![h] = "paying"]
      <4>1. \A g \in Handlers : pc[g] = "paying" => Inv(g) # Inv(h)
        <5> SUFFICES ASSUME NEW g \in Handlers, pc[g] = "paying"
                     PROVE  Inv(g) # Inv(h)
          OBVIOUS
        <5>1. Pays(g)
          BY DEF PaymentInv
        <5>2. sdk[Inv(g)].state = "inflight"
          BY <5>1 DEF Pays
        <5> QED
          BY <3>2, <5>2
      <4>2. /\ pc'[h] = "paying"
            /\ \A g \in Handlers \ {h} : pc'[g] = pc[g]
            /\ sdk'[Inv(h)] = [state |-> "inflight", by |-> job[h].secret,
                              charged |-> job[h].charged,
                              sat |-> AmountSat(job[h].req),
                              period |-> job[h].period]
            /\ \A i \in Invoices \ {Inv(h)} : sdk'[i] = sdk[i]
        BY <1>1, <2>1, <3>2
      <4>3. \A i \in Invoices : sdk'[i].state = "none" => ~ sdk'[i].charged
        BY <4>2 DEF PaymentInv
      <4>4. \A g \in Handlers : pc'[g] = "paying" => Pays(g)'
        BY <1>1, <3>1, <4>1, <4>2 DEF PaymentInv, Pays
      <4> QED
        BY <3>1, <4>1, <4>2, <4>3, <4>4 DEF PaymentInv
    <3>3. CASE sdk' = sdk /\ \E e \in Results : PaymentError(h, e)
      <4>1. /\ pc'[h] \in {"refund", "reply"}
            /\ pc'[h] = "refund" => job[h].charged
            /\ \A g \in Handlers \ {h} : pc'[g] = pc[g]
        BY <1>1, <3>3 DEF PaymentError
      <4> QED
        BY <3>1, <3>3, <4>1 DEF PaymentInv, Pays
    <3> QED
      BY <2>3, <3>2, <3>3 DEF CallPayInvoice, Results
  <2>4. CASE PaymentSettles(h)
    <3>1. job' = job /\ pc[h] = "paying"
      BY <2>4 DEF PaymentSettles
    <3>2. \A g \in Handlers \ {h} : pc[g] = "paying" => Inv(g) # Inv(h)
      BY <3>1 DEF PaymentInv
    <3>3. /\ pc'[h] # "charge" /\ pc'[h] # "paying"
          /\ pc'[h] = "refund" => job[h].charged
      BY <1>1, <2>4 DEF PaymentSettles, PaymentError
    <3>4. /\ \A i \in Invoices \ {Inv(h)} : sdk'[i] = sdk[i]
          /\ sdk'[Inv(h)].state = "none" => ~ sdk'[Inv(h)].charged
      BY <1>1, <2>1, <2>4 DEF PaymentSettles, NotPaid, Payments
    <3> QED
      BY <1>1, <2>1, <3>1, <3>2, <3>3, <3>4 DEF PaymentInv, Pays
  <2>5. CASE compute_result(h)
    BY <2>1, <2>5, Decision DEF PaymentInv, Pays
  <2> QED
    BY <1>4, <2>2, <2>3, <2>4, <2>5 DEF HandlerStep
<1>5. ASSUME NEW i \in Invoices, OrphanSettles(i) PROVE PaymentInv'
  <2>1. /\ UNCHANGED <<pc, job>>
        /\ \A h \in Handlers : pc[h] = "paying" => Inv(h) # i
        /\ \A j \in Invoices \ {i} : sdk'[j] = sdk[j]
        /\ sdk'[i].state = "none" => ~ sdk'[i].charged
    BY <1>1, <1>5 DEF OrphanSettles, handlerVars, NotPaid, Payments
  <2> QED
    BY <1>1, <2>1 DEF PaymentInv, Pays
<1>6. ASSUME Crash PROVE PaymentInv'
  BY <1>6 DEF Crash, PaymentInv
<1> QED
  BY <1>2, <1>3, <1>4, <1>5, <1>6, Elsewhere DEF HandlerMoves, OrphanMoves

LEMMA NoOrphanStep ==
  ASSUME Types, NoOrphan, [Next]_vars PROVE NoOrphan'
<1> SUFFICES ASSUME crashes' = 0, NEW i \in Invoices,
                    sdk'[i].state = "inflight"
             PROVE  \E h \in Handlers :
                      pc'[h] = "paying" /\ job'[h].req.invoice = i
  BY DEF NoOrphan
<1>1. /\ sdk \in [Invoices -> Payments] /\ crashes \in Nat
      /\ pc \in [Handlers -> {"idle", "verdict", "charge", "pay", "paying",
                              "record", "refund", "reply"}]
  BY DEF Types, TypeOK
<1>2. ~ Crash
  BY <1>1 DEF Crash
<1>3. crashes = 0
  BY <1>1, <1>2, Elsewhere
  DEF HandlerMoves, OrphanMoves, HandleEvent, HandlerStep, Charge,
      compute_result, CallPayInvoice, PaymentSettles, add_nwc_paid_invoice,
      Refund, Reply,
      OrphanSettles
<1>4. CASE sdk[i].state # "inflight"
  <2>1. ASSUME NEW h \in Handlers, PaymentSettles(h) PROVE FALSE
    BY <1>1, <1>4, <2>1 DEF PaymentSettles, NotPaid, Payments
  <2>2. ~ OrphanMoves
    BY <1>1, <1>4 DEF OrphanMoves, OrphanSettles, NotPaid, Payments
  <2>3. PICK h \in Handlers : CallPayInvoice(h)
    BY <1>2, <1>4, <2>1, <2>2, Elsewhere
    DEF HandlerMoves, HandleEvent, HandlerStep, compute_result, Charge,
        add_nwc_paid_invoice, Refund, Reply
  <2>4. sdk' # sdk
    BY <1>4
  <2>5. /\ pc' = [pc EXCEPT ![h] = "paying"] /\ job' = job
        /\ sdk' = [sdk EXCEPT ![job[h].req.invoice] =
                      [state |-> "inflight", by |-> job[h].secret,
                       charged |-> job[h].charged,
                       sat |-> AmountSat(job[h].req),
                       period |-> job[h].period]]
    BY <2>3, <2>4 DEF CallPayInvoice
  <2>6. job[h].req.invoice = i
    BY <1>1, <1>4, <2>5
  <2> QED
    BY <1>1, <2>5, <2>6
<1>5. CASE sdk[i].state = "inflight"
  <2>1. PICK h \in Handlers : pc[h] = "paying" /\ job[h].req.invoice = i
    BY <1>3, <1>5 DEF NoOrphan
  <2>2. ASSUME NEW g \in Handlers, HandlerStep(g), g # h
        PROVE  pc'[h] = "paying" /\ job'[h].req.invoice = i
    BY <2>1, <2>2, JobKept
  <2>3. ~ HandlerStep(h)
    <3>1. ~ PaymentSettles(h)
      BY <1>1, <2>1 DEF PaymentSettles, NotPaid, Payments
    <3> QED
      BY <2>1, <3>1
      DEF HandlerStep, Charge, compute_result, CallPayInvoice,
          add_nwc_paid_invoice, Refund,
          Reply
  <2>4. ASSUME NEW g \in Handlers, HandleEvent(g)
        PROVE  pc'[h] = "paying" /\ job'[h].req.invoice = i
    BY <2>1, <2>4, Arrival
  <2>5. CASE OrphanMoves
    BY <2>1, <2>5 DEF OrphanMoves, OrphanSettles, handlerVars
  <2> QED
    BY <1>2, <2>1, <2>2, <2>3, <2>4, <2>5, Elsewhere DEF HandlerMoves
<1> QED
  BY <1>4, <1>5

-----------------------------------------------------------------------------
(* What a step of one handler, or of one payment, does to the sums.        *)
LEMMA ChargedStep ==
  ASSUME Types, Types', NEW s, NEW h \in Handlers,
         \A g \in Handlers \ {h} : pc'[g] = pc[g] /\ job'[g] = job[g]
  PROVE  LET is == h \in LooseCharges(s)
             becomes == h \in LooseCharges(s)'
         IN /\ (is <=> becomes) /\ (is => job'[h].req = job[h].req) =>
                 ChargedFor(s)' = ChargedFor(s)
            /\ ~ is /\ becomes =>
                 ChargedFor(s)' = ChargedFor(s) + AmountSat(job'[h].req)
            /\ is /\ ~ becomes =>
                 ChargedFor(s) = ChargedFor(s)' + AmountSat(job[h].req)
<1>1. \A g \in Handlers \ {h} : g \in LooseCharges(s)' <=> g \in LooseCharges(s)
  BY DEF LooseCharges
<1>2. LooseCharges(s) \subseteq Handlers /\ LooseCharges(s)' \subseteq Handlers
  BY DEF LooseCharges
<1>3. CASE /\ h \in LooseCharges(s) <=> h \in LooseCharges(s)'
           /\ h \in LooseCharges(s) => job'[h].req = job[h].req
  <2>1. LooseCharges(s)' = LooseCharges(s)
    BY <1>1, <1>2, <1>3
  <2>2. ChargedFor(s)' = ChargedFor(s)
    BY <1>2, <1>3, <2>1, ChargedSame
  <2> QED
    BY <1>3, <2>2
<1>4. CASE h \notin LooseCharges(s) /\ h \in LooseCharges(s)'
  <2>1. LooseCharges(s)' = LooseCharges(s) \cup {h}
    BY <1>1, <1>2, <1>4
  <2>2. AmountSat(job'[h].req) \in Nat
    BY <1>4, AmountNat DEF LooseCharges, Types, HandlersOK, Paying, Jobs
  <2>3. ChargedFor(s)' = ChargedFor(s) + AmountSat(job'[h].req)
    BY <1>2, <1>4, <2>1, <2>2, ChargedMore
  <2> QED
    BY <1>4, <2>3
<1>5. CASE h \in LooseCharges(s) /\ h \notin LooseCharges(s)'
  <2>1. LooseCharges(s)' = LooseCharges(s) \ {h}
    BY <1>1, <1>2, <1>5
  <2>2. ChargedFor(s) = ChargedFor(s)' + AmountSat(job[h].req)
    BY <1>2, <1>5, <2>1, ChargedLess
  <2> QED
    BY <1>5, <2>2
<1> QED
  BY <1>3, <1>4, <1>5

LEMMA PaidStep ==
  ASSUME Types, Types', NEW s, NEW i \in Invoices,
         \A j \in Invoices \ {i} : sdk'[j] = sdk[j]
  PROVE  LET is == i \in ChargedPayments(s)
             becomes == i \in ChargedPayments(s)'
         IN /\ (is <=> becomes) /\ sdk'[i].sat = sdk[i].sat =>
                 PaidFor(s)' = PaidFor(s)
            /\ ~ is /\ ~ becomes => PaidFor(s)' = PaidFor(s)
            /\ ~ is /\ becomes => PaidFor(s)' = PaidFor(s) + sdk'[i].sat
            /\ is /\ ~ becomes => PaidFor(s) = PaidFor(s)' + sdk[i].sat
<1>1. \A j \in Invoices \ {i} :
        j \in ChargedPayments(s)' <=> j \in ChargedPayments(s)
  BY DEF ChargedPayments
<1>2. /\ ChargedPayments(s) \subseteq Invoices
      /\ ChargedPayments(s)' \subseteq Invoices
  BY DEF ChargedPayments
<1>3. CASE /\ i \in ChargedPayments(s) <=> i \in ChargedPayments(s)'
           /\ i \in ChargedPayments(s) => sdk'[i].sat = sdk[i].sat
  <2>1. ChargedPayments(s)' = ChargedPayments(s)
    BY <1>1, <1>2, <1>3
  <2>2. \A j \in ChargedPayments(s) : sdk'[j].sat = sdk[j].sat
    BY <1>2, <1>3
  <2>3. PaidFor(s)' = PaidFor(s)
    BY <2>1, <2>2, PaidSame
  <2> QED
    BY <1>3, <2>3
<1>4. CASE i \notin ChargedPayments(s) /\ i \in ChargedPayments(s)'
  <2>1. ChargedPayments(s)' = ChargedPayments(s) \cup {i}
    BY <1>1, <1>2, <1>4
  <2>2. \A j \in ChargedPayments(s) : sdk'[j].sat = sdk[j].sat
    BY <1>2, <1>4
  <2>3. PaidFor(s)' = PaidFor(s) + sdk'[i].sat
    BY <1>4, <2>1, <2>2, PaidMore
  <2> QED
    BY <1>4, <2>3
<1>5. CASE i \in ChargedPayments(s) /\ i \notin ChargedPayments(s)'
  <2>1. ChargedPayments(s)' = ChargedPayments(s) \ {i}
    BY <1>1, <1>2, <1>5
  <2>2. \A j \in ChargedPayments(s) \ {i} : sdk'[j].sat = sdk[j].sat
    BY <1>2
  <2>3. PaidFor(s) = PaidFor(s)' + sdk[i].sat
    BY <1>5, <2>1, <2>2, PaidLess
  <2> QED
    BY <1>5, <2>3
<1> QED
  BY <1>3, <1>4, <1>5

-----------------------------------------------------------------------------
(* What a connection has sent, is sending, and is charged for.             *)
Owed(s) == PaidFor(s) + ChargedFor(s)

LEMMA OwedNat ==
  ASSUME Types, NEW s PROVE PaidFor(s) \in Nat /\ ChargedFor(s) \in Nat
  BY PaidTypes, LooseTypes

LEMMA OwedNatNext ==
  ASSUME NEW s
  PROVE  Types' => (PaidFor(s) \in Nat /\ ChargedFor(s) \in Nat)'
<1>1. Types => PaidFor(s) \in Nat /\ ChargedFor(s) \in Nat
  BY OwedNat
<1> QED
  BY <1>1, PTL

(* Whoever moves it, a charge stays one of its connection until it is      *)
(* refunded.                                                               *)
LEMMA OwedElsewhere ==
  ASSUME UNCHANGED <<pc, job, sdk>>, NEW s PROVE Owed(s)' = Owed(s)
<1>1. PaidFor(s)' = PaidFor(s)
  BY DEF PaidFor, ChargedPayments
<1>2. ChargedFor(s)' = ChargedFor(s)
  BY DEF ChargedFor, LooseCharges
<1> QED
  BY <1>1, <1>2 DEF Owed

LEMMA PaidUnmoved ==
  ASSUME sdk' = sdk, NEW s PROVE PaidFor(s)' = PaidFor(s)
  BY DEF PaidFor, ChargedPayments

LEMMA OwedEvent ==
  ASSUME Types, Types', NEW h \in Handlers,
         HandleEvent(h) \/ compute_result(h), NEW s
  PROVE  Owed(s)' = Owed(s)
<1>1. /\ pc[h] \in {"idle", "verdict"}
      /\ pc'[h] \in {"verdict", "charge", "pay", "reply"}
      /\ pc'[h] = "pay" => ~ job'[h].charged
      /\ sdk' = sdk
  BY Arrival, Decision
<1>2. \A g \in Handlers \ {h} : pc'[g] = pc[g] /\ job'[g] = job[g]
  BY Arrival, JobKept DEF HandlerStep
<1>3. h \notin LooseCharges(s) /\ h \notin LooseCharges(s)'
  BY <1>1 DEF LooseCharges
<1>4. ChargedFor(s)' = ChargedFor(s)
  BY <1>2, <1>3, ChargedStep
<1> QED
  BY <1>1, <1>4, PaidUnmoved DEF Owed

LEMMA OwedRecord ==
  ASSUME Types, Types', NEW h \in Handlers,
         add_nwc_paid_invoice(h) \/ Reply(h), NEW s
  PROVE  Owed(s)' = Owed(s)
<1>1. /\ pc \in [Handlers -> {"idle", "verdict", "charge", "pay", "paying",
                              "record", "refund", "reply"}]
  BY DEF Types, TypeOK
<1>2. /\ sdk' = sdk /\ pc[h] \in {"record", "reply"}
      /\ pc'[h] \in {"reply", "idle"}
  BY <1>1 DEF add_nwc_paid_invoice, Reply, Answer
<1>3. \A g \in Handlers \ {h} : pc'[g] = pc[g] /\ job'[g] = job[g]
  BY JobKept DEF HandlerStep
<1>4. h \notin LooseCharges(s) /\ h \notin LooseCharges(s)'
  BY <1>2 DEF LooseCharges
<1>5. ChargedFor(s)' = ChargedFor(s)
  BY <1>3, <1>4, ChargedStep
<1> QED
  BY <1>2, <1>5, PaidUnmoved DEF Owed

LEMMA OwedCall ==
  ASSUME Types, Types', PaymentInv, NEW h \in Handlers, CallPayInvoice(h),
         NEW s
  PROVE  Owed(s)' = Owed(s)
<1> DEFINE i == job[h].req.invoice
           mine == job[h].charged /\ job[h].secret = s
<1>1. /\ pc \in [Handlers -> {"idle", "verdict", "charge", "pay", "paying",
                              "record", "refund", "reply"}]
      /\ sdk \in [Invoices -> Payments]
      /\ pc[h] = "pay" /\ job' = job /\ job[h] \in Jobs
      /\ job[h].req \in Requests /\ i \in Invoices
  BY WalletAssumption DEF CallPayInvoice, Types, TypeOK, HandlersOK, Jobs
<1>2. \A g \in Handlers \ {h} : pc'[g] = pc[g] /\ job'[g] = job[g]
  BY JobKept DEF HandlerStep
<1>3. h \in LooseCharges(s) <=> mine
  BY <1>1 DEF LooseCharges
<1>4. CASE sdk' = sdk /\ \E e \in Results : PaymentError(h, e)
  <2>1. pc'[h] = IF job[h].charged THEN "refund" ELSE "reply"
    BY <1>1, <1>4 DEF PaymentError
  <2>2. h \in LooseCharges(s)' <=> mine
    BY <1>1, <2>1 DEF LooseCharges
  <2>3. ChargedFor(s)' = ChargedFor(s)
    BY <1>1, <1>2, <1>3, <2>2, ChargedStep
  <2> QED
    BY <1>4, <2>3, PaidUnmoved DEF Owed
<1>5. CASE /\ sdk[i].state = "none"
           /\ sdk' = [sdk EXCEPT ![i] =
                        [state |-> "inflight", by |-> job[h].secret,
                         charged |-> job[h].charged,
                         sat |-> AmountSat(job[h].req),
                         period |-> job[h].period]]
           /\ pc' = [pc EXCEPT ![h] = "paying"]
  <2>1. h \notin LooseCharges(s)'
    BY <1>1, <1>5 DEF LooseCharges
  <2>2. \A j \in Invoices \ {i} : sdk'[j] = sdk[j]
    BY <1>1, <1>5
  <2>3. i \notin ChargedPayments(s)
    BY <1>1, <1>5 DEF PaymentInv, ChargedPayments
  <2>4. /\ i \in ChargedPayments(s)' <=> mine
        /\ sdk'[i].sat = AmountSat(job[h].req)
    BY <1>1, <1>5 DEF ChargedPayments
  <2>5. AmountSat(job[h].req) \in Nat
    BY <1>1, AmountNat DEF Types, HandlersOK, Paying
  <2>6. CASE mine
    <3>1. PaidFor(s)' = PaidFor(s) + AmountSat(job[h].req)
      BY <1>1, <2>2, <2>3, <2>4, <2>6, PaidStep
    <3>2. ChargedFor(s) = ChargedFor(s)' + AmountSat(job[h].req)
      BY <1>2, <1>3, <2>1, <2>6, ChargedStep
    <3>3. /\ PaidFor(s) \in Nat /\ ChargedFor(s) \in Nat
          /\ PaidFor(s)' \in Nat /\ ChargedFor(s)' \in Nat
      BY OwedNat, OwedNatNext
    <3> QED
      BY <2>5, <3>1, <3>2, <3>3 DEF Owed
  <2>7. CASE ~ mine
    <3>1. PaidFor(s)' = PaidFor(s)
      BY <1>1, <2>2, <2>3, <2>4, <2>7, PaidStep
    <3>2. ChargedFor(s) = ChargedFor(s)'
      BY <1>2, <1>3, <2>1, <2>7, ChargedStep
    <3> QED
      BY <3>1, <3>2 DEF Owed
  <2> QED
    BY <2>6, <2>7
<1> QED
  BY <1>4, <1>5 DEF CallPayInvoice, Results

LEMMA OwedSettles ==
  ASSUME Types, Types', PaymentInv, NEW h \in Handlers, PaymentSettles(h),
         NEW s
  PROVE  Owed(s)' = Owed(s)
<1> DEFINE i == job[h].req.invoice
           mine == job[h].charged /\ job[h].secret = s
<1>1. /\ pc \in [Handlers -> {"idle", "verdict", "charge", "pay", "paying",
                              "record", "refund", "reply"}]
      /\ sdk \in [Invoices -> Payments]
      /\ pc[h] = "paying" /\ job' = job /\ job[h] \in Jobs
      /\ job[h].req \in Requests /\ i \in Invoices
  BY WalletAssumption DEF PaymentSettles, Types, TypeOK, HandlersOK, Jobs
<1>2. \A g \in Handlers \ {h} : pc'[g] = pc[g] /\ job'[g] = job[g]
  BY JobKept DEF HandlerStep
<1>3. /\ sdk[i].by = job[h].secret /\ sdk[i].charged = job[h].charged
      /\ sdk[i].sat = AmountSat(job[h].req)
  <2>1. Pays(h)
    BY <1>1 DEF PaymentInv
  <2> QED
    BY <2>1 DEF Pays
<1>4. h \notin LooseCharges(s) /\ (i \in ChargedPayments(s) <=> mine)
  BY <1>1, <1>3 DEF LooseCharges, ChargedPayments
<1>5. CASE sdk' = [sdk EXCEPT ![i].state = "paid"]
           /\ pc' = [pc EXCEPT ![h] = "record"]
  <2>1. h \notin LooseCharges(s)'
    BY <1>1, <1>5 DEF LooseCharges
  <2>2. /\ \A j \in Invoices \ {i} : sdk'[j] = sdk[j]
        /\ sdk'[i].by = sdk[i].by /\ sdk'[i].charged = sdk[i].charged
        /\ sdk'[i].sat = sdk[i].sat
    BY <1>1, <1>5 DEF Payments
  <2>3. i \in ChargedPayments(s)' <=> i \in ChargedPayments(s)
    BY <2>2 DEF ChargedPayments
  <2>4. PaidFor(s)' = PaidFor(s)
    BY <1>1, <2>2, <2>3, PaidStep
  <2>5. ChargedFor(s)' = ChargedFor(s)
    BY <1>2, <1>4, <2>1, ChargedStep
  <2> QED
    BY <2>4, <2>5 DEF Owed
<1>6. CASE sdk' = [sdk EXCEPT ![i] = NotPaid] /\ PaymentError(h, "Generic")
  <2>1. pc'[h] = IF job[h].charged THEN "refund" ELSE "reply"
    BY <1>1, <1>6 DEF PaymentError
  <2>2. h \in LooseCharges(s)' <=> mine
    BY <1>1, <2>1 DEF LooseCharges
  <2>3. \A j \in Invoices \ {i} : sdk'[j] = sdk[j]
    BY <1>1, <1>6
  <2>4. i \notin ChargedPayments(s)'
    BY <1>1, <1>6 DEF ChargedPayments, NotPaid
  <2>5. AmountSat(job[h].req) \in Nat
    BY <1>1, AmountNat DEF Types, HandlersOK, Paying
  <2>6. CASE mine
    <3>1. PaidFor(s) = PaidFor(s)' + AmountSat(job[h].req)
      BY <1>1, <1>3, <1>4, <2>3, <2>4, <2>6, PaidStep
    <3>2. ChargedFor(s)' = ChargedFor(s) + AmountSat(job[h].req)
      BY <1>1, <1>2, <1>4, <2>2, <2>6, ChargedStep
    <3>3. /\ PaidFor(s) \in Nat /\ ChargedFor(s) \in Nat
          /\ PaidFor(s)' \in Nat /\ ChargedFor(s)' \in Nat
      BY OwedNat, OwedNatNext
    <3> QED
      BY <2>5, <3>1, <3>2, <3>3 DEF Owed
  <2>7. CASE ~ mine
    <3>1. PaidFor(s)' = PaidFor(s)
      BY <1>1, <1>4, <2>3, <2>4, <2>7, PaidStep
    <3>2. ChargedFor(s)' = ChargedFor(s)
      BY <1>2, <1>4, <2>2, <2>7, ChargedStep
    <3> QED
      BY <3>1, <3>2 DEF Owed
  <2> QED
    BY <2>6, <2>7
<1> QED
  BY <1>5, <1>6 DEF PaymentSettles

-----------------------------------------------------------------------------
(* Only charges and refunds move what a connection has paid.               *)
LEMMA PaidKept ==
  ASSUME Types, [Next]_vars, NEW n \in Names, SameConnection(n),
         connections'[n] # None,
         \A h \in Handlers : ~ Charge(h) /\ ~ Refund(h)
  PROVE  connections'[n].paid_amount_sat = connections[n].paid_amount_sat
<1>1. /\ connections[n] \in Connections /\ added[n] \in Nat /\ now \in Nat
      /\ connections \in [Names -> Connections \cup {None}]
      /\ added \in [Names -> Nat]
  BY DEF Types, TypeOK, Stores, SameConnection
<1>2. ASSUME NEW c \in Callers, add_connection(c)
      PROVE  connections'[n] = connections[n]
  <2>1. PICK req \in AddRequests, at \in Nat :
          LET m == req.name
              con == NewConnection(req, <<m, added[m] + 1>>, at)
          IN /\ m \in Names /\ connections[m] = None
             /\ connections' = [connections EXCEPT ![m] = con]
             /\ added' = [added EXCEPT ![m] = @ + 1]
    BY <1>2, Addition
  <2> QED
    BY <1>1, <2>1 DEF SameConnection
<1>3. ASSUME NEW c \in Callers, edit_connection(c)
      PROVE  connections'[n].paid_amount_sat = connections[n].paid_amount_sat
  <2>1. PICK req \in EditRequests :
          LET out == edit_nwc_connection(connections, req, now)
          IN out.changed /\ connections' = out.data
    BY <1>3 DEF edit_connection
  <2>2. connections' = [connections EXCEPT ![req.name] = Edited(@, req, now)]
    BY <2>1 DEF edit_nwc_connection, Rejected, Changed, Unchanged
  <2>3. Edited(connections[n], req, now).paid_amount_sat
          = connections[n].paid_amount_sat
    BY <1>1 DEF Edited, Connections
  <2> QED
    BY <1>1, <2>2, <2>3
<1>4. ASSUME NEW c \in Callers, remove_connection(c)
      PROVE  connections'[n] = connections[n]
  BY <1>1, <1>4
  DEF remove_connection, remove_nwc_connection, Rejected, Changed, Unchanged
<1>5. CASE on_interval
  <2>1. \/ connections'[n] = connections[n]
        \/ /\ connections[n].periodic_budget # None
           /\ connections'[n] = Renewed(connections[n], now)
    BY <1>1, <1>5, RefreshEach DEF on_interval, Stores
  <2>2. Renewed(connections[n], now).paid_amount_sat
          = connections[n].paid_amount_sat
    BY <1>1 DEF Renewed, Connections
  <2> QED
    BY <2>1, <2>2
<1> QED
  BY <1>2, <1>3, <1>4, <1>5, Writers DEF Adding, Removing

(* The first connection of a name is the one its secret says.              *)
LEMMA FirstOfName ==
  ASSUME Types, IdentityInv, NEW n \in Names, connections[n] # None,
         added[n] = 1, NEW h \in Handlers, pc[h] # "idle"
  PROVE  job[h].secret = connections[n].secret <=> job[h].name = n
<1>1. job[h].secret \in Secrets /\ job[h].name \in Names
  BY DEF Types, HandlersOK, Jobs
<1>2. /\ connections[n].secret = <<n, 1>>
      /\ job[h].secret[1] = job[h].name
      /\ job[h].secret[2] \in 1 .. added[job[h].secret[1]]
  BY DEF IdentityInv, Issued
<1>3. job[h].name = n => job[h].secret[2] = 1
  BY <1>2
<1>4. job[h].secret = <<job[h].secret[1], job[h].secret[2]>>
  BY <1>1 DEF Secrets
<1> QED
  BY <1>2, <1>3, <1>4

(* Nothing is owed for a connection that has not been added yet.           *)
LEMMA NothingOwed ==
  ASSUME Types, IdentityInv, PaymentInv, NEW s \in Secrets, ~ Issued(s)
  PROVE  PaidFor(s) = 0 /\ ChargedFor(s) = 0
<1>1. s # None
  BY NoneAssumption
<1>2. ChargedPayments(s) = {}
  BY <1>1 DEF IdentityInv, ChargedPayments
<1>3. LooseCharges(s) = {}
  BY DEF IdentityInv, LooseCharges
<1> QED
  BY <1>2, <1>3, TotalEmpty DEF PaidFor, ChargedFor

(* What a charge and a refund do to the connection they name.              *)
LEMMA ChargePaid ==
  ASSUME Types, NEW h \in Handlers, Charge(h), NEW n \in Names,
         connections[n] # None
  PROVE  LET sat == AmountSat(job[h].req)
             paid == connections[n].paid_amount_sat
         IN \/ /\ pc'[h] = "pay"
               /\ job[h].name = n => connections'[n].paid_amount_sat
                                       = SaturatingAddSigned(paid, sat)
               /\ job[h].name # n => connections'[n].paid_amount_sat = paid
            \/ /\ pc'[h] = "reply"
               /\ connections'[n].paid_amount_sat = paid
<1>1. /\ connections \in [Names -> Connections \cup {None}]
      /\ connections[n] \in Connections
      /\ pc \in [Handlers -> {"idle", "verdict", "charge", "pay", "paying",
                              "record", "refund", "reply"}]
  BY DEF Types, TypeOK, Stores
<1>2. \A delta \in Int : Spend(connections[n], delta).paid_amount_sat
                           = SaturatingAddSigned(connections[n].paid_amount_sat,
                                                 delta)
  BY <1>1 DEF Spend, Connections
<1>3. AmountSat(job[h].req) \in Int
  BY AmountNat DEF Charge, Types, HandlersOK, Paying, Jobs
<1> QED
  BY <1>1, <1>2, <1>3
  DEF Charge, Answer, update_budget, Rejected, Changed, Unchanged

LEMMA RefundPaid ==
  ASSUME Types, NEW h \in Handlers, Refund(h), NEW n \in Names,
         connections[n] # None
  PROVE  LET sat == AmountSat(job[h].req)
             paid == connections[n].paid_amount_sat
         IN \/ /\ job[h].name = n => connections'[n].paid_amount_sat
                                       = SaturatingAddSigned(paid, -sat)
               /\ job[h].name # n => connections'[n].paid_amount_sat = paid
            \/ /\ job[h].name = n => faults' # 0
               /\ connections'[n].paid_amount_sat = paid
<1>1. /\ connections \in [Names -> Connections \cup {None}]
      /\ connections[n] \in Connections /\ faults \in Nat
  BY DEF Types, TypeOK, Stores
<1>2. \A delta \in Int : Spend(connections[n], delta).paid_amount_sat
                           = SaturatingAddSigned(connections[n].paid_amount_sat,
                                                 delta)
  BY <1>1 DEF Spend, Connections
<1>3. -AmountSat(job[h].req) \in Int
  BY AmountNat DEF Refund, Types, HandlersOK, Paying, Jobs
<1> QED
  BY <1>1, <1>2, <1>3
  DEF Refund, Answer, Fault, update_budget, Rejected, Changed, Unchanged

(* Crashes are only added.                                                 *)
LEMMA CrashFree ==
  ASSUME Types, [Next]_vars, crashes' = 0 PROVE crashes = 0 /\ ~ Crash
<1>1. crashes \in Nat
  BY DEF Types, TypeOK
<1>2. ~ Crash
  BY <1>1 DEF Crash
<1> QED
  BY <1>1, <1>2, Elsewhere
  DEF HandlerMoves, OrphanMoves, HandleEvent, HandlerStep, Charge,
      compute_result, CallPayInvoice, PaymentSettles, add_nwc_paid_invoice,
      Refund, Reply,
      OrphanSettles

-----------------------------------------------------------------------------
(* What a charge, a refund, an orphaned payment and a crash do to what is  *)
(* owed.                                                                   *)
LEMMA OwedCharge ==
  ASSUME Types, Types', PaymentInv, NEW h \in Handlers, Charge(h), NEW s
  PROVE  /\ pc'[h] = "pay" /\ job[h].secret = s =>
              Owed(s)' = Owed(s) + AmountSat(job[h].req)
         /\ ~ (pc'[h] = "pay" /\ job[h].secret = s) => Owed(s)' = Owed(s)
<1>1. /\ sdk' = sdk /\ pc[h] = "charge" /\ job[h].charged
      /\ pc'[h] \in {"pay", "reply"}
  BY DEF PaymentInv, Charge, Answer, Types, TypeOK
<1>2. /\ \A g \in Handlers \ {h} : pc'[g] = pc[g] /\ job'[g] = job[g]
      /\ SameJob(h)
  BY <1>1, JobKept DEF HandlerStep
<1>3. /\ h \notin LooseCharges(s)
      /\ h \in LooseCharges(s)' <=> pc'[h] = "pay" /\ job[h].secret = s
      /\ job'[h].req = job[h].req
  BY <1>1, <1>2 DEF LooseCharges, SameJob
<1>4. PaidFor(s)' = PaidFor(s)
  BY <1>1, PaidUnmoved
<1>5. AmountSat(job[h].req) \in Nat
  BY <1>1, AmountNat DEF Types, HandlersOK, Paying, Jobs
<1>6. PaidFor(s) \in Nat /\ ChargedFor(s) \in Nat
  BY OwedNat
<1>7. CASE pc'[h] = "pay" /\ job[h].secret = s
  <2>1. ChargedFor(s)' = ChargedFor(s) + AmountSat(job[h].req)
    BY <1>2, <1>3, <1>7, ChargedStep
  <2> QED
    BY <1>4, <1>5, <1>6, <1>7, <2>1 DEF Owed
<1>8. CASE ~ (pc'[h] = "pay" /\ job[h].secret = s)
  <2>1. ChargedFor(s)' = ChargedFor(s)
    BY <1>2, <1>3, <1>8, ChargedStep
  <2> QED
    BY <1>4, <1>8, <2>1 DEF Owed
<1> QED
  BY <1>7, <1>8

LEMMA OwedRefund ==
  ASSUME Types, Types', PaymentInv, NEW h \in Handlers, Refund(h), NEW s
  PROVE  /\ job[h].secret = s => Owed(s) = Owed(s)' + AmountSat(job[h].req)
         /\ job[h].secret # s => Owed(s)' = Owed(s)
<1>1. /\ sdk' = sdk /\ pc[h] = "refund" /\ job[h].charged
      /\ pc'[h] = "reply"
  BY DEF PaymentInv, Refund, Answer, Types, TypeOK
<1>2. \A g \in Handlers \ {h} : pc'[g] = pc[g] /\ job'[g] = job[g]
  BY JobKept DEF HandlerStep
<1>3. /\ h \notin LooseCharges(s)'
      /\ h \in LooseCharges(s) <=> job[h].secret = s
  BY <1>1 DEF LooseCharges
<1>4. PaidFor(s)' = PaidFor(s)
  BY <1>1, PaidUnmoved
<1>5. AmountSat(job[h].req) \in Nat
  BY <1>1, AmountNat DEF Types, HandlersOK, Paying, Jobs
<1>6. /\ PaidFor(s) \in Nat /\ ChargedFor(s) \in Nat
      /\ ChargedFor(s)' \in Nat
  BY OwedNat, OwedNatNext
<1>7. CASE job[h].secret = s
  <2>1. ChargedFor(s) = ChargedFor(s)' + AmountSat(job[h].req)
    BY <1>2, <1>3, <1>7, ChargedStep
  <2> QED
    BY <1>4, <1>5, <1>6, <1>7, <2>1 DEF Owed
<1>8. CASE job[h].secret # s
  <2>1. ChargedFor(s)' = ChargedFor(s)
    BY <1>2, <1>3, <1>8, ChargedStep
  <2> QED
    BY <1>4, <1>8, <2>1 DEF Owed
<1> QED
  BY <1>7, <1>8

LEMMA OwedOrphan ==
  ASSUME Types, Types', NEW i \in Invoices, OrphanSettles(i), NEW s
  PROVE  Owed(s)' <= Owed(s)
<1>1. /\ UNCHANGED <<pc, job>> /\ sdk \in [Invoices -> Payments]
      /\ sdk[i].sat \in Nat
      /\ \A j \in Invoices \ {i} : sdk'[j] = sdk[j]
      /\ \/ /\ sdk'[i].by = sdk[i].by /\ sdk'[i].charged = sdk[i].charged
            /\ sdk'[i].sat = sdk[i].sat
         \/ ~ sdk'[i].charged
  BY DEF OrphanSettles, handlerVars, Types, TypeOK, NotPaid, Payments
<1>2. ChargedFor(s)' = ChargedFor(s)
  BY <1>1 DEF ChargedFor, LooseCharges
<1>3. \/ PaidFor(s)' = PaidFor(s)
      \/ PaidFor(s) = PaidFor(s)' + sdk[i].sat
  <2>1. CASE /\ i \in ChargedPayments(s)' <=> i \in ChargedPayments(s)
             /\ sdk'[i].sat = sdk[i].sat
    BY <1>1, <2>1, PaidStep
  <2>2. CASE i \notin ChargedPayments(s)'
    BY <1>1, <2>2, PaidStep
  <2> QED
    BY <1>1, <2>1, <2>2 DEF ChargedPayments
<1>4. /\ PaidFor(s) \in Nat /\ ChargedFor(s) \in Nat
      /\ PaidFor(s)' \in Nat
  BY OwedNat, OwedNatNext
<1> QED
  BY <1>1, <1>2, <1>3, <1>4 DEF Owed

LEMMA OwedCrash ==
  ASSUME Types, Crash, NEW s PROVE Owed(s)' <= Owed(s)
<1>1. LooseCharges(s)' = {}
  BY DEF Crash, LooseCharges
<1>2. ChargedFor(s)' = 0
  BY <1>1, TotalEmpty DEF ChargedFor
<1>3. PaidFor(s)' = PaidFor(s)
  BY PaidUnmoved DEF Crash
<1>4. PaidFor(s) \in Nat /\ ChargedFor(s) \in Nat
  BY OwedNat
<1> QED
  BY <1>2, <1>3, <1>4 DEF Owed

LEMMA MoneyStep ==
  ASSUME Types, IdentityInv, PaymentInv, NoOrphan, NoSaturation, MoneyInv,
         [Next]_vars
  PROVE  MoneyInv'
<1>1. Types'
  BY NextTypes
<1> SUFFICES ASSUME NEW n \in Names, NEW s \in Secrets,
                    connections'[n] # None, added'[n] = 1,
                    connections'[n].secret = s
             PROVE  LET paid == connections'[n].paid_amount_sat
                    IN /\ Owed(s)' <= paid /\ paid <= MAX_SAT
                       /\ faults' = 0 /\ crashes' = 0 => paid = Owed(s)'
  BY DEF MoneyInv, Owed
<1> DEFINE before == connections[n].paid_amount_sat
           after == connections'[n].paid_amount_sat
<1>2. CASE NewlyAdded(n)
  <2>1. added[n] = 0 /\ added[n] \in Nat /\ s = <<n, 1>>
    BY <1>2 DEF NewlyAdded, Types, TypeOK
  <2>2. ~ Issued(s)
    BY <2>1 DEF Issued
  <2>3. PaidFor(s) = 0 /\ ChargedFor(s) = 0
    BY <2>2, NothingOwed
  <2>4. PICK c \in Callers : add_connection(c)
    BY <1>2, <2>1, NotAdded DEF NewlyAdded
  <2>5. UNCHANGED <<pc, job, sdk>>
    BY <2>4 DEF add_connection, handlerVars
  <2>6. Owed(s)' = Owed(s)
    BY <2>5, OwedElsewhere
  <2> QED
    BY <1>2, <2>3, <2>6, NwcAssumption DEF Owed, NewlyAdded
<1>3. CASE SameConnection(n)
  <2>1. /\ connections[n] # None /\ added[n] = 1
        /\ connections[n].secret = s
    BY <1>3 DEF SameConnection
  <2>2. /\ Owed(s) <= before /\ before <= MAX_SAT
        /\ faults = 0 /\ crashes = 0 => before = Owed(s)
    BY <2>1 DEF MoneyInv, Owed
  <2>3. before \in Nat /\ after \in Nat /\ MAX_SAT \in Nat
    BY <1>1, <2>1, NwcAssumption DEF Types, TypeOK, Stores, Connections
  <2>4. Owed(s) \in Nat /\ Owed(s)' \in Nat
    <3>1. Owed(s) \in Nat
      BY OwedNat DEF Owed
    <3>2. (PaidFor(s) \in Nat /\ ChargedFor(s) \in Nat)'
      BY <1>1, OwedNatNext
    <3> QED
      BY <3>1, <3>2 DEF Owed
  <2>5. faults' = 0 /\ crashes' = 0 => faults = 0 /\ crashes = 0 /\ ~ Crash
    BY Forward, CrashFree
  <2>6. ASSUME NEW h \in Handlers, Charge(h)
        PROVE  \/ /\ Owed(s)' = Owed(s) + AmountSat(job[h].req)
                  /\ AmountSat(job[h].req) \in Nat
                  /\ after = before + AmountSat(job[h].req)
                  /\ after <= MAX_SAT
               \/ Owed(s)' = Owed(s) /\ after = before
    <3>1. /\ pc[h] = "charge"
          /\ AmountSat(job[h].req) \in Nat
          /\ job[h].secret = s <=> job[h].name = n
      BY <2>1, <2>6, FirstOfName, AmountNat
      DEF Charge, Types, HandlersOK, Paying, Jobs
    <3>2. CASE pc'[h] = "pay" /\ job[h].name = n
      <4>1. before + AmountSat(job[h].req) <= MAX_SAT
        BY <2>1, <3>1, <3>2 DEF NoSaturation
      <4>2. after = SaturatingAddSigned(before, AmountSat(job[h].req))
        BY <2>1, <2>6, <3>2, ChargePaid
      <4>3. after = before + AmountSat(job[h].req)
        BY <2>3, <3>1, <4>1, <4>2 DEF SaturatingAddSigned
      <4>4. Owed(s)' = Owed(s) + AmountSat(job[h].req)
        BY <1>1, <2>6, <3>1, <3>2, OwedCharge
      <4> QED
        BY <3>1, <4>1, <4>3, <4>4
    <3>3. CASE ~ (pc'[h] = "pay" /\ job[h].name = n)
      <4>1. after = before
        BY <2>1, <2>6, <3>3, ChargePaid
      <4>2. Owed(s)' = Owed(s)
        BY <1>1, <2>6, <3>1, <3>3, OwedCharge
      <4> QED
        BY <4>1, <4>2
    <3> QED
      BY <3>2, <3>3
  <2>7. ASSUME NEW h \in Handlers, Refund(h)
        PROVE  \/ /\ Owed(s) = Owed(s)' + AmountSat(job[h].req)
                  /\ AmountSat(job[h].req) \in Nat
                  /\ \/ after = before - AmountSat(job[h].req)
                     \/ faults' # 0 /\ after = before
               \/ Owed(s)' = Owed(s) /\ after = before
    <3>1. /\ pc[h] = "refund"
          /\ AmountSat(job[h].req) \in Nat
          /\ job[h].secret = s <=> job[h].name = n
      BY <2>1, <2>7, FirstOfName, AmountNat
      DEF Refund, Types, HandlersOK, Paying, Jobs
    <3>2. CASE job[h].name = n
      <4>1. Owed(s) = Owed(s)' + AmountSat(job[h].req)
        BY <1>1, <2>7, <3>1, <3>2, OwedRefund
      <4>2. AmountSat(job[h].req) <= before
        BY <2>2, <2>3, <2>4, <3>1, <4>1
      <4>3. SaturatingAddSigned(before, -AmountSat(job[h].req))
              = before - AmountSat(job[h].req)
        BY <2>2, <2>3, <3>1, <4>2 DEF SaturatingAddSigned
      <4>4. \/ after = SaturatingAddSigned(before, -AmountSat(job[h].req))
            \/ faults' # 0 /\ after = before
        BY <2>1, <2>7, <3>2, RefundPaid
      <4> HIDE DEF before, after
      <4> QED
        BY <3>1, <4>1, <4>3, <4>4
    <3>3. CASE job[h].name # n
      <4>1. after = before
        BY <2>1, <2>7, <3>3, RefundPaid
      <4>2. Owed(s)' = Owed(s)
        BY <1>1, <2>7, <3>1, <3>3, OwedRefund
      <4> QED
        BY <4>1, <4>2
    <3> QED
      BY <3>2, <3>3
  <2>8. ASSUME \A h \in Handlers : ~ Charge(h) /\ ~ Refund(h)
        PROVE  /\ after = before
               /\ Owed(s)' <= Owed(s)
               /\ faults' = 0 /\ crashes' = 0 => Owed(s)' = Owed(s)
    <3>1. after = before
      BY <1>3, <2>8, PaidKept
    <3>2. CASE Crash
      BY <2>5, <3>1, <3>2, OwedCrash
    <3>3. ASSUME NEW i \in Invoices, OrphanSettles(i)
          PROVE  Owed(s)' <= Owed(s) /\ ~ (faults' = 0 /\ crashes' = 0)
      <4>1. Owed(s)' <= Owed(s)
        BY <1>1, <3>3, OwedOrphan
      <4>2. ~ (faults' = 0 /\ crashes' = 0)
        BY <2>5, <3>3 DEF OrphanSettles, NoOrphan
      <4> QED
        BY <4>1, <4>2
    <3>4. ASSUME HandlerMoves PROVE Owed(s)' = Owed(s)
      BY <1>1, <2>8, <3>4, OwedEvent, OwedCall, OwedSettles, OwedRecord
      DEF HandlerMoves, HandlerStep
    <3>5. ASSUME ~ HandlerMoves, ~ OrphanMoves, ~ Crash
          PROVE  Owed(s)' = Owed(s)
      BY <3>5, Elsewhere, OwedElsewhere
    <3> QED
      BY <2>4, <3>1, <3>2, <3>3, <3>4, <3>5 DEF OrphanMoves
  <2> HIDE DEF before, after
  <2>9. /\ Owed(s)' <= after /\ after <= MAX_SAT
        /\ faults' = 0 /\ crashes' = 0 => after = Owed(s)'
    <3>1. CASE \E h \in Handlers : Charge(h)
      BY <2>2, <2>3, <2>4, <2>5, <2>6, <3>1
    <3>2. CASE \E h \in Handlers : Refund(h)
      BY <2>2, <2>3, <2>4, <2>5, <2>7, <3>2
    <3>3. CASE \A h \in Handlers : ~ Charge(h) /\ ~ Refund(h)
      BY <2>2, <2>3, <2>4, <2>5, <2>8, <3>3
    <3> QED
      BY <3>1, <3>2, <3>3
  <2> QED
    BY <2>9 DEF before, after
<1> QED
  BY <1>2, <1>3, SecretChange

LEMMA SpecPayments == Spec => [](IdentityInv /\ PaymentInv /\ NoOrphan)
<1>1. Init => IdentityInv /\ PaymentInv /\ NoOrphan
  BY DEF Init, IdentityInv, PaymentInv, NoOrphan, NotPaid
<1>2. Types /\ (IdentityInv /\ PaymentInv /\ NoOrphan) /\ [Next]_vars
        => (IdentityInv /\ PaymentInv /\ NoOrphan)'
  BY IdentityStep, PaymentStep, NoOrphanStep
<1> QED
  BY <1>1, <1>2, SpecTypes, PTL DEF Spec

LEMMA SpecMoney == Spec /\ []NoSaturation => []MoneyInv
<1>1. Init => MoneyInv
  BY DEF Init, MoneyInv
<1>2. Types /\ IdentityInv /\ PaymentInv /\ NoOrphan /\ NoSaturation /\ MoneyInv
        /\ [Next]_vars => MoneyInv'
  BY MoneyStep
<1> QED
  BY <1>1, <1>2, SpecTypes, SpecPayments, PTL DEF Spec

(* As long as no u64 saturates, what paid_amount_sat says was sent over    *)
(* the first connection of a name is never less than its charged payments, *)
(* whatever interleaves, fails or crashes: a charge may be lost, a payment *)
(* never.                                                                  *)
THEOREM PaidAmountIsCovered == Spec /\ []NoSaturation => []PaidAmountCovers
<1>1. Types /\ MoneyInv => PaidAmountCovers
  <2> SUFFICES ASSUME Types, MoneyInv, NEW n \in Names,
                      connections[n] # None, added[n] = 1
               PROVE  connections[n].paid_amount_sat
                        >= PaidFor(connections[n].secret)
    BY DEF PaidAmountCovers
  <2> DEFINE s == connections[n].secret
  <2>1. s \in Secrets /\ connections[n].paid_amount_sat \in Nat
    BY DEF Types, TypeOK, Stores, Connections
  <2>2. PaidFor(s) + ChargedFor(s) <= connections[n].paid_amount_sat
    BY <2>1 DEF MoneyInv
  <2>3. PaidFor(s) \in Nat /\ ChargedFor(s) \in Nat
    BY OwedNat
  <2> QED
    BY <2>1, <2>2, <2>3
<1> QED
  BY <1>1, SpecTypes, SpecMoney, PTL

(* And as long as nothing fails and nothing crashes, it is exactly what    *)
(* was, is being and is about to be paid or refunded.                      *)
THEOREM PaidAmountIsExact == Spec /\ []NoSaturation => []PaidAmountExact
<1>1. Types /\ MoneyInv => PaidAmountExact
  <2> SUFFICES ASSUME Types, MoneyInv, faults = 0, crashes = 0,
                      NEW n \in Names, connections[n] # None, added[n] = 1
               PROVE  connections[n].paid_amount_sat
                        = PaidFor(connections[n].secret)
                            + ChargedFor(connections[n].secret)
    BY DEF PaidAmountExact
  <2>1. connections[n].secret \in Secrets
    BY DEF Types, TypeOK, Stores, Connections
  <2> QED
    BY <2>1 DEF MoneyInv
<1> QED
  BY <1>1, SpecTypes, SpecMoney, PTL

-----------------------------------------------------------------------------
(* What clients have been told.                                            *)
LEMMA StaysPaid ==
  ASSUME Types, PaymentInv, [Next]_vars, NEW i \in Invoices,
         sdk[i].state = "paid"
  PROVE  sdk'[i].state = "paid"
<1>1. sdk \in [Invoices -> Payments]
  BY DEF Types, TypeOK
<1>2. ASSUME NEW h \in Handlers, CallPayInvoice(h)
      PROVE  sdk'[i] = sdk[i]
  BY <1>1, <1>2 DEF CallPayInvoice
<1>3. ASSUME NEW h \in Handlers, PaymentSettles(h)
      PROVE  sdk'[i] = sdk[i]
  <2>1. Pays(h)
    BY <1>3 DEF PaymentSettles, PaymentInv
  <2> QED
    BY <1>1, <1>3, <2>1 DEF PaymentSettles, Pays
<1>4. ASSUME NEW h \in Handlers, HandleEvent(h) \/ HandlerStep(h),
             ~ CallPayInvoice(h), ~ PaymentSettles(h)
      PROVE  sdk'[i] = sdk[i]
  BY <1>4 DEF HandleEvent, HandlerStep, compute_result, Charge,
              add_nwc_paid_invoice, Refund, Reply
<1>5. ASSUME NEW j \in Invoices, OrphanSettles(j) PROVE sdk'[i] = sdk[i]
  BY <1>1, <1>5 DEF OrphanSettles
<1>6. CASE Crash
  BY <1>6 DEF Crash
<1> QED
  BY <1>2, <1>3, <1>4, <1>5, <1>6, Elsewhere DEF HandlerMoves, OrphanMoves

(* Only a removal takes an invoice out of the paid ones.                   *)
LEMMA StaysListed ==
  ASSUME Types, [Next]_vars, NEW n \in Names, NEW i \in paid_invoices[n]
  PROVE  \/ i \in paid_invoices'[n]
         \/ \E c \in Callers : host[c] = "forget" /\ removing[c] = n
<1>1. paid_invoices \in [Names -> SUBSET Invoices]
  BY DEF Types, TypeOK
<1>2. ASSUME NEW c \in Callers, ForgetPaidInvoices(c)
      PROVE  \/ i \in paid_invoices'[n]
             \/ host[c] = "forget" /\ removing[c] = n
  <2>1. /\ host[c] = "forget" /\ removing[c] \in Names
        /\ \/ paid_invoices' = paid_invoices
           \/ paid_invoices' = [paid_invoices EXCEPT ![removing[c]] = {}]
    BY <1>2 DEF ForgetPaidInvoices, Types, CallersOK
  <2>2. removing[c] # n => paid_invoices'[n] = paid_invoices[n]
    BY <1>1, <2>1
  <2> QED
    BY <2>1, <2>2
<1>3. ASSUME NEW h \in Handlers, add_nwc_paid_invoice(h)
      PROVE  i \in paid_invoices'[n]
  BY <1>1, <1>3 DEF add_nwc_paid_invoice
<1>4. ASSUME ~ \E c \in Callers : ForgetPaidInvoices(c),
             ~ \E h \in Handlers : add_nwc_paid_invoice(h)
      PROVE  paid_invoices' = paid_invoices
  BY <1>4 DEF Next, vars, storeVars, add_connection, edit_connection,
         remove_connection, Tick, HostStep, trigger_resubscription, LoopStep,
         ArmTimer, fetch_active_connections, Resubscribe, on_interval,
         NotifyRefreshed, HandleEvent, HandlerStep, Charge, compute_result,
         CallPayInvoice,
         PaymentSettles, Refund, Reply, Crash, OrphanSettles
<1> QED
  BY <1>2, <1>3, <1>4

LEMMA StillForgetting ==
  ASSUME Types, [Next]_vars, NEW c \in Callers, host'[c] = "forget"
  PROVE  \/ \E n \in Names : /\ removing'[c] = n
                             /\ connections[n] # None /\ connections'[n] = None
                             /\ added' = added
         \/ /\ host[c] = "forget" /\ removing'[c] = removing[c]
            /\ ~ add_connection(c)
<1>1. /\ host \in [Callers -> {"idle", "forget", "trigger"}]
      /\ removing \in [Callers -> Names \cup {None}]
      /\ connections \in [Names -> Connections \cup {None}]
  BY DEF Types, TypeOK, Stores
<1>2. ASSUME NEW d \in Callers, remove_connection(d)
      PROVE  \/ \E n \in Names : /\ removing'[c] = n
                                 /\ connections[n] # None
                                 /\ connections'[n] = None /\ added' = added
             \/ host[c] = "forget" /\ removing'[c] = removing[c]
  BY <1>1, <1>2
  DEF remove_connection, HostCall, remove_nwc_connection, Rejected, Changed,
      Unchanged
<1>3. ASSUME NEW d \in Callers,
             add_connection(d) \/ edit_connection(d) \/ HostStep(d)
      PROVE  host[c] = "forget" /\ removing'[c] = removing[c]
  BY <1>1, <1>3
  DEF add_connection, edit_connection, HostStep, ForgetPaidInvoices,
      trigger_resubscription
<1>4. ~ Crash
  BY DEF Crash
<1>5. ASSUME ~ \E d \in Callers : \/ add_connection(d) \/ edit_connection(d)
                                  \/ remove_connection(d) \/ HostStep(d)
      PROVE  UNCHANGED <<host, removing>>
  BY <1>4, <1>5
  DEF Next, vars, hostVars, Tick, LoopStep, ArmTimer, fetch_active_connections,
      Resubscribe, on_interval, NotifyRefreshed, HandleEvent, HandlerStep,
      Charge, compute_result, CallPayInvoice, PaymentSettles,
      add_nwc_paid_invoice, Refund,
      Reply, OrphanSettles
<1>6. host[c] = "forget" => ~ add_connection(c)
  BY DEF add_connection, HostCall
<1> QED
  BY <1>2, <1>3, <1>5, <1>6

(* A payment that was recorded stays so, as long as its connection exists. *)
LEMMA StaysRecorded ==
  ASSUME Types, IdentityInv, PaymentInv, RecordInv, [Next]_vars,
         NEW s \in Secrets, Issued(s), NEW i \in Invoices, Recorded(s, i)
  PROVE  Recorded(s, i)'
<1>1. sdk'[i].state = "paid"
  BY StaysPaid DEF Recorded
<1>2. ASSUME NEW n \in Names, connections'[n] # None,
             connections'[n].secret = s, NoOverlap(n)'
      PROVE  i \in paid_invoices'[n]
  <2>1. /\ added[n] \in Nat
        /\ SameConnection(n) \/ NewlyAdded(n)
    BY <1>2, SecretChange
  <2>2. ~ NewlyAdded(n)
    BY <1>2, <2>1 DEF NewlyAdded, Issued
  <2>3. /\ connections[n] # None /\ connections[n].secret = s
        /\ NoOverlap(n)
    BY <1>2, <2>1, <2>2 DEF SameConnection, NoOverlap
  <2>4. i \in paid_invoices[n]
    BY <2>3 DEF Recorded
  <2>5. \A c \in Callers : host[c] = "forget" => removing[c] # n
    BY <2>3 DEF RecordInv
  <2> QED
    BY <2>4, <2>5, StaysListed
<1> QED
  BY <1>1, <1>2 DEF Recorded

LEMMA ServeIsNotPay ==
  ASSUME NEW con, NEW req, Verdict(con, req) = "Serve"
  PROVE  req.method # "pay_invoice"
  BY DEF Verdict

(* A handler that answers a payment with success has paid and recorded it. *)
LEMMA RecordedReply ==
  ASSUME Types, IdentityInv, PaymentInv, RecordInv, [Next]_vars,
         NEW h \in Handlers, pc'[h] = "reply", res'[h] = "Ok",
         job'[h].req.method = "pay_invoice",
         NEW s, job'[h].secret = s, NEW i, job'[h].req.invoice = i
  PROVE  Recorded(s, i)'
<1>1. /\ pc \in [Handlers -> {"idle", "verdict", "charge", "pay", "paying",
                              "record", "refund", "reply"}]
      /\ res \in [Handlers -> Results \cup {None}]
      /\ paid_invoices \in [Names -> SUBSET Invoices]
  BY DEF Types, TypeOK
<1>2. ASSUME pc[h] # "idle", job[h].secret = s, job[h].req.invoice = i
      PROVE  /\ s \in Secrets /\ i \in Invoices /\ Issued(s)
             /\ job[h].name \in Names /\ s[1] = job[h].name
  BY <1>2, WalletAssumption DEF Types, HandlersOK, Jobs, IdentityInv
<1>3. CASE pc'[h] = pc[h] /\ job'[h] = job[h] /\ res'[h] = res[h]
  <2>1. Recorded(s, i)
    BY <1>3 DEF RecordInv
  <2> QED
    BY <1>2, <1>3, <2>1, StaysRecorded
<1>4. ~ HandleEvent(h)
  BY Arrival
<1>5. CASE add_nwc_paid_invoice(h)
  <2>1. /\ job' = job /\ pc[h] = "record"
        /\ UNCHANGED <<connections, added, sdk>>
        /\ paid_invoices' =
             [paid_invoices EXCEPT ![job[h].name] = @ \cup {job[h].req.invoice}]
    BY <1>1, <1>5 DEF add_nwc_paid_invoice, Answer
  <2>2. /\ s \in Secrets /\ i \in Invoices /\ job[h].name \in Names
        /\ s[1] = job[h].name
    BY <1>2, <2>1
  <2>3. sdk'[i].state = "paid"
    BY <2>1 DEF RecordInv
  <2>4. \A n \in Names : connections'[n] # None /\ connections'[n].secret = s
          => n = job[h].name
    BY <2>1, <2>2 DEF IdentityInv
  <2>5. i \in paid_invoices'[job[h].name]
    BY <1>1, <2>1, <2>2
  <2> QED
    BY <2>3, <2>4, <2>5 DEF Recorded
<1>6. ASSUME HandlerStep(h), ~ add_nwc_paid_invoice(h), ~ compute_result(h)
      PROVE  FALSE
  <2>1. ~ Charge(h) /\ ~ Reply(h)
    BY <1>1 DEF Charge, Reply, Answer
  <2>2. ~ CallPayInvoice(h) /\ ~ PaymentSettles(h)
    BY <1>1 DEF CallPayInvoice, PaymentSettles, PaymentError
  <2>3. ~ Refund(h)
    BY <1>1 DEF Refund, Answer, RecordInv
  <2> QED
    BY <1>6, <2>1, <2>2, <2>3 DEF HandlerStep
<1>7. ASSUME NEW g \in Handlers \ {h}, HandleEvent(g) \/ HandlerStep(g)
      PROVE  pc'[h] = pc[h] /\ job'[h] = job[h] /\ res'[h] = res[h]
  BY <1>7, Arrival, JobKept
<1>8. CASE OrphanMoves
  BY <1>3, <1>8 DEF OrphanMoves, OrphanSettles, handlerVars
<1>9. ~ Crash
  BY DEF Crash
<1>10. CASE compute_result(h)
  <2>1. SameJob(h)
    BY <1>10, JobKept DEF HandlerStep
  <2> QED
    BY <1>10, <2>1, Decision, ServeIsNotPay DEF SameJob
<1> QED
  BY <1>3, <1>4, <1>5, <1>6, <1>7, <1>8, <1>9, <1>10, Elsewhere
  DEF HandlerMoves

LEMMA RecordStep ==
  ASSUME Types, IdentityInv, PaymentInv, RecordInv, [Next]_vars
  PROVE  RecordInv'
<1>1. /\ pc \in [Handlers -> {"idle", "verdict", "charge", "pay", "paying",
                              "record", "refund", "reply"}]
      /\ res \in [Handlers -> Results \cup {None}]
      /\ sdk \in [Invoices -> Payments]
      /\ added \in [Names -> Nat]
  BY DEF Types, TypeOK
<1>2. ASSUME NEW h \in Handlers
      PROVE  /\ pc'[h] = "record" => sdk'[job'[h].req.invoice].state = "paid"
             /\ pc'[h] = "refund" => res'[h] # "Ok"
  <2>1. CASE pc'[h] = pc[h] /\ job'[h] = job[h] /\ res'[h] = res[h]
    <3>1. pc[h] = "record" => job[h].req.invoice \in Invoices
      BY WalletAssumption DEF Types, HandlersOK, Jobs
    <3> QED
      BY <2>1, <3>1, StaysPaid DEF RecordInv
  <2>2. CASE HandleEvent(h)
    BY <2>2, Arrival
  <2>3. CASE HandlerStep(h)
    <3>1. CASE Charge(h) \/ add_nwc_paid_invoice(h) \/ Refund(h) \/ Reply(h)
      BY <1>1, <3>1 DEF Charge, add_nwc_paid_invoice, Refund, Reply, Answer
    <3>2. CASE CallPayInvoice(h)
      BY <1>1, <3>2 DEF CallPayInvoice, PaymentError
    <3>3. CASE PaymentSettles(h)
      <4>1. job[h].req.invoice \in Invoices
        BY <3>3, WalletAssumption
        DEF PaymentSettles, Types, HandlersOK, Jobs
      <4> QED
        BY <1>1, <3>3, <4>1 DEF PaymentSettles, PaymentError, Payments
    <3>4. CASE compute_result(h)
      BY <3>4, Decision
    <3> QED
      BY <2>3, <3>1, <3>2, <3>3, <3>4 DEF HandlerStep
  <2>4. ASSUME NEW g \in Handlers \ {h}, HandleEvent(g) \/ HandlerStep(g)
        PROVE  pc'[h] = pc[h] /\ job'[h] = job[h] /\ res'[h] = res[h]
    BY <2>4, Arrival, JobKept
  <2>5. CASE OrphanMoves
    BY <2>1, <2>5 DEF OrphanMoves, OrphanSettles, handlerVars
  <2>6. CASE Crash
    BY <2>6 DEF Crash
  <2> QED
    BY <2>1, <2>2, <2>3, <2>4, <2>5, <2>6, Elsewhere DEF HandlerMoves
<1>3. ASSUME NEW h \in Handlers, pc'[h] = "reply", res'[h] = "Ok",
             job'[h].req.method = "pay_invoice"
      PROVE  /\ sdk'[job'[h].req.invoice].state = "paid"
             /\ \A n \in Names :
                  /\ connections'[n] # None
                  /\ connections'[n].secret = job'[h].secret
                  /\ NoOverlap(n)'
                  => job'[h].req.invoice \in paid_invoices'[n]
  BY <1>3, RecordedReply DEF Recorded
<1>4. ASSUME NEW s, NEW i, [to |-> s, invoice |-> i] \in acked'
      PROVE  Recorded(s, i)'
  <2>1. CASE [to |-> s, invoice |-> i] \in acked
    <3>1. s \in Secrets /\ i \in Invoices
      BY <2>1 DEF Types, TypeOK
    <3>2. Issued(s) /\ Recorded(s, i)
      BY <2>1 DEF IdentityInv, RecordInv
    <3> QED
      BY <3>1, <3>2, StaysRecorded
  <2>2. ASSUME NEW h \in Handlers,
               pc[h] = "reply", res[h] = "Ok",
               job[h].req.method = "pay_invoice",
               job[h].secret = s, job[h].req.invoice = i,
               UNCHANGED <<connections, paid_invoices, added, sdk>>
        PROVE  Recorded(s, i)'
    <3>1. Recorded(s, i)
      BY <2>2 DEF RecordInv
    <3> QED
      BY <2>2, <3>1 DEF Recorded, NoOverlap
  <2>3. [to |-> s, invoice |-> i].to = s /\ [to |-> s, invoice |-> i].invoice = i
    OBVIOUS
  <2>4. \/ [to |-> s, invoice |-> i] \in acked
        \/ \E h \in Handlers :
              /\ pc[h] = "reply" /\ res[h] = "Ok"
              /\ job[h].req.method = "pay_invoice"
              /\ [to |-> s, invoice |-> i]
                   = [to |-> job[h].secret, invoice |-> job[h].req.invoice]
              /\ UNCHANGED <<connections, paid_invoices, added, sdk>>
    BY <1>4, ToldBy
  <2> QED
    BY <2>1, <2>2, <2>4
<1>5. ASSUME NEW a \in acked'
      PROVE  /\ sdk'[a.invoice].state = "paid"
             /\ \A n \in Names :
                  /\ connections'[n] # None /\ connections'[n].secret = a.to
                  /\ NoOverlap(n)'
                  => a.invoice \in paid_invoices'[n]
  <2>1. a = [to |-> a.to, invoice |-> a.invoice]
    BY <1>5, NextTypes DEF Types, TypeOK
  <2> QED
    BY <1>4, <1>5, <2>1 DEF Recorded
<1>6. ASSUME NEW c \in Callers, host'[c] = "forget",
             NEW n, removing'[c] = n
      PROVE  added'[n] >= 1 /\ (NoOverlap(n)' => connections'[n] = None)
  <2>1. CASE /\ n \in Names
             /\ connections[n] # None /\ connections'[n] = None
             /\ added' = added
    BY <2>1 DEF IdentityInv
  <2>2. CASE /\ host[c] = "forget" /\ removing'[c] = removing[c]
             /\ ~ add_connection(c)
    <3>1. /\ n \in Names /\ added[n] >= 1
          /\ NoOverlap(n) => connections[n] = None
      BY <1>6, <2>2 DEF Types, CallersOK, RecordInv
    <3>2. /\ added[n] \in Nat /\ added'[n] \in {added[n], added[n] + 1}
          /\ connections'[n] # None => SameConnection(n) \/ NewlyAdded(n)
      BY <3>1, SecretChange
    <3>3. CASE added'[n] = 1
      BY <2>2, <3>1, <3>2, <3>3 DEF SameConnection, NewlyAdded, NoOverlap
    <3>4. CASE \A d, e \in Callers : d = e
      <4>1. added' = added
        BY <2>2, <3>4, NotAdded
      <4> QED
        BY <2>2, <3>1, <3>2, <3>4, <4>1
        DEF SameConnection, NewlyAdded, NoOverlap
    <3> QED
      BY <2>2, <3>1, <3>2, <3>3, <3>4 DEF NoOverlap
  <2> QED
    BY <1>6, <2>1, <2>2, StillForgetting
<1>7. ASSUME NEW c \in Callers, host'[c] = "forget"
      PROVE  /\ added'[removing'[c]] >= 1
             /\ (\/ added'[removing'[c]] = 1
                 \/ \A d, e \in Callers : d = e)
                  => connections'[removing'[c]] = None
  BY <1>6, <1>7 DEF NoOverlap
<1> QED
  BY <1>2, <1>3, <1>5, <1>7 DEF RecordInv, Recorded, NoOverlap

(* No client is told of a success that did not happen, and the invoice it  *)
(* paid is among those of its connection as long as that exists, in every  *)
(* interleaving of handlers, removals, failures and crashes.               *)
THEOREM SuccessIsRecorded == Spec => []SuccessRecorded
<1>1. Init => RecordInv
  BY DEF Init, RecordInv
<1>2. Types /\ IdentityInv /\ PaymentInv /\ RecordInv /\ [Next]_vars
        => RecordInv'
  BY RecordStep
<1>3. RecordInv => SuccessRecorded
  BY DEF RecordInv, Recorded, SuccessRecorded
<1> QED
  BY <1>1, <1>2, <1>3, SpecTypes, SpecPayments, PTL DEF Spec

-----------------------------------------------------------------------------
(* The terms payments are begun under.                                     *)
LEMMA SamePermissions ==
  ASSUME NEW a \in Connections, NEW c \in Connections, Terms(a) = Terms(c)
  PROVE  /\ a.receive_only = c.receive_only
         /\ a.periodic_budget # None /\ c.periodic_budget # None =>
              a.periodic_budget.max_budget_sat
                = c.periodic_budget.max_budget_sat
<1> DEFINE x == a.periodic_budget
           y == c.periodic_budget
<1>1. /\ a.receive_only = Terms(a).receive_only
      /\ BudgetTerms(x) = Terms(a).periodic_budget
  BY DEF Terms, Connections
<1>2. /\ c.receive_only = Terms(c).receive_only
      /\ BudgetTerms(y) = Terms(c).periodic_budget
  BY DEF Terms, Connections
<1>3. BudgetTerms(x) = BudgetTerms(y)
  BY <1>1, <1>2
<1>4. ASSUME NEW b \in Budgets
      PROVE  BudgetTerms(b).max_budget_sat = b.max_budget_sat
  BY NoneAssumption DEF BudgetTerms, Budgets
<1>5. x \in Budgets \cup {None} /\ y \in Budgets \cup {None}
  BY DEF Connections
<1>6. a.receive_only = c.receive_only
  BY <1>1, <1>2, Zenon
<1> QED
  BY <1>3, <1>4, <1>5, <1>6, NoneAssumption

LEMMA VerdictAllows ==
  ASSUME NEW c \in Connections, NEW req \in Requests,
         Verdict(c, req) \in {"Pay", "Charge"}
  PROVE  /\ ~ c.receive_only
         /\ Verdict(c, req) = "Pay" <=> c.periodic_budget = None
         /\ c.periodic_budget # None =>
              AmountSat(req) <= c.periodic_budget.max_budget_sat
<1>1. ~ c.receive_only
  BY DEF Verdict
<1>2. Verdict(c, req) = "Pay" <=> c.periodic_budget = None
  BY DEF Verdict
<1>3. ASSUME c.periodic_budget # None
      PROVE  AmountSat(req) <= c.periodic_budget.max_budget_sat
  <2>1. AmountSat(req) \in Nat
    BY AmountNat, VerdictKnowsAmount
  <2>2. /\ c.periodic_budget.used_budget_sat \in Nat
        /\ c.periodic_budget.max_budget_sat \in Nat
    BY <1>3 DEF Connections, Budgets
  <2>3. ~ (c.periodic_budget.used_budget_sat + AmountSat(req)
             > c.periodic_budget.max_budget_sat)
    BY <1>3 DEF Verdict
  <2> QED
    BY <2>1, <2>2, <2>3
<1> QED
  BY <1>1, <1>2, <1>3

LEMMA AllowsSame ==
  ASSUME NEW a \in Connections, NEW c \in Connections, Terms(a) = Terms(c),
         NEW j, Allows(a, j)
  PROVE  Allows(c, j)
<1>1. /\ a.receive_only = c.receive_only
      /\ a.periodic_budget = None <=> c.periodic_budget = None
      /\ a.periodic_budget # None /\ c.periodic_budget # None =>
           a.periodic_budget.max_budget_sat = c.periodic_budget.max_budget_sat
  BY SameTerms, SamePermissions
<1>2. a # None /\ c # None
  BY NoneAssumption
<1>3. ~ c.receive_only
  BY <1>1, <1>2, Zenon DEF Allows
<1>4. ASSUME c.periodic_budget # None
      PROVE  j.charged /\ AmountSat(j.req) <= c.periodic_budget.max_budget_sat
  <2>1. a.periodic_budget # None
    BY <1>1, <1>4, Zenon
  <2>2. /\ j.charged
        /\ AmountSat(j.req) <= a.periodic_budget.max_budget_sat
    BY <1>2, <2>1, Zenon DEF Allows
  <2> QED
    BY <1>1, <1>4, <2>1, <2>2, Zenon
<1> QED
  BY <1>3, <1>4, Zenon DEF Allows

(* Up to the call of the SDK, the persisted terms are those of an up to    *)
(* date snapshot, and after the verdict they allow the payment.            *)
TermsInv ==
  \A h \in Handlers \ outdated :
    LET j == job[h]
        c == connections[j.name]
    IN c # None =>
         /\ pc[h] = "verdict" => /\ j.client \in Connections
                                /\ Terms(j.client) = Terms(c)
         /\ pc[h] \in {"charge", "pay"} => Allows(c, j)

(* Whatever another task does, a handler whose snapshot stays up to date   *)
(* still has the persisted terms in front of it.                           *)
LEMMA TermsStand ==
  ASSUME Types, [Next]_vars, NEW h \in Handlers,
         h \notin outdated, h \notin outdated',
         pc[h] \in {"verdict", "charge", "pay"},
         NEW n \in Names, job[h].name = n, connections'[n] # None
  PROVE  /\ connections[n] # None
         /\ Terms(connections'[n]) = Terms(connections[n])
<1>1. CASE ~ Adding
  BY <1>1, TermsKept
<1>2. ASSUME NEW c \in Callers, add_connection(c)
      PROVE  connections'[n] = connections[n]
  <2>1. PICK m \in Names :
          /\ \E con : connections' = [connections EXCEPT ![m] = con]
          /\ m = n => h \in outdated'
    BY <1>2, Addition
  <2>2. m # n
    BY <2>1
  <2> QED
    BY <2>1, <2>2 DEF Types, TypeOK, Stores
<1>3. ASSUME NEW c \in Callers, edit_connection(c)
      PROVE  connections'[n] = connections[n]
  <2>1. PICK req \in EditRequests :
          LET out == edit_nwc_connection(connections, req, now)
          IN /\ out.changed
             /\ connections' = out.data
             /\ Outdate(req.name)
    BY <1>3 DEF edit_connection
  <2>2. req.name # n
    BY <2>1 DEF Outdate
  <2>3. connections' = [connections EXCEPT ![req.name] =
                          Edited(connections[req.name], req, now)]
    BY <2>1 DEF edit_nwc_connection, Rejected, Changed, Unchanged
  <2> QED
    BY <2>2, <2>3 DEF Types, TypeOK, Stores
<1> QED
  BY <1>1, <1>2, <1>3 DEF Adding

(* Only the reply, a crash, and nothing else, ends the history of a        *)
(* handler's snapshot.                                                     *)
LEMMA OutdatedOnly ==
  ASSUME [Next]_vars, NEW h \in Handlers, h \in outdated, h \notin outdated'
  PROVE  Reply(h) \/ Crash
<1>1. ASSUME NEW g \in Handlers, HandleEvent(g) PROVE FALSE
  BY <1>1 DEF HandleEvent
<1>2. ASSUME NEW g \in Handlers, Reply(g) PROVE Reply(h)
  BY <1>2 DEF Reply
<1>3. ~ Adding
  BY DEF Adding, add_connection, edit_connection, Outdate
<1>4. CASE ~ Crash /\ \A g \in Handlers : ~ HandleEvent(g) /\ ~ Reply(g)
  BY <1>3, <1>4
  DEF Next, vars, seenVars, Adding, remove_connection, Tick, HostStep,
      ForgetPaidInvoices, trigger_resubscription, LoopStep, ArmTimer,
      fetch_active_connections, Resubscribe, on_interval, NotifyRefreshed,
      HandlerStep, Charge, compute_result, CallPayInvoice, PaymentSettles,
      add_nwc_paid_invoice, Refund, OrphanSettles
<1> QED
  BY <1>1, <1>2, <1>4

LEMMA TermsStep ==
  ASSUME Types, ServedAsPersisted, TermsInv, [Next]_vars PROVE TermsInv'
<1> SUFFICES ASSUME NEW h \in Handlers, h \notin outdated',
                    NEW n, job'[h].name = n, connections'[n] # None,
                    pc'[h] \in {"verdict", "charge", "pay"}
             PROVE  /\ pc'[h] = "verdict" =>
                         /\ job'[h].client \in Connections
                         /\ Terms(job'[h].client) = Terms(connections'[n])
                    /\ pc'[h] \in {"charge", "pay"} =>
                         Allows(connections'[n], job'[h])
  BY DEF TermsInv, Allows
<1>1. Types' /\ n \in Names
  BY NextTypes DEF Types, HandlersOK, Jobs
<1>2. /\ connections \in Stores /\ connections'[n] \in Connections
      /\ pc \in [Handlers -> {"idle", "verdict", "charge", "pay", "paying",
                              "record", "refund", "reply"}]
  BY <1>1 DEF Types, TypeOK, Stores
<1>3. CASE HandleEvent(h)
  <2>1. PICK m \in Names, req \in Requests :
          /\ active[m] # None /\ active[m] \in Connections
          /\ job'[h] = [secret |-> active[m].secret, req |-> req,
                        name |-> m, client |-> active[m],
                        charged |-> FALSE, period |-> None]
    BY <1>3, Arrival
  <2>2. /\ m = n /\ job'[h].client = active[n]
        /\ pc'[h] = "verdict" /\ connections' = connections
    BY <1>3, <2>1, Arrival
  <2>3. CaughtUp
    BY <1>3 DEF HandleEvent
  <2>4. Terms(active[n]) = Terms(connections[n])
    BY <1>1, <2>2, <2>3 DEF ServedAsPersisted
  <2> QED
    BY <2>1, <2>2, <2>4
<1>4. CASE compute_result(h)
  <2>1. /\ pc[h] = "verdict" /\ pc'[h] \in {"charge", "pay", "reply"}
        /\ h \notin outdated /\ connections' = connections
    BY <1>4, Decision
  <2>2. job[h].name = n /\ job'[h].req = job[h].req /\ job[h] \in Jobs
    BY <1>2, <1>4, <2>1, JobKept DEF HandlerStep, SameJob
  <2> DEFINE con == job[h].client
             req == job[h].req
  <2>3. con \in Connections /\ Terms(con) = Terms(connections'[n])
    BY <2>1, <2>2 DEF TermsInv
  <2>4. /\ pc'[h] = "charge" => job'[h].charged /\ Verdict(con, req) = "Charge"
        /\ pc'[h] = "pay" => Verdict(con, req) = "Pay"
        /\ req \in Requests
    BY <1>4, <2>2, Decision DEF Jobs
  <2>5. /\ ~ con.receive_only
        /\ Verdict(con, req) = "Pay" <=> con.periodic_budget = None
        /\ con.periodic_budget # None =>
             AmountSat(req) <= con.periodic_budget.max_budget_sat
    BY <1>4, <2>1, <2>3, <2>4, VerdictAllows
  <2>6. Allows(con, job'[h])
    <3>1. ASSUME con.periodic_budget # None PROVE job'[h].charged
      <4>1. Verdict(con, req) # "Pay"
        BY <2>5, <3>1, Zenon
      <4> QED
        BY <2>1, <2>4, <4>1
    <3>2. AmountSat(job'[h].req) = AmountSat(req)
      BY <2>2
    <3> QED
      BY <2>5, <3>1, <3>2, Zenon DEF Allows
  <2>7. Allows(connections'[n], job'[h])
    BY <1>2, <2>3, <2>6, AllowsSame
  <2> QED
    BY <2>1, <2>7
<1>5. CASE Charge(h)
  <2>1. pc[h] = "charge" /\ pc'[h] = "pay"
    BY <1>2, <1>5 DEF Charge, Answer
  <2>2. SameJob(h) /\ job[h].name = n
    BY <1>5, <2>1, JobKept DEF HandlerStep, SameJob
  <2>3. h \notin outdated
    BY <1>5 DEF Charge, seenVars
  <2>4. /\ connections[n] # None
        /\ Terms(connections'[n]) = Terms(connections[n])
    BY <1>1, <2>1, <2>2, <2>3, TermsStand
  <2>5. Allows(connections[n], job[h])
    BY <2>1, <2>2, <2>3, <2>4 DEF TermsInv
  <2>6. Allows(connections'[n], job[h])
    <3>1. connections[n] \in Connections
      BY <1>1, <1>2, <2>4 DEF Stores
    <3> QED
      BY <1>2, <2>4, <2>5, <3>1, AllowsSame
  <2>7. job'[h].charged = job[h].charged /\ job'[h].req = job[h].req
    BY <2>1, <2>2 DEF SameJob
  <2> QED
    BY <2>1, <2>6, <2>7 DEF Allows
<1>6. CASE pc'[h] = pc[h] /\ job'[h] = job[h]
  <2>1. h \notin outdated
    <3>1. ~ Reply(h) /\ ~ Crash
      BY <1>2, <1>6 DEF Reply, Crash
    <3> QED
      BY <3>1, OutdatedOnly
  <2>2. /\ connections[n] # None
        /\ Terms(connections'[n]) = Terms(connections[n])
    BY <1>1, <1>6, <2>1, TermsStand
  <2>3. /\ pc[h] = "verdict" => /\ job[h].client \in Connections
                               /\ Terms(job[h].client) = Terms(connections[n])
        /\ pc[h] \in {"charge", "pay"} => Allows(connections[n], job[h])
    BY <1>6, <2>1, <2>2 DEF TermsInv
  <2>4. connections[n] \in Connections
    BY <1>1, <1>2, <2>2 DEF Stores
  <2>5. pc[h] \in {"charge", "pay"} => Allows(connections'[n], job[h])
    BY <1>2, <2>2, <2>3, <2>4, AllowsSame
  <2> QED
    BY <1>6, <2>2, <2>3, <2>5
<1>7. ASSUME HandlerStep(h), ~ compute_result(h), ~ Charge(h) PROVE FALSE
  BY <1>2, <1>7
  DEF HandlerStep, CallPayInvoice, PaymentSettles, PaymentError,
      add_nwc_paid_invoice, Refund, Reply, Answer
<1>8. ASSUME NEW g \in Handlers \ {h}, HandleEvent(g) \/ HandlerStep(g)
      PROVE  pc'[h] = pc[h] /\ job'[h] = job[h]
  BY <1>8, Arrival, JobKept
<1>9. CASE OrphanMoves
  BY <1>6, <1>9 DEF OrphanMoves, OrphanSettles, handlerVars
<1>10. ~ Crash
  BY DEF Crash
<1> QED
  BY <1>3, <1>4, <1>5, <1>6, <1>7, <1>8, <1>9, <1>10, Elsewhere
  DEF HandlerMoves

(* A payment whose snapshot was up to date and whose connection the host   *)
(* has left alone since is one the persisted terms allow at the moment the *)
(* SDK is called, whoever else is charging, refunding, renewing, removing  *)
(* and refetching.                                                         *)
THEOREM BegunWithinTerms == Spec => PaymentsWithinTerms
<1> DEFINE A == \A h \in Handlers \ outdated :
                  pc[h] = "pay" /\ pc'[h] = "paying" =>
                    Allows(connections[job[h].name], job[h])
<1>1. Init => TermsInv
  BY DEF Init, TermsInv
<1>2. Types /\ ServedAsPersisted /\ TermsInv /\ [Next]_vars => TermsInv'
  BY TermsStep
<1>3. TermsInv => [A]_vars
  BY DEF TermsInv, Allows
<1> QED
  BY <1>1, <1>2, <1>3, SpecTypes, CacheFollowsStorage, PTL
  DEF Spec, PaymentsWithinTerms
=============================================================================
