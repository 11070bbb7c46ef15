------------------------ MODULE NwcConnections_proofs ------------------------
(***************************************************************************)
(* What the closures over the persisted connections preserve.              *)
(***************************************************************************)
EXTENDS NwcConnections, TLAPS, WellFoundedInduction

(* Requests, as the host may make them.                                    *)
AddReqs ==
  [name : Names, receive_only : BOOLEAN \cup {None},
   expiry_time_mins : Nat \cup {None},
   periodic_budget_req : BudgetRequests \cup {None}]
EditReqs ==
  [name : Names, receive_only : BOOLEAN \cup {None},
   expiry_time_mins : Nat \cup {None}, remove_expiry : BOOLEAN \cup {None},
   periodic_budget_req : BudgetRequests \cup {None},
   remove_periodic_budget : BOOLEAN \cup {None}]

LEMMA ModNat == ASSUME NEW x \in Nat PROVE x % U32 \in Nat
  BY NwcAssumption

LEMMA SecondsNat == ASSUME NEW m \in Nat PROVE mins_to_seconds(m) \in Nat
<1>1. m * SECONDS_PER_MINUTE \in Nat
  BY NwcAssumption
<1> QED
  BY <1>1, ModNat DEF mins_to_seconds

LEMMA SaturatingNat ==
  ASSUME NEW x \in Nat, NEW delta \in Int
  PROVE  SaturatingAddSigned(x, delta) \in Nat
  BY NwcAssumption DEF SaturatingAddSigned

(* Both counters move by the same amount, and saturate in the same way.    *)
LEMMA SaturatingMonotone ==
  ASSUME NEW x \in Nat, NEW y \in Nat, x <= y, NEW delta \in Int
  PROVE  SaturatingAddSigned(x, delta) <= SaturatingAddSigned(y, delta)
  BY NwcAssumption DEF SaturatingAddSigned

LEMMA BudgetType ==
  ASSUME NEW req \in BudgetRequests, NEW at \in Nat
  PROVE  from_budget_request(req, at) \in Budgets
  BY SecondsNat DEF BudgetRequests, from_budget_request, Budgets

LEMMA NewConnectionType ==
  ASSUME NEW req \in AddReqs, NEW secret \in Secrets, NEW now \in Nat
  PROVE  NewConnection(req, secret, now) \in Connections
  BY SecondsNat, BudgetType, NwcAssumption DEF AddReqs, NewConnection, Connections

LEMMA EditedType ==
  ASSUME NEW c \in Connections, NEW req \in EditReqs, NEW now \in Nat
  PROVE  Edited(c, req, now) \in Connections
  BY SecondsNat, BudgetType DEF EditReqs, Edited, Connections

LEMMA SpendType ==
  ASSUME NEW c \in Connections, NEW delta \in Int
  PROVE  Spend(c, delta) \in Connections
<1>1. SaturatingAddSigned(c.paid_amount_sat, delta) \in Nat
  BY SaturatingNat DEF Connections
<1>2. SpendBudget(c.periodic_budget, delta) \in Budgets \cup {None}
  BY SaturatingNat DEF Connections, Budgets, SpendBudget
<1> QED
  BY <1>1, <1>2 DEF Spend, Connections

LEMMA RenewedType ==
  ASSUME NEW c \in Connections, c.periodic_budget # None, NEW now \in Nat
  PROVE  Renewed(c, now) \in Connections
  BY DEF Renewed, Connections, Budgets
-----------------------------------------------------------------------------
LEMMA AddType ==
  ASSUME NEW s \in Stores, NEW n \in Names, NEW c \in Connections
  PROVE  add_nwc_connection(s, n, c).data \in Stores
  BY DEF add_nwc_connection, Stores, Changed, Unchanged, Rejected

LEMMA UpdateType ==
  ASSUME NEW s \in Stores, NEW n \in Names, NEW delta \in Int
  PROVE  update_budget(s, n, delta).data \in Stores
  BY SpendType DEF update_budget, Stores, Changed, Unchanged, Rejected

LEMMA EditType ==
  ASSUME NEW s \in Stores, NEW req \in EditReqs, NEW now \in Nat
  PROVE  edit_nwc_connection(s, req, now).data \in Stores
<1>1. req.name \in Names
  BY DEF EditReqs
<1>2. s[req.name] # None => Edited(s[req.name], req, now) \in Connections
  BY <1>1, EditedType DEF Stores
<1> QED
  BY <1>1, <1>2 DEF edit_nwc_connection, Stores, Changed, Unchanged, Rejected

LEMMA RemoveType ==
  ASSUME NEW s \in Stores, NEW n \in Names
  PROVE  remove_nwc_connection(s, n).data \in Stores
  BY DEF remove_nwc_connection, Stores, Changed, Unchanged, Rejected

(* A refresh deletes a connection, renews it, or leaves it alone.          *)
LEMMA RefreshEach ==
  ASSUME NEW s \in Stores, NEW now \in Nat, NEW n \in Names
  PROVE  LET c == refresh_connections(s, now).data[n]
         IN \/ c = s[n]
            \/ c = None /\ s[n] # None /\ Expired(s[n], now)
            \/ /\ s[n] # None /\ s[n].periodic_budget # None
               /\ c = Renewed(s[n], now)
  BY DEF refresh_connections, RenewalDue

LEMMA RefreshType ==
  ASSUME NEW s \in Stores, NEW now \in Nat
  PROVE  /\ refresh_connections(s, now).data \in Stores
         /\ refresh_connections(s, now).res
              \in [deleted : SUBSET Names, refreshed : SUBSET Names]
<1>1. \A n \in Names :
        refresh_connections(s, now).data[n] \in Connections \cup {None}
  BY RefreshEach, RenewedType DEF Stores
<1>2. refresh_connections(s, now).data
        = [n \in Names |-> refresh_connections(s, now).data[n]]
  BY DEF refresh_connections
<1>3. refresh_connections(s, now).data \in Stores
  BY <1>1, <1>2 DEF Stores
<1> QED
  BY <1>3 DEF refresh_connections

(* The least duration exists, and the timer's period is that of it.        *)
LEMMA DurationsNat == ASSUME NEW s \in Stores PROVE Durations(s) \subseteq Nat
  BY DEF Durations, Stores, Connections, Budgets

LEMMA MinInterval ==
  ASSUME NEW s \in Stores
  PROVE  LET p == get_min_interval(s)
         IN /\ Durations(s) = {} => p = None
            /\ Durations(s) # {} => p \in Nat
            /\ \A d \in Durations(s) : p <= Interval(d)
<1> DEFINE ds == Durations(s)
<1>1. ds \subseteq Nat
  BY DurationsNat
<1>2. CASE ds = {}
  BY <1>2 DEF get_min_interval
<1>3. CASE ds # {}
  <2>1. \E d \in ds : \A e \in ds : d <= e
    <3> DEFINE R == OpToRel(<, Nat)
    <3>1. \A d, e \in Nat : <<e, d>> \notin R => d <= e
      BY DEF OpToRel
    <3>2. IsWellFoundedOn(R, Nat)
      BY NatLessThanWellFounded
    <3> HIDE DEF R, ds
    <3>3. PICK d \in ds : \A e \in ds : <<e, d>> \notin R
      BY <1>1, <1>3, <3>2, WFMin
    <3> QED
      BY <1>1, <3>1, <3>3
  <2> DEFINE least == CHOOSE d \in ds : \A e \in ds : d <= e
  <2>2. least \in ds /\ \A e \in ds : least <= e
    BY <2>1
  <2>3. get_min_interval(s) = Interval(least)
    BY <1>3 DEF get_min_interval
  <2> HIDE DEF least, ds
  <2>4. \A d \in Nat : Interval(d) \in Nat
    BY NwcAssumption DEF Interval
  <2>5. \A d \in ds : Interval(least) <= Interval(d)
    BY <1>1, <2>2, NwcAssumption DEF Interval
  <2> QED
    BY <1>1, <1>3, <2>2, <2>3, <2>4, <2>5 DEF ds
<1> QED
  BY <1>2, <1>3

-----------------------------------------------------------------------------
(* What is in use of the budget is part of what the connection has paid.   *)
UsedWithin(c) ==
  c.periodic_budget # None =>
    c.periodic_budget.used_budget_sat <= c.paid_amount_sat

LEMMA NewUsedWithin ==
  ASSUME NEW req \in AddReqs, NEW secret \in Secrets, NEW now \in Nat
  PROVE  UsedWithin(NewConnection(req, secret, now))
  BY DEF UsedWithin, NewConnection, from_budget_request

LEMMA EditedUsedWithin ==
  ASSUME NEW c \in Connections, UsedWithin(c), NEW req \in EditReqs,
         NEW now \in Nat
  PROVE  UsedWithin(Edited(c, req, now))
  BY DEF UsedWithin, Edited, from_budget_request, Connections, Budgets

LEMMA SpendUsedWithin ==
  ASSUME NEW c \in Connections, UsedWithin(c), NEW delta \in Int
  PROVE  UsedWithin(Spend(c, delta))
  BY SaturatingMonotone, SaturatingNat
  DEF UsedWithin, Spend, SpendBudget, Connections, Budgets

LEMMA RenewedUsedWithin ==
  ASSUME NEW c \in Connections, NEW now \in Nat, c.periodic_budget # None
  PROVE  UsedWithin(Renewed(c, now))
<1>1. c.periodic_budget \in Budgets /\ c.paid_amount_sat \in Nat
  BY DEF Connections
<1>2. /\ Renewed(c, now).periodic_budget.used_budget_sat = 0
      /\ Renewed(c, now).paid_amount_sat = c.paid_amount_sat
  BY <1>1 DEF Renewed, Connections, Budgets
<1> QED
  BY <1>1, <1>2 DEF UsedWithin
=============================================================================
