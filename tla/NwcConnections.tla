---------------------------- MODULE NwcConnections ----------------------------
(***************************************************************************)
(* The Nostr Wallet Connect connections as they are persisted, and the     *)
(* closures `Persister` applies to them (nip47/persist.rs).                *)
(*                                                                         *)
(* A store is a function from connection names to connections, None for a  *)
(* name that is not a key of the map.  Each closure answers with an        *)
(* outcome: whether the store changed, the store, and the result.          *)
(***************************************************************************)
EXTENDS Integers

CONSTANTS
  Names,                        \* connection names
  None,                         \* Rust's Option::None
  SECONDS_PER_MINUTE,           \* 60 in the code
  MIN_REFRESH_INTERVAL_SEC,     \* 60 in the code
  REFRESH_INTERVAL_GRACE_PERIOD,\* 3 in the code
  U32,                          \* 2^32: seconds are u32 and wrap
  MAX_SAT                       \* u64::MAX: amounts are u64 and saturate

ASSUME NwcAssumption ==
  /\ SECONDS_PER_MINUTE \in Nat \ {0}
  /\ MIN_REFRESH_INTERVAL_SEC \in Nat
  /\ REFRESH_INTERVAL_GRACE_PERIOD \in Nat
  /\ U32 \in Nat \ {0}
  /\ MAX_SAT \in Nat
  /\ None \notin Nat
  /\ None \notin BOOLEAN

(* The random secret in `connection_string`, which determines the client's *)
(* public key: the n-th connection added under a name has its own.         *)
Secrets == Names \X Nat

Budgets ==
  [used_budget_sat : Nat, max_budget_sat : Nat,
   renewal_time_sec : Nat \cup {None}, updated_at : Nat]

Connections ==
  [secret : Secrets, created_at : Nat, receive_only : BOOLEAN,
   paid_amount_sat : Nat, expiry_time_sec : Nat \cup {None},
   periodic_budget : Budgets \cup {None}]

ASSUME NoneAssumption ==
  None \notin Budgets /\ None \notin Connections /\ None \notin Secrets

Stores == [Names -> Connections \cup {None}]

BudgetRequests == [max_budget_sat : Nat, renewal_time_mins : Nat \cup {None}]

-----------------------------------------------------------------------------
(* u32 multiplication and addition, as a release build computes them.      *)
mins_to_seconds(mins) == (mins * SECONDS_PER_MINUTE) % U32
AddSeconds(at, secs) == (at + secs) % U32

(* Mutant: i64 addition.                                                   *)
AddSigned(x, delta) == x + delta

(* u64::saturating_add_signed                                              *)
SaturatingAddSigned(x, delta) ==
  IF x + delta < 0 THEN 0
  ELSE IF x + delta > MAX_SAT THEN MAX_SAT
  ELSE x + delta

from_budget_request(req, at) ==
  [used_budget_sat |-> 0,
   max_budget_sat |-> req.max_budget_sat,
   renewal_time_sec |-> IF req.renewal_time_mins = None THEN None
                        ELSE mins_to_seconds(req.renewal_time_mins),
   updated_at |-> at]

(* The connection `add_connection` builds from a request.                  *)
NewConnection(req, secret, now) ==
  [secret |-> secret,
   created_at |-> now,
   receive_only |-> req.receive_only = TRUE,
   paid_amount_sat |-> 0,
   expiry_time_sec |-> IF req.expiry_time_mins = None THEN None
                       ELSE mins_to_seconds(req.expiry_time_mins),
   periodic_budget |-> IF req.periodic_budget_req = None THEN None
                       ELSE from_budget_request(req.periodic_budget_req, now)]

-----------------------------------------------------------------------------
Changed(store, r) == [changed |-> TRUE, data |-> store, res |-> r]
Unchanged(store, r) == [changed |-> FALSE, data |-> store, res |-> r]
Rejected(store, e) == Unchanged(store, [tag |-> e])
Ok == [tag |-> "Ok"]

add_nwc_connection(store, name, connection) ==
  IF store[name] # None THEN Rejected(store, "ConnectionExists")
  ELSE Changed([store EXCEPT ![name] = connection], Ok)

(* What update_budget does to the connection it finds.                     *)
SpendBudget(b, delta) ==
  IF b = None THEN None
  ELSE [b EXCEPT !.used_budget_sat = SaturatingAddSigned(@, delta)]

(* Mutant: a refund is of the total only, not of the budget.               *)
SpendOnce(c, delta) ==
  [c EXCEPT !.paid_amount_sat = SaturatingAddSigned(@, delta),
            !.periodic_budget = IF delta < 0 THEN @ ELSE SpendBudget(@, delta)]

Spend(c, delta) ==
  [c EXCEPT !.paid_amount_sat = SaturatingAddSigned(@, delta),
            !.periodic_budget = SpendBudget(@, delta)]

update_budget(store, name, delta) ==
  IF store[name] = None THEN Rejected(store, "ConnectionNotFound")
  ELSE Changed([store EXCEPT ![name] = Spend(@, delta)], Ok)

(* The fields of c after an edit whose options do not contradict.          *)
Edited(c, req, now) ==
  [c EXCEPT
    !.receive_only = IF req.receive_only = None THEN @ ELSE req.receive_only,
    !.expiry_time_sec =
       IF req.expiry_time_mins # None THEN mins_to_seconds(req.expiry_time_mins)
       ELSE IF req.remove_expiry = TRUE THEN None ELSE @,
    !.periodic_budget =
       IF req.periodic_budget_req # None
       THEN from_budget_request(req.periodic_budget_req, now)
       ELSE IF req.remove_periodic_budget = TRUE THEN None ELSE @]

(* To set something and to say whether to remove it is rejected.           *)
Contradictory(req) ==
  \/ req.expiry_time_mins # None /\ req.remove_expiry # None
  \/ req.periodic_budget_req # None /\ req.remove_periodic_budget # None

edit_nwc_connection(store, req, now) ==
  IF store[req.name] = None THEN Rejected(store, "ConnectionNotFound")
  ELSE IF Contradictory(req) THEN Rejected(store, "Generic")
  ELSE Changed([store EXCEPT ![req.name] = Edited(@, req, now)], Ok)

remove_nwc_connection(store, name) ==
  IF store[name] = None THEN Rejected(store, "ConnectionNotFound")
  ELSE Changed([store EXCEPT ![name] = None], Ok)

-----------------------------------------------------------------------------
Expired(c, now) ==
  /\ c.expiry_time_sec # None
  /\ now >= AddSeconds(c.created_at, c.expiry_time_sec)

(* The test of the refresh on the budget of a connection it keeps.         *)
RenewalDue(c, now) ==
  /\ ~ Expired(c, now)
  /\ c.periodic_budget # None
  /\ c.periodic_budget.renewal_time_sec # None
  /\ now >= AddSeconds(c.periodic_budget.updated_at,
                       c.periodic_budget.renewal_time_sec)

Renewed(c, now) ==
  [c EXCEPT !.periodic_budget =
              [@ EXCEPT !.used_budget_sat = 0, !.updated_at = now]]

refresh_connections(store, now) ==
  LET deleted == {n \in Names : store[n] # None /\ Expired(store[n], now)}
      refreshed == {n \in Names : store[n] # None /\ RenewalDue(store[n], now)}
  IN [changed |-> deleted \cup refreshed # {},
      data |-> [n \in Names |->
                  IF n \in deleted THEN None
                  ELSE IF n \in refreshed THEN Renewed(store[n], now)
                  ELSE store[n]],
      res |-> [deleted |-> deleted, refreshed |-> refreshed]]

(* Mutant: only renewals are looked for.                                   *)
RenewalDurations(store) ==
  LET budgets == {store[n].periodic_budget :
                    n \in {m \in Names : store[m] # None}} \ {None}
  IN {b.renewal_time_sec : b \in budgets} \ {None, U32 - 1}

(* The durations get_min_interval takes the least of: its search starts    *)
(* from u32::MAX and looks for something less.                             *)
Durations(store) ==
  LET present == {store[n] : n \in Names} \ {None}
      budgets == {c.periodic_budget : c \in present} \ {None}
  IN ({c.expiry_time_sec : c \in present}
       \cup {b.renewal_time_sec : b \in budgets}) \ {None, U32 - 1}

(* The timer's period for a least duration d.                              *)
Interval(d) ==
  REFRESH_INTERVAL_GRACE_PERIOD
    + (IF d < MIN_REFRESH_INTERVAL_SEC THEN MIN_REFRESH_INTERVAL_SEC ELSE d)

(* The period of the refresh timer, None if nothing ever expires or renews.*)
get_min_interval(store) ==
  LET ds == Durations(store)
  IN IF ds = {} THEN None
     ELSE Interval(CHOOSE d \in ds : \A e \in ds : d <= e)
=============================================================================
