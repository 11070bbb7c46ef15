---------------------------- MODULE MCSafeStorage ----------------------------
(***************************************************************************)
(* SafeStorage with the closures of nip47/persist.rs over a store of one   *)
(* connection.  The small u64 (MAX_SAT in the .cfg) keeps Data finite.     *)
(***************************************************************************)
EXTENDS SafeStorage, Integers

CONSTANTS
  Names, SECONDS_PER_MINUTE, MIN_REFRESH_INTERVAL_SEC,
  REFRESH_INTERVAL_GRACE_PERIOD, U32, MAX_SAT,
  MaxNow   \* bound: the clock values a closure may read are 0 .. MaxNow

N == INSTANCE NwcConnections

TheName == CHOOSE n \in Names : TRUE

MCBudgets ==
  [used_budget_sat : 0 .. MAX_SAT, max_budget_sat : {MAX_SAT},
   renewal_time_sec : {1}, updated_at : 0 .. MaxNow]

MCConnections ==
  [secret : {<<TheName, 1>>}, created_at : {0}, receive_only : {FALSE},
   paid_amount_sat : 0 .. MAX_SAT, expiry_time_sec : {None, 1},
   periodic_budget : MCBudgets \cup {None}]

MCData == [Names -> MCConnections \cup {None}]

MCEmptyData == [n \in Names |-> None]

AddRequest ==
  [receive_only |-> None, expiry_time_mins |-> 1,
   periodic_budget_req |-> [max_budget_sat |-> MAX_SAT,
                            renewal_time_mins |-> 1]]

EditRequest ==
  [name |-> TheName, receive_only |-> FALSE,
   expiry_time_mins |-> None, remove_expiry |-> TRUE,
   periodic_budget_req |-> None, remove_periodic_budget |-> None]

MCOps == {"add", "edit", "remove", "refresh", "charge", "refund"}

MCOutcomes(o, d) ==
  CASE o = "add" -> {N!add_nwc_connection(d, TheName,
                         N!NewConnection(AddRequest, <<TheName, 1>>, 0))}
    [] o = "edit" -> {N!edit_nwc_connection(d, EditRequest, now) :
                         now \in 0 .. MaxNow}
    [] o = "remove" -> {N!remove_nwc_connection(d, TheName)}
    [] o = "refresh" -> {N!refresh_connections(d, now) : now \in 0 .. MaxNow}
    [] o = "charge" -> {N!update_budget(d, TheName, 1)}
    [] o = "refund" -> {N!update_budget(d, TheName, -1)}

MCResults ==
  {[tag |-> "Ok"], [tag |-> "ConnectionExists"],
   [tag |-> "ConnectionNotFound"], [tag |-> "Generic"]}
    \cup [deleted : SUBSET Names, refreshed : SUBSET Names]
=============================================================================
