------------------------------ MODULE NwcClaims ------------------------------
(***************************************************************************)
(* What the documentation of the wallet service says of it and its code    *)
(* does not do.  Each property is violated by a run of its own.            *)
(***************************************************************************)
EXTENDS NwcWallet

(* nip47/model.rs:38, "The maximum budget amount allowed (in satoshi) for  *)
(* the period".  The budget is checked against `active_connections`, which *)
(* no charge ever updates: mod.rs:250-256, 311-316.                        *)
MaxBudgetRespected ==
  \A n \in Names :
    connections[n] # None /\ connections[n].periodic_budget # None =>
      connections[n].periodic_budget.used_budget_sat
        <= connections[n].periodic_budget.max_budget_sat

(* nip47/model.rs:94, "The timestamp at which the connection expires".     *)
(* on_interval deletes an expired connection from the storage and notifies *)
(* the host, but leaves it in `active_connections`: routines.rs:15-30.     *)
(* A request that arrives only then is still paid.                         *)
ExpiredPaysNothing ==
  [][\A h \in Handlers :
       /\ pc[h] = "idle" /\ pc'[h] = "verdict"
       /\ Verdict(job'[h].client, job'[h].req) \in {"Pay", "Charge"}
       =>
         [kind |-> "ConnectionExpired", connection_name |-> job'[h].name]
           \notin told]_vars

(* model.rs:14, of `listen_to_events`: "Recommended to set to             *)
(* `Some(false)` if you only need event handling".  handle_event looks the *)
(* client up in `active_connections`, which only the listener's loop ever  *)
(* fills: without it no client of a connection that is kept is known.      *)
HandleEventKnowsClients ==
  \A n \in Names : \A g \in 1 .. MaxHostCalls :
    Holds(n, g) ~> \/ ~ Holds(n, g)
                   \/ active[n] # None /\ active[n].secret = <<n, g>>
=============================================================================
