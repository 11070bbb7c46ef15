-------------------------- MODULE ConnectionRegistry --------------------------
(***************************************************************************)
(* What the host may think its connections are: under each name, the terms *)
(* it last agreed to, which no one but the host changes and which end only *)
(* when the host removes them or their time is over.                       *)
(*                                                                         *)
(* NwcWallet keeps this promise while payments, refunds, renewals and the  *)
(* refresh rewrite the same stored map.                                    *)
(***************************************************************************)
EXTENDS Naturals

CONSTANTS
  Names,             \* connection names
  None,              \* no connection of the name
  AddRequests,       \* what the host asks of add_connection
  EditRequests,      \* what it may ask of edit_connection
  Agreed(_, _, _),   \* Agreed(req, id, at): the terms of a new connection
  Amended(_, _, _),  \* Amended(t, req, now): the terms t once edited
  Lapsed(_, _)       \* Lapsed(t, now): whether their time is over

VARIABLES
  now,    \* the clock
  terms,  \* terms[n]: the terms agreed under the name n, or None
  added   \* added[n]: how often the name n was added

vars == <<now, terms, added>>

Init ==
  /\ now = 0
  /\ terms = [n \in Names |-> None]
  /\ added = [n \in Names |-> 0]

Tick == now' = now + 1 /\ UNCHANGED <<terms, added>>

(* As of a moment that may have passed when the terms are recorded.        *)
Add(req) ==
  /\ terms[req.name] = None
  /\ \E at \in 0 .. now :
       terms' = [terms EXCEPT ![req.name] =
                   Agreed(req, <<req.name, added[req.name] + 1>>, at)]
  /\ added' = [added EXCEPT ![req.name] = @ + 1]
  /\ UNCHANGED now

Amend(req) ==
  /\ terms[req.name] # None
  /\ terms' = [terms EXCEPT ![req.name] = Amended(@, req, now)]
  /\ UNCHANGED <<now, added>>

Remove(n) ==
  /\ terms[n] # None
  /\ terms' = [terms EXCEPT ![n] = None]
  /\ UNCHANGED <<now, added>>

(* All that have lapsed go, and at once.                                   *)
Lapse ==
  /\ terms' = [n \in Names |->
                 IF terms[n] # None /\ Lapsed(terms[n], now) THEN None
                 ELSE terms[n]]
  /\ UNCHANGED <<now, added>>

Next ==
  \/ Tick
  \/ \E req \in AddRequests : Add(req)
  \/ \E req \in EditRequests : Amend(req)
  \/ \E n \in Names : Remove(n)
  \/ Lapse

Spec == Init /\ [][Next]_vars
=============================================================================
