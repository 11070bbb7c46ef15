----------------------------- MODULE MCNwcWallet -----------------------------
(***************************************************************************)
(* Constants for the model checking of NwcWallet.                          *)
(***************************************************************************)
EXTENDS NwcClaims, TLC

CONSTANTS n1, i1, i2

Pay(i) == [method |-> "pay_invoice", invoice |-> i, amount |-> None]
Other(m) == [method |-> m, invoice |-> i1, amount |-> None]

(* Of 2 and 3 satoshi once rounded up.                                     *)
MCInvoiceMsat == (i1 :> 1500) @@ (i2 :> 3000)
OneInvoiceMsat == i1 :> 1500

Budget(max, mins) == [max_budget_sat |-> max, renewal_time_mins |-> mins]

Add(expiry, budget) ==
  [name |-> n1, receive_only |-> None, expiry_time_mins |-> expiry,
   periodic_budget_req |-> budget]

NoEdit ==
  [name |-> n1, receive_only |-> None, expiry_time_mins |-> None,
   remove_expiry |-> None, periodic_budget_req |-> None,
   remove_periodic_budget |-> None]
EditReceiveOnly == [NoEdit EXCEPT !.receive_only = TRUE]
EditExpiry == [NoEdit EXCEPT !.expiry_time_mins = 1]
EditBudget(b) == [NoEdit EXCEPT !.periodic_budget_req = b]

(* Invoice i1 without an amount, and i2 that cannot be parsed.             *)
OneAmountless == (i1 :> None) @@ (i2 :> 3000)
PayAmount(i, msat) == [Pay(i) EXCEPT !.amount = msat]

PayOne == {Pay(i1)}
PayBoth == {Pay(i1), Pay(i2)}
AnyRequest ==
  {Pay(i1), PayAmount(i1, 2001), Pay(i2), Other("make_invoice"),
   Other("unhandled")}

AddExpiring == {Add(1, None)}
AddRenewing == {Add(None, Budget(5, 1))}
AddTight == {Add(None, Budget(4, None))}
AddEither == {Add(2, None), Add(None, Budget(5, 1))}

NoEdits == {}
EditsOfTerms == {EditReceiveOnly, EditExpiry}
EditsOfSpending == {EditReceiveOnly, EditBudget(Budget(5, 1))}
AnyEdit == {EditReceiveOnly, EditExpiry, EditBudget(Budget(3, 2))}

(* Handlers differ in nothing but their names, and so do callers.          *)
HandlerSymmetry == Permutations(Handlers)
CallerSymmetry == Permutations(Callers)
=============================================================================
