----------------------------- MODULE SdkPayments -----------------------------
(***************************************************************************)
(* What the plugin does when the SDK reports a payment                     *)
(* (handlers/mod.rs, on_sdk_payment): the clients of the wallet are        *)
(* notified when it is complete, the receipt of its zap is broadcast when  *)
(* it is pending.  The SDK may report any payment in any state, several    *)
(* times and at the same time.                                             *)
(***************************************************************************)
EXTENDS ZapReceipts, PaymentNotifications

ASSUME SendersAssumption == Senders = Handlers

vars == <<zapVars, notifVars>>

Init == ZapInit /\ NotifInit

Idle(h) == zpc[h] = "idle" /\ h \notin reading

(* Each of the two handlers looks at the state of the payment by itself.   *)
on_sdk_payment(h) ==
  /\ Idle(h)
  /\ \/ StartNotifying(h) /\ UNCHANGED zapVars
     \/ /\ \E i \in Invoices : get_tracked_zap_raw(h, i)
        /\ UNCHANGED notifVars

HandlerStep(h) ==
  \/ ZapStep(h) /\ UNCHANGED notifVars
  \/ SendNotification(h) /\ UNCHANGED zapVars

(* The loop of the runtime whose cache this is.                            *)
LoopStep == (Resubscribing \/ RefreshCache) /\ UNCHANGED zapVars

(* What the host does, and the attach of this runtime or of a later one.   *)
HostStep ==
  \/ (\E i \in Invoices : track_zap(i)) /\ UNCHANGED notifVars
  \/ ChangeConnections /\ UNCHANGED zapVars
  \/ clean_expired_zaps /\ UNCHANGED notifVars

Next ==
  \/ ZapTick /\ UNCHANGED notifVars
  \/ HostStep
  \/ \E h \in Handlers : on_sdk_payment(h) \/ HandlerStep(h)
  \/ LoopStep
  \/ ZapCrash /\ NotifCrash

Spec == Init /\ [][Next]_vars

(* The loop runs on, and so does the task of an event that was reported.   *)
FairSpec ==
  /\ Spec
  /\ WF_vars(LoopStep)
  /\ \A h \in Handlers : WF_vars(HandlerStep(h))

-----------------------------------------------------------------------------
(* The types of the variables.                                             *)
TypeOK == ZapTypeOK /\ NotifTypeOK

(* The cache is brought up to date however many payments are reported:     *)
(* the tasks that read it while they send do not keep the loop out.        *)
CacheCatchesUp == writing ~> ~ writing
=============================================================================
