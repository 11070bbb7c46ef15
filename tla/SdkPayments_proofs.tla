------------------------- MODULE SdkPayments_proofs --------------------------
(***************************************************************************)
(* Proofs about SdkPayments: what becomes of a tracked zap, for any number *)
(* of invoices and of tasks, and of a notification under way.              *)
(***************************************************************************)
EXTENDS SdkPayments, TLAPS

(* A task that makes a receipt has one, which it has sent by the time it   *)
(* removes the zap.                                                        *)
ReceiptInv ==
  \A h \in Handlers :
    /\ zpc[h] # "idle" => receipt[h] \in Receipts
    /\ zpc[h] \in {"remove", "notify"} => Sent(receipt[h])

(* Whoever has sent a receipt, or is about to, does it for a zap that was  *)
(* tracked under a name the SDK resolves to the one in the receipt.        *)
Tracked(i) == \E j \in Invoices : bolt11[j] = i /\ tracks[j] > 0

TrackInv ==
  /\ \A i \in Invoices : zaps[i] # None => tracks[i] > 0
  /\ \A h \in Handlers :
       /\ zpc[h] = "parse" => tracks[receipt[h].for] > 0
       /\ zpc[h] \in {"send", "remove", "notify"} => Tracked(receipt[h].for)
  /\ \A s \in sent : Tracked(s.receipt.for)

(* A zap that was tracked once is gone when its task comes to tell of it.  *)
NotifyInv ==
  \A h \in Handlers :
    zpc[h] = "notify" /\ TrackedOnce(receipt[h].for) /\ zfaults = 0 =>
      zaps[receipt[h].for] = None

(* A task that has receipted a zap tracked once is about to remove it, or  *)
(* the zap is gone and the task has no other lookup of it in hand.         *)
OnceInv ==
  \A h \in Handlers, i \in Invoices :
    zfaults = 0 /\ TrackedOnce(i) /\ HasReceipted(h, i) =>
      \/ zpc[h] = "remove" /\ receipt[h].for = i
      \/ /\ zaps[i] = None
         /\ ~ (zpc[h] = "parse" /\ bolt11[receipt[h].for] = i)
         /\ ~ (zpc[h] = "send" /\ receipt[h].for = i)

ZapInv ==
  /\ ZapTypeOK /\ ReceiptInv /\ TrackInv /\ OnceInv /\ NotifyInv
  /\ AnnouncedIsReceipted

(* Only who holds the read lock has events to send.                        *)
NotifInv ==
  /\ NotifTypeOK
  /\ \A h \in Senders \ reading : unsent[h] = {}
  /\ DroppedHearsNothing

-----------------------------------------------------------------------------
LEMMA ZapSteps ==
  ASSUME Next
  PROVE  \/ UNCHANGED zapVars
         \/ ZapTick \/ clean_expired_zaps \/ ZapCrash
         \/ \E i \in Invoices : track_zap(i)
         \/ \E h \in Handlers, i \in Invoices :
              zpc[h] = "idle" /\ get_tracked_zap_raw(h, i)
         \/ \E h \in Handlers : ZapStep(h)
  BY DEF Next, HostStep, LoopStep, on_sdk_payment, Idle, HandlerStep

LEMMA NotifSteps ==
  ASSUME Next
  PROVE  \/ UNCHANGED notifVars
         \/ ChangeConnections \/ Resubscribing \/ RefreshCache \/ NotifCrash
         \/ \E h \in Senders : StartNotifying(h) \/ SendNotification(h)
  BY SendersAssumption
  DEF Next, HostStep, LoopStep, on_sdk_payment, HandlerStep

LEMMA NotifPreserved ==
  ASSUME NotifInv, Next \/ UNCHANGED vars PROVE NotifInv'
<1> USE DEF NotifInv, NotifTypeOK, DroppedHearsNothing
<1>1. ASSUME UNCHANGED notifVars PROVE NotifInv'
  BY <1>1 DEF notifVars
<1>2. ASSUME ChangeConnections PROVE NotifInv'
  BY <1>2 DEF ChangeConnections
<1>3. ASSUME Resubscribing PROVE NotifInv'
  BY <1>3 DEF Resubscribing
<1>4. ASSUME RefreshCache PROVE NotifInv'
  BY <1>4 DEF RefreshCache, CacheWriteLock
<1>5. ASSUME NotifCrash PROVE NotifInv'
  BY <1>5 DEF NotifCrash
<1>6. ASSUME NEW h \in Senders, StartNotifying(h) PROVE NotifInv'
  BY <1>6 DEF StartNotifying, TakeReadLock
<1>7. ASSUME NEW h \in Senders, SendNotification(h) PROVE NotifInv'
  BY <1>7 DEF SendNotification
<1> QED
  BY <1>1, <1>2, <1>3, <1>4, <1>5, <1>6, <1>7, NotifSteps DEF vars

LEMMA InitNotif == Init => NotifInv
  BY DEF Init, NotifInit, NotifInv, NotifTypeOK, DroppedHearsNothing

-----------------------------------------------------------------------------
(* What was receipted was tracked, under its own name if it was but once;  *)
(* no other name of it is tracked then.                                    *)
LEMMA OnceTracked ==
  ASSUME ZapInv, NEW i \in Invoices, TrackedOnce(i), Tracked(i)
  PROVE  /\ bolt11[i] = i /\ tracks[i] > 0
         /\ \A j \in Invoices : bolt11[j] = i /\ tracks[j] > 0 => j = i
<1>1. PICK j \in Invoices : bolt11[j] = i /\ tracks[j] > 0
  BY DEF Tracked
<1>2. \A k \in Invoices : bolt11[k] = i /\ tracks[k] > 0 => k = i
  BY DEF TrackedOnce
<1> QED
  BY <1>1, <1>2

LEMMA ZapPreserved ==
  ASSUME ZapInv, Next \/ UNCHANGED vars PROVE ZapInv'
<1> USE ZapAssumption, ZapNoneAssumption
    DEF ZapInv, ZapTypeOK, ReceiptInv, TrackInv, OnceInv, NotifyInv,
        AnnouncedIsReceipted, Tracked, TrackedOnce, Sent, HasReceipted
<1>1. ASSUME UNCHANGED zapVars PROVE ZapInv'
  BY <1>1 DEF zapVars
<1>2. ASSUME ZapTick PROVE ZapInv'
  <2>1. ZapTypeOK' /\ ReceiptInv' /\ TrackInv' /\ OnceInv'
    BY <1>2 DEF ZapTick
  <2>2. NotifyInv' /\ AnnouncedIsReceipted'
    BY <1>2 DEF ZapTick
  <2> QED
    BY <2>1, <2>2
<1>3. ASSUME clean_expired_zaps PROVE ZapInv'
  <2>1. ZapTypeOK' /\ ReceiptInv' /\ TrackInv' /\ OnceInv'
    BY <1>3 DEF clean_expired_zaps, ZapExpired, TrackedZap
  <2>2. NotifyInv' /\ AnnouncedIsReceipted'
    BY <1>3 DEF clean_expired_zaps
  <2> QED
    BY <2>1, <2>2
<1>4. ASSUME ZapCrash PROVE ZapInv'
  <2>1. ZapTypeOK' /\ ReceiptInv' /\ TrackInv' /\ OnceInv'
    BY <1>4 DEF ZapCrash, ZapFault
  <2>2. NotifyInv' /\ AnnouncedIsReceipted'
    BY <1>4 DEF ZapCrash, ZapFault
  <2> QED
    BY <2>1, <2>2
<1>5. ASSUME NEW i \in Invoices, track_zap(i) PROVE ZapInv'
  <2>1. ZapTypeOK' /\ ReceiptInv' /\ TrackInv' /\ OnceInv'
    <3>1. PICK z \in TrackedZap :
            zaps' = [zaps EXCEPT ![i] = z] /\ z.expires_at > now
      <4>1. PICK r \in ZapRequests :
              zaps' = [zaps EXCEPT ![i] =
                         [zap_request |-> r,
                          expires_at |-> now + ZAP_TRACKING_EXPIRY_SEC]]
        BY <1>5 DEF track_zap
      <4>2. now + ZAP_TRACKING_EXPIRY_SEC \in Nat
            /\ now + ZAP_TRACKING_EXPIRY_SEC > now
        OBVIOUS
      <4>3. [zap_request |-> r,
             expires_at |-> now + ZAP_TRACKING_EXPIRY_SEC] \in TrackedZap
        BY <4>2 DEF TrackedZap
      <4> QED
        BY ONLY <4>1, <4>2, <4>3
    <3>2. /\ tracks' = [tracks EXCEPT ![i] = @ + 1]
          /\ UNCHANGED <<now, zpc, receipt, sent, announced, zfaults>>
      BY <1>5 DEF track_zap
    <3>3. ZapTypeOK' /\ ReceiptInv'
      BY <3>1, <3>2
    <3>4. TrackInv'
      <4>1. \A j \in Invoices : /\ tracks[j] > 0 => tracks'[j] > 0
                                /\ zaps'[j] # None => tracks'[j] > 0
        BY <3>1, <3>2
      <4> QED
        BY <3>2, <4>1 DEF Receipts
    <3>5. OnceInv'
      <4> SUFFICES ASSUME NEW g \in Handlers, NEW j \in Invoices,
                          zfaults' = 0, TrackedOnce(j)', HasReceipted(g, j)'
                   PROVE  \/ zpc'[g] = "remove" /\ receipt'[g].for = j
                          \/ /\ zaps'[j] = None
                             /\ ~ (/\ zpc'[g] = "parse"
                                   /\ bolt11[receipt'[g].for] = j)
                             /\ ~ (zpc'[g] = "send" /\ receipt'[g].for = j)
        OBVIOUS
      <4>1. HasReceipted(g, j) /\ Tracked(j)
        BY <3>2
      <4>2. TrackedOnce(j) /\ i # j
        BY <3>2, <4>1
      <4> QED
        BY <3>1, <3>2, <4>1, <4>2
    <3> QED
      BY <3>3, <3>4, <3>5
  <2>2. NotifyInv' /\ AnnouncedIsReceipted'
    BY <1>5 DEF track_zap, Receipts
  <2> QED
    BY <2>1, <2>2
<1>6. ASSUME NEW h \in Handlers, NEW i \in Invoices, zpc[h] = "idle",
             get_tracked_zap_raw(h, i)
      PROVE  ZapInv'
  <2>1. /\ zaps[i] # None /\ zpc' = [zpc EXCEPT ![h] = "parse"]
        /\ receipt' = [receipt EXCEPT ![h] =
                         [for |-> i, request |-> zaps[i].zap_request]]
        /\ UNCHANGED <<now, zaps, sent, announced, tracks, zfaults>>
    BY <1>6 DEF get_tracked_zap_raw
  <2>2. [for |-> i, request |-> zaps[i].zap_request] \in Receipts
    BY <2>1 DEF Receipts, TrackedZap
  <2>3. ZapTypeOK' /\ ReceiptInv'
    BY <2>1, <2>2
  <2>4. TrackInv' /\ NotifyInv'
    BY <2>1
  <2>5. AnnouncedIsReceipted'
    BY <1>6, <2>1
  <2>6. OnceInv'
    <3> SUFFICES ASSUME NEW g \in Handlers, NEW j \in Invoices,
                        zfaults' = 0, TrackedOnce(j)', HasReceipted(g, j)'
                 PROVE  \/ zpc'[g] = "remove" /\ receipt'[g].for = j
                        \/ /\ zaps'[j] = None
                           /\ ~ (/\ zpc'[g] = "parse"
                                 /\ bolt11[receipt'[g].for] = j)
                           /\ ~ (zpc'[g] = "send" /\ receipt'[g].for = j)
      OBVIOUS
    <3>1. HasReceipted(g, j) /\ Tracked(j) /\ TrackedOnce(j) /\ zfaults = 0
      BY <2>1
    <3>2. bolt11[j] = j /\ (bolt11[i] = j => i = j)
      BY <2>1, <3>1, OnceTracked
    <3>3. g = h => zaps[j] = None
      BY <1>6, <3>1
    <3> QED
      BY <2>1, <3>1, <3>2, <3>3
  <2> QED
    BY <2>3, <2>4, <2>5, <2>6
<1>7. ASSUME NEW h \in Handlers, BuildReceipt(h) PROVE ZapInv'
  <2>1. PICK r \in Receipts \cup {None}, l \in {"send", "idle"} :
          /\ zpc[h] = "parse" /\ zpc' = [zpc EXCEPT ![h] = l]
          /\ receipt' = [receipt EXCEPT ![h] = r]
          /\ l = "send" => r \in Receipts /\ r.for = bolt11[receipt[h].for]
    BY <1>7 DEF BuildReceipt, ZapDone, Receipts
  <2>2. UNCHANGED <<now, zaps, sent, announced, tracks, zfaults>>
    BY <1>7 DEF BuildReceipt
  <2>3. receipt[h] \in Receipts
    BY <2>1
  <2>4. ZapTypeOK' /\ ReceiptInv'
    BY <2>1, <2>2
  <2>5. TrackInv' /\ NotifyInv' /\ OnceInv'
    BY <2>1, <2>2, <2>3 DEF Receipts
  <2>6. AnnouncedIsReceipted'
    BY <2>1, <2>2
  <2> QED
    BY <2>4, <2>5, <2>6
<1>8. ASSUME NEW h \in Handlers, SendReceipt(h) PROVE ZapInv'
  <2>1. CASE ZapDone(h) /\ UNCHANGED sent /\ zfaults' = zfaults + 1
    BY <1>8, <2>1 DEF SendReceipt, ZapDone
  <2>2. CASE /\ sent' = sent \cup {[by |-> h, receipt |-> receipt[h]]}
             /\ zpc' = [zpc EXCEPT ![h] = "remove"]
             /\ UNCHANGED <<receipt, zfaults>>
    <3>1. zpc[h] = "send" /\ receipt[h] \in Receipts
          /\ UNCHANGED <<now, zaps, announced, tracks>>
      BY <1>8 DEF SendReceipt
    <3>2. [by |-> h, receipt |-> receipt[h]]
            \in [by : Handlers, receipt : Receipts]
      BY <3>1
    <3>3. \A s \in sent' :
            s \in sent \/ (s.receipt = receipt[h] /\ s.by = h)
      BY <2>2
    <3>4. \A r : Sent(r) => Sent(r)'
      BY <2>2
    <3>5. Sent(receipt[h])'
      <4>1. [by |-> h, receipt |-> receipt[h]] \in sent'
            /\ receipt'[h] = receipt[h]
        BY <2>2
      <4>2. [by |-> h, receipt |-> receipt[h]].receipt = receipt[h]
        OBVIOUS
      <4> QED
        BY <4>1, <4>2
    <3>6. ZapTypeOK'
      BY <2>2, <3>1, <3>2
    <3>7. ReceiptInv'
      BY <2>2, <3>1, <3>4, <3>5
    <3>8. TrackInv'
      BY <2>2, <3>1, <3>3
    <3>9. NotifyInv' /\ AnnouncedIsReceipted'
      BY <2>2, <3>1
    <3>10. OnceInv'
      <4>1. \A g \in Handlers, j \in Invoices :
              HasReceipted(g, j)' =>
                HasReceipted(g, j) \/ (g = h /\ receipt[h].for = j)
        BY <3>3
      <4> QED
        BY <2>2, <3>1, <4>1
    <3> QED
      BY <3>6, <3>7, <3>8, <3>9, <3>10
  <2> QED
    BY <1>8, <2>1, <2>2 DEF SendReceipt, ZapFault
<1>9. ASSUME NEW h \in Handlers, remove_tracked_zap(h) PROVE ZapInv'
  BY <1>9 DEF remove_tracked_zap, ZapFault, Receipts
<1>10. ASSUME NEW h \in Handlers, AnnounceZap(h) PROVE ZapInv'
  <2>1. /\ zpc[h] = "notify" /\ zpc' = [zpc EXCEPT ![h] = "idle"]
        /\ receipt[h] \in Receipts /\ receipt' = [receipt EXCEPT ![h] = None]
        /\ announced' = announced \cup {receipt[h].for}
        /\ UNCHANGED <<now, zaps, sent, tracks, zfaults>>
    BY <1>10 DEF AnnounceZap, ZapDone
  <2>2. receipt[h].for \in Invoices
    BY <2>1 DEF Receipts
  <2>3. ZapTypeOK' /\ ReceiptInv'
    BY <2>1, <2>2
  <2>4. TrackInv' /\ NotifyInv' /\ OnceInv'
    BY <2>1
  <2>5. AnnouncedIsReceipted'
    BY <2>1
  <2> QED
    BY <2>3, <2>4, <2>5
<1> QED
  BY <1>1, <1>2, <1>3, <1>4, <1>5, <1>6, <1>7, <1>8, <1>9, <1>10, ZapSteps
  DEF vars, ZapStep

LEMMA InitZap == Init => ZapInv
<1> SUFFICES ASSUME Init PROVE ZapInv
  OBVIOUS
<1> USE ZapAssumption, ZapNoneAssumption DEF Init, ZapInit
<1>1. ZapTypeOK
  BY DEF ZapTypeOK
<1>2. ReceiptInv /\ TrackInv /\ NotifyInv /\ OnceInv
  BY DEF ReceiptInv, TrackInv, OnceInv, HasReceipted, NotifyInv
<1>3. AnnouncedIsReceipted
  BY DEF AnnouncedIsReceipted
<1> QED
  BY <1>1, <1>2, <1>3 DEF ZapInv

(* Every variable keeps its type.                                          *)
THEOREM SdkPaymentsTypes == Spec => []TypeOK
<1>1. ZapInv /\ NotifInv /\ [Next]_vars => ZapInv' /\ NotifInv'
  BY ZapPreserved, NotifPreserved
<1>2. ZapInv /\ NotifInv => TypeOK
  BY DEF ZapInv, NotifInv, TypeOK
<1> QED
  BY <1>1, <1>2, InitZap, InitNotif, PTL DEF Spec

(* The host hears only of zaps that were receipted and untracked.          *)
THEOREM AnnouncementsFollow == Spec => []AnnouncedIsReceipted
<1>1. ZapInv /\ [Next]_vars => ZapInv'
  BY ZapPreserved
<1> QED
  BY <1>1, InitZap, PTL DEF Spec, ZapInv

(* A client that was dropped from the cache is told nothing more.          *)
THEOREM DroppedIsSilent == Spec => []DroppedHearsNothing
<1>1. NotifInv /\ [Next]_vars => NotifInv'
  BY NotifPreserved
<1> QED
  BY <1>1, InitNotif, PTL DEF Spec, NotifInv

-----------------------------------------------------------------------------
LEMMA ForgetStep ==
  ASSUME ZapInv, Next, NEW i \in Invoices, zaps[i] # None, zaps'[i] = None
  PROVE  \/ ZapExpired(zaps[i], now)
         \/ Sent([for |-> i, request |-> zaps[i].zap_request])
         \/ \E h \in Handlers :
              /\ zpc[h] = "remove" /\ receipt[h].for = i
              /\ receipt[h].request # zaps[i].zap_request
              /\ Sent(receipt[h])
<1> USE ZapNoneAssumption DEF ZapInv, ZapTypeOK
<1>1. ASSUME NEW j \in Invoices, track_zap(j) PROVE FALSE
  <2>1. zaps' \in [Invoices -> TrackedZap \cup {None}]
        /\ (i = j => zaps'[i] \in TrackedZap)
    BY <1>1, ZapAssumption DEF track_zap, TrackedZap
  <2> QED
    BY <1>1, <2>1 DEF track_zap
<1>2. CASE clean_expired_zaps
  <2>1. PICK at \in 0 .. now : ZapExpired(zaps[i], at)
    BY <1>2 DEF clean_expired_zaps
  <2>2. zaps[i].expires_at \in Nat /\ now \in Nat
    BY DEF TrackedZap
  <2> QED
    BY <2>1, <2>2 DEF ZapExpired
<1>3. ASSUME NEW h \in Handlers, remove_tracked_zap(h)
      PROVE  /\ zpc[h] = "remove" /\ Sent(receipt[h])
             /\ receipt[h].for = i /\ receipt[h] \in Receipts
  BY <1>3 DEF remove_tracked_zap, ReceiptInv
<1>4. CASE \E h \in Handlers : remove_tracked_zap(h)
  BY <1>3, <1>4 DEF Receipts
<1>5. UNCHANGED zaps \/ clean_expired_zaps
        \/ (\E j \in Invoices : track_zap(j))
        \/ \E h \in Handlers : remove_tracked_zap(h)
  BY ZapSteps
  DEF zapVars, ZapTick, ZapCrash, get_tracked_zap_raw, ZapStep, BuildReceipt,
      SendReceipt, AnnounceZap
<1> QED
  BY <1>1, <1>2, <1>4, <1>5

LEMMA SendStep ==
  ASSUME ZapInv, NEW h \in Handlers, zpc[h] = "send", zfaults = 0,
         TrackedOnce(receipt[h].for)
  PROVE  ~ HasReceipted(h, receipt[h].for)
  BY DEF ZapInv, OnceInv, ReceiptInv, Receipts

(* Once a task has sent the receipt of a zap tracked once, every later     *)
(* lookup of its own finds the zap gone.                                   *)
THEOREM OneReceiptEach == Spec => OneReceiptPerTask
<1>1. ZapInv /\ [Next]_vars => ZapInv'
  BY ZapPreserved
<1>2. ZapInv /\ [Next]_vars =>
        [\A h \in Handlers :
           /\ zpc[h] = "send" /\ zpc'[h] = "remove"
           /\ zfaults = 0 /\ TrackedOnce(receipt[h].for)
           => ~ HasReceipted(h, receipt[h].for)]_zapVars
  BY SendStep
<1> QED
  BY <1>1, <1>2, InitZap, PTL DEF Spec, OneReceiptPerTask

(* A zap that has not expired is not lost before its receipt is out.       *)
THEOREM ReceiptBeforeForgetting == Spec => ForgottenOnlyIfReceipted
<1>1. ZapInv /\ [Next]_vars => ZapInv'
  BY ZapPreserved
<1>2. ZapInv /\ [Next]_vars =>
        [\A i \in Invoices :
           zaps[i] # None /\ zaps'[i] = None =>
             \/ ZapExpired(zaps[i], now)
             \/ Sent([for |-> i, request |-> zaps[i].zap_request])
             \/ \E h \in Handlers :
                  /\ zpc[h] = "remove" /\ receipt[h].for = i
                  /\ receipt[h].request # zaps[i].zap_request
                  /\ Sent(receipt[h])]_zapVars
  BY ForgetStep DEF vars
<1> QED
  BY <1>1, <1>2, InitZap, PTL DEF Spec, ForgottenOnlyIfReceipted
=============================================================================
