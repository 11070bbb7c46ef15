----------------------------- MODULE ZapReceipts -----------------------------
(***************************************************************************)
(* Zap receipts (nips/nip57): the stored map of zaps the host tracks, and  *)
(* the tasks that broadcast the receipt of one when its payment is         *)
(* reported, untrack it and tell the host.                                 *)
(*                                                                         *)
(* Every access to the map is one step, which SafeStorage shows            *)
(* set_storage_safe to amount to, and may fail.  A stored request can be   *)
(* read back: track_zap has parsed and verified it.                        *)
(***************************************************************************)
EXTENDS Naturals, Functions

CONSTANTS
  Handlers,     \* concurrent runs of on_sdk_payment
  Invoices,     \* strings the host and the SDK name an invoice by
  bolt11,       \* bolt11[i]: what parse_invoice makes of i, None if it fails
  ZapRequests,  \* requests track_zap accepts
  WithPTag,     \* those with a `p` tag
  None,
  ZAP_TRACKING_EXPIRY_SEC,
  MaxNow,       \* bound: the clock stops there
  MaxTracked,   \* bound: calls of track_zap
  MaxFaults     \* bound: failures of the storage, of the relays, crashes

ASSUME ZapAssumption ==
  /\ bolt11 \in [Invoices -> Invoices \cup {None}]
  /\ WithPTag \subseteq ZapRequests
  /\ None \notin Invoices \cup ZapRequests
  /\ ZAP_TRACKING_EXPIRY_SEC \in Nat \ {0}
  /\ MaxNow \in Nat /\ MaxTracked \in Nat /\ MaxFaults \in Nat

TrackedZap == [zap_request : ZapRequests, expires_at : Nat]
ASSUME ZapNoneAssumption == None \notin TrackedZap

VARIABLES
  now,        \* utils::now()
  zaps,       \* persisted: KEY_TRACKED_ZAPS
  zpc,        \* zpc[h]: where h stands in handle_zap_receipt
  receipt,    \* receipt[h]: the receipt it is making, [for, request]
  sent,       \* history: receipts broadcast, and the task that did
  announced,  \* history: invoices of the ZapReceived events emitted
  tracks,     \* tracks[i]: calls of track_zap for i, bounded
  zfaults     \* failures so far, bounded

zapVars == <<now, zaps, zpc, receipt, sent, announced, tracks, zfaults>>

ZapInit ==
  /\ now = 0
  /\ zaps = [i \in Invoices |-> None]
  /\ zpc = [h \in Handlers |-> "idle"]
  /\ receipt = [h \in Handlers |-> None]
  /\ sent = {} /\ announced = {}
  /\ tracks = [i \in Invoices |-> 0]
  /\ zfaults = 0

ZapFault == zfaults < MaxFaults /\ zfaults' = zfaults + 1

ZapTick ==
  /\ now < MaxNow
  /\ now' = now + 1
  /\ UNCHANGED <<zaps, zpc, receipt, sent, announced, tracks, zfaults>>

MayTrack == FoldFunction(+, 0, tracks) < MaxTracked

(* A zap tracked again is replaced.  Rejected requests, and a storage that *)
(* fails, change nothing.                                                  *)
track_zap(i) ==
  /\ MayTrack
  /\ tracks' = [tracks EXCEPT ![i] = @ + 1]
  /\ \E r \in ZapRequests :
       zaps' = [zaps EXCEPT ![i] =
                  [zap_request |-> r,
                   expires_at |-> now + ZAP_TRACKING_EXPIRY_SEC]]
  /\ UNCHANGED <<now, zpc, receipt, sent, announced, zfaults>>

ZapExpired(zap, at) == at >= zap.expires_at

(* The clock is read once, before the map is read and, perhaps after being *)
(* refused, written.                                                       *)
clean_expired_zaps ==
  /\ \E at \in 0 .. now :
       zaps' = [i \in Invoices |->
                  IF zaps[i] # None /\ ZapExpired(zaps[i], at) THEN None
                  ELSE zaps[i]]
  /\ UNCHANGED <<now, zpc, receipt, sent, announced, tracks, zfaults>>

-----------------------------------------------------------------------------
(* handle_zap_receipt.                                                     *)

ZapDone(h) ==
  /\ zpc' = [zpc EXCEPT ![h] = "idle"]
  /\ receipt' = [receipt EXCEPT ![h] = None]

(* A pending payment of i is reported.  If i is not tracked, or the lookup *)
(* fails, that is the end of it.                                           *)
get_tracked_zap_raw(h, i) ==
  /\ zaps[i] # None
  /\ receipt' = [receipt EXCEPT ![h] =
                   [for |-> i, request |-> zaps[i].zap_request]]
  /\ zpc' = [zpc EXCEPT ![h] = "parse"]
  /\ UNCHANGED <<now, zaps, sent, announced, tracks, zfaults>>

(* Mutant: what parse_invoice returns is not checked.                      *)
ParseUnchecked(h) ==
  /\ zpc[h] = "parse"
  /\ receipt' = [receipt EXCEPT ![h].for = bolt11[@]]
  /\ zpc' = [zpc EXCEPT ![h] = "send"]
  /\ UNCHANGED <<now, zaps, sent, announced, tracks, zfaults>>

(* The receipt is built, for the invoice as parse_invoice returns it.      *)
BuildReceipt(h) ==
  /\ zpc[h] = "parse"
  /\ \/ /\ bolt11[receipt[h].for] # None
        /\ receipt[h].request \in WithPTag
        /\ receipt' = [receipt EXCEPT ![h].for = bolt11[@]]
        /\ zpc' = [zpc EXCEPT ![h] = "send"]
     \/ /\ bolt11[receipt[h].for] = None \/ receipt[h].request \notin WithPTag
        /\ ZapDone(h)
  /\ UNCHANGED <<now, zaps, sent, announced, tracks, zfaults>>

(* Mutant: the request is taken out of a map that is not written back.     *)
RemoveUnwritten(h) ==
  /\ zpc[h] = "remove"
  /\ zpc' = [zpc EXCEPT ![h] = "notify"]
  /\ UNCHANGED <<now, zaps, receipt, sent, announced, tracks, zfaults>>

(* Mutant: a receipt that could not be sent is taken for sent.             *)
SendAndForget(h) ==
  /\ zpc[h] = "send"
  /\ zpc' = [zpc EXCEPT ![h] = "remove"]
  /\ \/ /\ sent' = sent \cup {[by |-> h, receipt |-> receipt[h]]}
        /\ UNCHANGED zfaults
     \/ ZapFault /\ UNCHANGED sent
  /\ UNCHANGED <<now, zaps, receipt, announced, tracks>>

(* If it cannot be sent the zap stays tracked, and nobody tries again.     *)
SendReceipt(h) ==
  /\ zpc[h] = "send"
  /\ \/ /\ sent' = sent \cup {[by |-> h, receipt |-> receipt[h]]}
        /\ zpc' = [zpc EXCEPT ![h] = "remove"]
        /\ UNCHANGED <<receipt, zfaults>>
     \/ ZapFault /\ ZapDone(h) /\ UNCHANGED sent
  /\ UNCHANGED <<now, zaps, announced, tracks>>

(* A failure to remove it is only logged.                                  *)
remove_tracked_zap(h) ==
  /\ zpc[h] = "remove"
  /\ \/ zaps' = [zaps EXCEPT ![receipt[h].for] = None] /\ UNCHANGED zfaults
     \/ ZapFault /\ UNCHANGED zaps
  /\ zpc' = [zpc EXCEPT ![h] = "notify"]
  /\ UNCHANGED <<now, receipt, sent, announced, tracks>>

AnnounceZap(h) ==
  /\ zpc[h] = "notify"
  /\ announced' = announced \cup {receipt[h].for}
  /\ ZapDone(h)
  /\ UNCHANGED <<now, zaps, sent, tracks, zfaults>>

ZapStep(h) ==
  BuildReceipt(h) \/ SendReceipt(h) \/ remove_tracked_zap(h) \/ AnnounceZap(h)

(* The process dies: the map and what has been broadcast remain.           *)
ZapCrash ==
  /\ ZapFault
  /\ zpc' = [h \in Handlers |-> "idle"]
  /\ receipt' = [h \in Handlers |-> None]
  /\ UNCHANGED <<now, zaps, sent, announced, tracks>>

-----------------------------------------------------------------------------
Receipts == [for : Invoices, request : ZapRequests]

ZapTypeOK ==
  /\ now \in Nat
  /\ zaps \in [Invoices -> TrackedZap \cup {None}]
  /\ zpc \in [Handlers -> {"idle", "parse", "send", "remove", "notify"}]
  /\ receipt \in [Handlers -> Receipts \cup {None}]
  /\ sent \in SUBSET [by : Handlers, receipt : Receipts]
  /\ announced \in SUBSET Invoices
  /\ tracks \in [Invoices -> Nat] /\ zfaults \in Nat

Sent(r) == \E s \in sent : s.receipt = r

(* A zap is forgotten only when its receipt has been broadcast or it has   *)
(* expired, whatever fails or crashes; or when, while a receipt of the     *)
(* same invoice was on its way, another request took its place.            *)
ForgottenOnlyIfReceipted ==
  [][\A i \in Invoices :
       zaps[i] # None /\ zaps'[i] = None =>
         \/ ZapExpired(zaps[i], now)
         \/ Sent([for |-> i, request |-> zaps[i].zap_request])
         \/ \E h \in Handlers :
              /\ zpc[h] = "remove" /\ receipt[h].for = i
              /\ receipt[h].request # zaps[i].zap_request
              /\ Sent(receipt[h])]_zapVars

(* Tracked for once, and under the one name the SDK has for it.            *)
TrackedOnce(i) ==
  \A j \in Invoices : bolt11[j] = i => tracks[j] = IF j = i THEN 1 ELSE 0

HasReceipted(h, i) == \E s \in sent : s.by = h /\ s.receipt.for = i

(* With no failures, a zap tracked once is receipted again only by events  *)
(* that overlap, each of which may have looked it up before the others     *)
(* removed it: no task that takes one event of a payment after another     *)
(* sends a second receipt, however many others do meanwhile.               *)
OneReceiptPerTask ==
  [][\A h \in Handlers :
       /\ zpc[h] = "send" /\ zpc'[h] = "remove"
       /\ zfaults = 0 /\ TrackedOnce(receipt[h].for)
       => ~ HasReceipted(h, receipt[h].for)]_zapVars

(* What the host hears of has been receipted, and is tracked no more       *)
(* unless it was tracked again or could not be removed.                    *)
AnnouncedIsReceipted ==
  \A i \in announced :
    /\ \E s \in sent : s.receipt.for = i
    /\ TrackedOnce(i) /\ zfaults = 0 => zaps[i] = None
=============================================================================
