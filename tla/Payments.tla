------------------------------ MODULE Payments ------------------------------
(***************************************************************************)
(* Credits bought through PayU: the intents, the ledger and the wallet of  *)
(* a workspace, the callbacks that PayU repeats until one is answered with *)
(* success, and an administrator who adjusts the wallet.                   *)
(*                                                                         *)
(* A callback goes through three mutations and a call to PayU between the  *)
(* second and the third, and callbacks for one payment may overlap, in one *)
(* process or in two.  Signatures, customers and audit rows are left out.  *)
(***************************************************************************)
EXTENDS DashboardStore, Integers, Sequences

CONSTANTS
  Intents,     \* payment intents, by their txnid
  Credits,     \* the credits of each
  Keys,        \* idempotency keys of adjustments
  Amounts,     \* amounts an administrator may enter
  Callbacks,   \* requests from PayU under way at once
  MaxReplays   \* bound: adjustments sent again

ASSUME PaymentsAssumption ==
  /\ Credits \in [Intents -> Nat \ {0}]
  /\ Intents \cap Keys = {} /\ Amounts \subseteq Int /\ MaxReplays \in Nat

VARIABLES
  offer,     \* the checkout of each intent: "none", "failed", "made" or "paid"
  handler,   \* what each callback is doing
  sent,      \* adjustments sent, of all keys
  answered   \* intents whose callback was answered with success

paymentsVars == <<store, faults, offer, handler, sent, answered>>

-----------------------------------------------------------------------------
NoIntent == "none"

Entries == [key : Intents \cup Keys, amount : Int]
Books == [intents : [Intents -> {"absent", "pending", "credited"}],
          ledger : Seq(Entries), wallet : Int]

EmptyBooks == [intents |-> [i \in Intents |-> "absent"], ledger |-> << >>, wallet |-> 0]

Idle == [pc |-> "idle", intent |-> NoIntent, on |-> Alone]

HandlerStates == [pc : {"idle", "record", "reject", "verify", "credit"},
                  intent : Intents \cup {NoIntent}, on : Processes]

PaymentsTypeOK ==
  /\ StoreTypeOK(Books)
  /\ offer \in [Intents -> {"none", "failed", "made", "paid"}]
  /\ handler \in [Callbacks -> HandlerStates]
  /\ sent \in 0 .. MaxReplays + 1
  /\ answered \in SUBSET Intents

PaymentsInit ==
  /\ StoreInit(EmptyBooks)
  /\ offer = [i \in Intents |-> "none"] /\ answered = {} /\ sent = 0
  /\ handler = [c \in Callbacks |-> Idle]

-----------------------------------------------------------------------------
AddLedgerEntryAgain(db, key, amount) ==
  [db EXCEPT !.ledger = Append(@, [key |-> key, amount |-> amount]),
             !.wallet = @ + amount]

\* addLedgerEntry: the database, unchanged when the reference was used before.
AddLedgerEntry(db, key, amount) ==
  IF \E k \in DOMAIN db.ledger : db.ledger[k].key = key THEN db
  ELSE [db EXCEPT !.ledger = Append(@, [key |-> key, amount |-> amount]),
                  !.wallet = @ + amount]

\* It throws on an amount the wallet cannot bear.
Rejected(db, key, amount) ==
  /\ \A k \in DOMAIN db.ledger : db.ledger[k].key # key
  /\ db.wallet + amount < 0

-----------------------------------------------------------------------------
(* The customer, PayU and the administrator.                               *)

\* apiPaymentIntentCreate.  The checkout form follows the mutation, and an
\* intent whose form was not answered is not paid.
CreateIntent(i) ==
  LET db == [Db EXCEPT !.intents[i] = "pending"] IN
  /\ offer[i] = "none"
  /\ \/ Commit(db) /\ offer' = [offer EXCEPT ![i] = "made"]
     \/ Abort(db) /\ offer' = [offer EXCEPT ![i] = "failed"]
  /\ UNCHANGED <<handler, sent, answered>>

\* The customer pays, and PayU captures the payment.
Pay(i) ==
  /\ offer[i] = "made" /\ offer' = [offer EXCEPT ![i] = "paid"]
  /\ UNCHANGED <<store, faults, handler, sent, answered>>

\* apiAdminWalletAdjust, sent again when its answer was lost.
Adjust(key, amount) ==
  /\ sent <= MaxReplays /\ sent' = sent + 1
  /\ IF Rejected(Db, key, amount) THEN UNCHANGED <<store, faults>>
     ELSE \/ Commit(AddLedgerEntry(Db, key, amount))
          \/ Abort(AddLedgerEntry(Db, key, amount))
  /\ UNCHANGED <<offer, handler, answered>>

-----------------------------------------------------------------------------
(* apiPayuCallback.                                                        *)

GoOn(c, pc) == handler' = [handler EXCEPT ![c].pc = pc]
Finish(c) == handler' = [handler EXCEPT ![c] = Idle]

\* refreshDb, the lookup of the intent, and the check of the callback, which
\* says that the payment succeeded or that it failed.
Receive(c, p, i, success) ==
  /\ handler[c] = Idle /\ p \in Running
  /\ offer[i] \in {"made", "paid"}
  /\ LET creditable == success /\ Db.intents[i] # "absent" IN
     handler' = [handler EXCEPT ![c] =
       [pc |-> IF creditable THEN "record" ELSE "reject", intent |-> i, on |-> p]]
  /\ UNCHANGED <<store, faults, offer, sent, answered>>

\* A payment event is recorded, which writes the store; then 400, or on.
Record(c) ==
  /\ handler[c].pc \in {"record", "reject"}
  /\ \/ Commit(Db)
        /\ IF handler[c].pc = "record" THEN GoOn(c, "verify") ELSE Finish(c)
     \/ Abort(Db) /\ Finish(c)
  /\ UNCHANGED <<offer, sent, answered>>

VerifyAnything(c) ==
  /\ handler[c].pc = "verify" /\ GoOn(c, "credit")
  /\ UNCHANGED <<store, faults, offer, sent, answered>>

\* verifyPayment: PayU says whether it captured the payment, or cannot be
\* reached.
Verify(c) ==
  /\ handler[c].pc = "verify"
  /\ \/ /\ IF offer[handler[c].intent] = "paid" THEN GoOn(c, "credit") ELSE Finish(c)
        /\ UNCHANGED faults
     \/ Fault /\ Finish(c)
  /\ UNCHANGED <<store, offer, sent, answered>>

\* The wallet is credited, unless the intent or the ledger says it was.
Credited(db, i) ==
  IF db.intents[i] = "credited" THEN db
  ELSE [AddLedgerEntry(db, i, Credits[i]) EXCEPT !.intents[i] = "credited"]

CreditAnsweringOnce(c) ==
  LET i == handler[c].intent IN
  /\ handler[c].pc = "credit"
  /\ \/ /\ Commit(Credited(Db, i))
        /\ answered' = IF Db.intents[i] = "credited" THEN answered ELSE answered \cup {i}
     \/ Abort(Credited(Db, i)) /\ UNCHANGED answered
  /\ Finish(c)
  /\ UNCHANGED <<offer, sent>>

\* The last mutation, and 200 whether it credited or found that done.
Credit(c) ==
  LET i == handler[c].intent IN
  /\ handler[c].pc = "credit"
  /\ \/ Commit(Credited(Db, i)) /\ answered' = answered \cup {i}
     \/ Abort(Credited(Db, i)) /\ UNCHANGED answered
  /\ Finish(c)
  /\ UNCHANGED <<offer, sent>>

\* What a process was doing dies with it.
CrashPayments(p) ==
  /\ p \in Running /\ Restart
  /\ handler' = [c \in Callbacks |-> IF handler[c].on = p THEN Idle ELSE handler[c]]
  /\ UNCHANGED <<offer, sent, answered>>

PaymentsNext ==
  \/ \E i \in Intents : CreateIntent(i) \/ Pay(i)
  \/ \E k \in Keys, a \in Amounts : Adjust(k, a)
  \/ \E c \in Callbacks, p \in Processes, i \in Intents, success \in BOOLEAN :
       Receive(c, p, i, success)
  \/ \E c \in Callbacks : Record(c) \/ Verify(c) \/ Credit(c)
  \/ \E p \in Processes : CrashPayments(p)

PaymentsSpec == PaymentsInit /\ [][PaymentsNext]_paymentsVars

\* Handlers go on, and PayU repeats the callback of a payment that it has
\* captured until one is answered with success.
PaymentsFairSpec ==
  /\ PaymentsSpec
  /\ \A c \in Callbacks :
       WF_paymentsVars(Record(c)) /\ WF_paymentsVars(Verify(c)) /\ WF_paymentsVars(Credit(c))
  /\ \A i \in Intents :
       SF_paymentsVars(\E c \in Callbacks, p \in Processes :
                         offer[i] = "paid" /\ i \notin answered /\ Receive(c, p, i, TRUE))

-----------------------------------------------------------------------------
(* Correctness.                                                            *)

Copies == {saved, mem}

\* The sum of the first n entries of a ledger.
Balance(ledger) ==
  LET sum[n \in 0 .. Len(ledger)] ==
        IF n = 0 THEN 0 ELSE sum[n - 1] + ledger[n].amount
  IN sum[Len(ledger)]

\* However callbacks and adjustments are repeated and wherever they run, a
\* reference is in the ledger once, an intent is credited exactly when the
\* ledger has its credits, and the wallet is what the ledger adds up to and
\* never negative: in memory and in the copy that outlives it.
BooksBalance ==
  \A db \in Copies :
    /\ \A j, k \in DOMAIN db.ledger : db.ledger[j].key = db.ledger[k].key => j = k
    /\ \A i \in Intents :
         db.intents[i] = "credited" <=>
           \E k \in DOMAIN db.ledger : db.ledger[k] = [key |-> i, amount |-> Credits[i]]
    /\ db.wallet = Balance(db.ledger) /\ db.wallet >= 0

\* A wallet is credited only for payments that PayU captured, whatever the
\* callbacks say and in whatever order they and the payment come.
OnlyCapturedIsCredited ==
  \A db \in Copies, i \in Intents : db.intents[i] = "credited" => offer[i] = "paid"

\* A credit that PayU was told of is in the copy that outlives the process:
\* no failed write, restart or write of another process takes it back.
AnsweredCreditStays == \A i \in answered : saved.intents[i] = "credited"

\* A payment that PayU captured is credited in the end, and PayU is told.
PaidIsCredited == \A i \in Intents : offer[i] = "paid" ~> i \in answered
=============================================================================
