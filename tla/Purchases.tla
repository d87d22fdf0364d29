------------------------------ MODULE Purchases ------------------------------
(***************************************************************************)
(* In-app purchases: POST /api/v1/iap/verify, which asks a store whether a *)
(* purchase is genuine, records it once in PostgreSQL and tells the app    *)
(* how many coins to add.                                                  *)
(*                                                                         *)
(* The store is asked, the row inserted and the answer sent in separate    *)
(* steps of a request; any number of requests for the same purchase may    *)
(* run at one time, because an app that got no answer sends it again.  The *)
(* stores and the app are external: a store sells and cancels, the app     *)
(* adds the coins of an answer and then completes the purchase.            *)
(***************************************************************************)
EXTENDS Naturals

CONSTANTS
  Txn,             \* the purchases of the two stores, by transaction id
  Sale,            \* what each of them is: its platform and its product
  Request,         \* the requests the server may be handling at one time
  NoReceipt,       \* a receipt or token that no store has issued for this app
  PlayConfigured,  \* the service account and the package name are set
  MayFail          \* whether calls and answers may fail or get lost

\* The server's catalogue: the app's own idea of an amount is never used.
productCoins == [coins_100 |-> 100, coins_500 |-> 550, coins_1200 |-> 1400]
adFreeProduct == "ad_free"
Product == DOMAIN productCoins \cup {adFreeProduct}
Coins(product) == IF product = adFreeProduct THEN 0 ELSE productCoins[product]

Platform == {"ios", "android"}

ASSUME PurchasesAssumption ==
  /\ Sale \in [Txn -> [platform : Platform, product : Product]]
  /\ NoReceipt \notin Txn
  /\ PlayConfigured \in BOOLEAN
  /\ MayFail \in BOOLEAN

Value == [t \in Txn |-> Coins(Sale[t].product)]
Args == [platform : Platform, product : Product, receipt : Txn \cup {NoReceipt}]
NoArgs == [platform |-> "ios", product |-> adFreeProduct, receipt |-> NoReceipt]

VARIABLES
  sold,        \* the purchases a store has completed
  cancelled,   \* those it took back: refunded or revoked
  purchases,   \* table purchases: the coins recorded under each transaction id
  pc, args,    \* each request: its next step, what the app sent
  granted,     \* the coins its answer grants
  paid,        \* the coins the apps have added for each purchase
  completed,   \* the purchases an app has completed: no store delivers them again
  lost         \* history: an answer that granted coins did not reach the app

storeVars == <<sold, cancelled>>
appVars == <<paid, completed, lost>>
vars == <<sold, cancelled, purchases, pc, args, granted, paid, completed, lost>>

Unrecorded == [t \in Txn |-> {}]

Init ==
  /\ sold = {} /\ cancelled = {}
  /\ purchases = Unrecorded
  /\ pc = [r \in Request |-> "idle"]
  /\ args = [r \in Request |-> NoArgs]
  /\ granted = [r \in Request |-> 0]
  /\ paid = [t \in Txn |-> 0]
  /\ completed = {} /\ lost = {}

-----------------------------------------------------------------------------
(* The stores. *)

Sell(t) ==
  /\ t \notin sold
  /\ sold' = sold \cup {t}
  /\ UNCHANGED <<cancelled, purchases, pc, args, granted, appVars>>

Cancel(t) ==
  /\ t \in sold \ cancelled
  /\ cancelled' = cancelled \cup {t}
  /\ UNCHANGED <<sold, purchases, pc, args, granted, appVars>>

-----------------------------------------------------------------------------
(* One request. *)

\* A request whose form the server accepts; it answers the others at once.
Post(r) ==
  /\ pc[r] = "idle"
  /\ \E a \in Args :
       /\ args' = [args EXCEPT ![r] = a]
       /\ pc' = [pc EXCEPT ![r] = "verify"]
  /\ UNCHANGED <<storeVars, purchases, granted, appVars>>

\* A signature of Apple says that the purchase was made; the server asks nobody
\* whether it was cancelled since.  A receipt is one for this app: those of
\* another one, which the code refuses when it was told its own bundle id, are
\* NoReceipt.
SignedByApple(receipt) == receipt \in sold /\ Sale[receipt].platform = "ios"

\* Mutant: the product of the signed payload is not compared.
VerifyAppleAnyProduct(a) == SignedByApple(a.receipt)

VerifyApple(a) == SignedByApple(a.receipt) /\ Sale[a.receipt].product = a.product

\* Google Play is asked about this token and this product.
VerifyGoogle(a) ==
  /\ PlayConfigured
  /\ a.receipt \in sold \ cancelled
  /\ Sale[a.receipt] = [platform |-> "android", product |-> a.product]

Verified(a) == IF a.platform = "ios" THEN VerifyApple(a) ELSE VerifyGoogle(a)

\* The request is over: its answer changes nothing at the app, which keeps the
\* purchase and may send it again.
End(r) ==
  /\ pc' = [pc EXCEPT ![r] = "idle"]
  /\ args' = [args EXCEPT ![r] = NoArgs]
  /\ granted' = [granted EXCEPT ![r] = 0]

Accept(r) ==
  /\ pc[r] = "verify"
  /\ Verified(args[r])
  /\ pc' = [pc EXCEPT ![r] = "record"]
  /\ UNCHANGED <<storeVars, purchases, args, granted, appVars>>

\* ErrInvalid, ErrNotConfigured, a call to Google that failed, or a certificate
\* of Apple that has run out since it signed (the chain is verified as of now).
Reject(r) ==
  /\ pc[r] = "verify"
  /\ ~Verified(args[r]) \/ MayFail
  /\ End(r)
  /\ UNCHANGED <<storeVars, purchases, appVars>>

\* Mutants: the coins are granted whether or not the row is new, and only when
\* it is not new.
RecordAlwaysGrants(r) ==
  LET t == args[r].receipt IN
  /\ pc[r] = "record"
  /\ purchases' = [purchases EXCEPT ![t] = {Coins(args[r].product)}]
  /\ granted' = [granted EXCEPT ![r] = Coins(args[r].product)]
  /\ pc' = [pc EXCEPT ![r] = "answer"]
  /\ UNCHANGED <<storeVars, args, appVars>>

RecordGrantsOld(r) ==
  LET t == args[r].receipt IN
  /\ pc[r] = "record"
  /\ purchases' = [purchases EXCEPT ![t] = {Coins(args[r].product)}]
  /\ granted' = [granted EXCEPT ![r] = IF purchases[t] = {} THEN 0 ELSE Coins(args[r].product)]
  /\ pc' = [pc EXCEPT ![r] = "answer"]
  /\ UNCHANGED <<storeVars, args, appVars>>

\* INSERT ... ON CONFLICT (transaction_id) DO NOTHING: only the request that
\* inserted the row grants its coins.
RecordPurchase(r) ==
  LET t == args[r].receipt
      fresh == purchases[t] = {} IN
  /\ pc[r] = "record"
  /\ purchases' = IF fresh THEN [purchases EXCEPT ![t] = {Coins(args[r].product)}]
                           ELSE purchases
  /\ granted' = [granted EXCEPT ![r] = IF fresh THEN Coins(args[r].product) ELSE 0]
  /\ pc' = [pc EXCEPT ![r] = "answer"]
  /\ UNCHANGED <<storeVars, args, appVars>>

\* The INSERT returns an error, before it was executed or after (the request
\* context ends when the app hangs up): the answer is 500.
RecordFails(r) ==
  LET t == args[r].receipt IN
  /\ MayFail
  /\ pc[r] = "record"
  /\ \/ UNCHANGED <<purchases, lost>>
     \/ /\ purchases[t] = {}
        /\ purchases' = [purchases EXCEPT ![t] = {Coins(args[r].product)}]
        /\ lost' = lost \cup {t}
  /\ End(r)
  /\ UNCHANGED <<storeVars, paid, completed>>

\* Mutant: the coins are taken off instead.
AnswerSubtracts(r) ==
  LET t == args[r].receipt IN
  /\ pc[r] = "answer"
  /\ paid' = [paid EXCEPT ![t] = @ - granted[r]]
  /\ completed' = completed \cup {t}
  /\ End(r)
  /\ UNCHANGED <<storeVars, purchases, lost>>

\* The app adds the coins granted and completes the purchase, whatever the
\* number is.
Answer(r) ==
  LET t == args[r].receipt IN
  /\ pc[r] = "answer"
  /\ paid' = [paid EXCEPT ![t] = @ + granted[r]]
  /\ completed' = completed \cup {t}
  /\ End(r)
  /\ UNCHANGED <<storeVars, purchases, lost>>

\* The connection breaks or the server stops before the app has the answer.
LoseAnswer(r) ==
  /\ MayFail
  /\ pc[r] = "answer"
  /\ lost' = IF granted[r] > 0 THEN lost \cup {args[r].receipt} ELSE lost
  /\ End(r)
  /\ UNCHANGED <<storeVars, purchases, paid, completed>>

RequestStep(r) ==
  \/ Post(r) \/ Accept(r) \/ Reject(r)
  \/ RecordPurchase(r) \/ RecordFails(r) \/ Answer(r) \/ LoseAnswer(r)

Next ==
  \/ \E t \in Txn : Sell(t) \/ Cancel(t)
  \/ \E r \in Request : RequestStep(r)

Spec == Init /\ [][Next]_vars

-----------------------------------------------------------------------------

TypeOK ==
  /\ sold \in SUBSET Txn /\ cancelled \in SUBSET Txn
  /\ purchases \in [Txn -> SUBSET Nat]
  /\ pc \in [Request -> {"idle", "verify", "record", "answer"}]
  /\ args \in [Request -> Args]
  /\ granted \in [Request -> Nat]
  /\ paid \in [Txn -> Nat]
  /\ completed \in SUBSET Txn /\ lost \in SUBSET Txn

(* However many requests for a purchase run at one time and however often   *)
(* the app sends it again, its coins are paid once, at the server's price,  *)
(* and not before a store has sold it.                                      *)
L == INSTANCE Ledger WITH sold <- sold, paid <- paid
PaidOnce == L!Spec

(* A row of table purchases stands for a purchase a store completed and     *)
(* holds the coins of the product that was sold, not of the one the request *)
(* named; and no request adds a second row.                                 *)
RowsBacked ==
  \A t \in Txn : purchases[t] # {} => t \in sold /\ purchases[t] = {Value[t]}

\* An answer on its way to the app still grants the coins of t.
OnItsWay(t) ==
  \E r \in Request : pc[r] = "answer" /\ args[r].receipt = t /\ granted[r] = Value[t]

(* The only way to complete a purchase without its coins is to lose an      *)
(* answer that granted them: no order of duplicate requests does it.        *)
PaidUnlessLost ==
  \A t \in completed : paid[t] = Value[t] \/ OnItsWay(t) \/ t \in lost

=============================================================================
