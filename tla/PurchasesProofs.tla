--------------------------- MODULE PurchasesProofs ---------------------------
(***************************************************************************)
(* The verification of purchases implements the Ledger, for any purchases  *)
(* of any products and any number of requests.                             *)
(***************************************************************************)
EXTENDS Purchases, TLAPS

\* A request that passed the verification names the product that was sold.
Genuine ==
  \A r \in Request : pc[r] \in {"record", "answer"} =>
    /\ args[r].receipt \in sold
    /\ args[r].product = Sale[args[r].receipt].product

\* Nothing is answered, paid or completed before its row exists.
Recorded ==
  /\ \A r \in Request : pc[r] = "answer" => purchases[args[r].receipt] # {}
  /\ \A t \in Txn : purchases[t] = {} => paid[t] = 0 /\ t \notin completed

\* An answer that grants coins is the only one for its purchase, and comes
\* before any other payment.
GrantsOnce ==
  /\ \A r \in Request : granted[r] # 0 =>
       /\ pc[r] = "answer"
       /\ granted[r] = Value[args[r].receipt]
       /\ paid[args[r].receipt] = 0
  /\ \A r, q \in Request :
       granted[r] # 0 /\ granted[q] # 0 /\ args[r].receipt = args[q].receipt => r = q
  /\ \A t \in Txn : paid[t] \in {0, Value[t]}

\* The coins of a recorded purchase are paid, on their way or lost.
Accounted ==
  \A t \in Txn : purchases[t] # {} => paid[t] = Value[t] \/ OnItsWay(t) \/ t \in lost

Inv == TypeOK /\ RowsBacked /\ Genuine /\ Recorded /\ GrantsOnce /\ Accounted

-----------------------------------------------------------------------------
(* Types. *)

LEMMA CoinsType == \A p \in Product : Coins(p) \in Nat
BY DEF Product, Coins, productCoins, adFreeProduct

LEMMA ValueType == Value \in [Txn -> Nat] /\ \A t \in Txn : Value[t] = Coins(Sale[t].product)
BY CoinsType, PurchasesAssumption DEF Value

LEMMA NoArgsType == NoArgs \in Args
BY DEF NoArgs, Args, Platform, Product

LEMMA EndType ==
  ASSUME TypeOK, NEW r \in Request, End(r)
  PROVE  /\ pc' \in [Request -> {"idle", "verify", "record", "answer"}]
         /\ args' \in [Request -> Args]
         /\ granted' \in [Request -> Nat]
BY NoArgsType DEF End, TypeOK

\* What a request past its verification carries.
LEMMA ArgsType ==
  ASSUME TypeOK, Genuine, NEW r \in Request, pc[r] \in {"record", "answer"}
  PROVE  /\ args[r].receipt \in Txn
         /\ args[r].product \in Product
         /\ Coins(args[r].product) = Value[args[r].receipt]
         /\ Coins(args[r].product) \in Nat
BY CoinsType, ValueType DEF TypeOK, Args, Genuine

LEMMA VerifiedGenuine ==
  ASSUME TypeOK, NEW a \in Args, Verified(a)
  PROVE  a.receipt \in sold /\ a.product = Sale[a.receipt].product
BY DEF Verified, VerifyApple, SignedByApple, VerifyGoogle

LEMMA InitInv == Init => Inv
<1>1. Init => TypeOK
  BY NoArgsType DEF Init, TypeOK, Unrecorded
<1>2. Init => RowsBacked /\ Genuine /\ Recorded /\ GrantsOnce /\ Accounted
  BY DEF Init, Unrecorded, RowsBacked, Genuine, Recorded, GrantsOnce, Accounted
<1> QED BY <1>1, <1>2 DEF Inv

-----------------------------------------------------------------------------
(* The steps. *)

\* A request that ends without an answer at the app, and without a new row.
LEMMA EndInv ==
  ASSUME Inv, NEW r \in Request, End(r),
         UNCHANGED <<sold, purchases, paid, completed>>,
         cancelled' \in SUBSET Txn,
         lost' \in SUBSET Txn, lost \subseteq lost',
         granted[r] # 0 => args[r].receipt \in lost'
  PROVE  Inv'
<1>1. TypeOK'
  BY EndType DEF Inv, TypeOK
<1>2. /\ pc' = [pc EXCEPT ![r] = "idle"]
      /\ args' = [args EXCEPT ![r] = NoArgs]
      /\ granted' = [granted EXCEPT ![r] = 0]
  BY DEF End
<1>3. \A q \in Request : IF q = r
         THEN pc'[q] = "idle" /\ granted'[q] = 0
         ELSE pc'[q] = pc[q] /\ args'[q] = args[q] /\ granted'[q] = granted[q]
  BY <1>2 DEF Inv, TypeOK
<1>4. RowsBacked' /\ Genuine' /\ Recorded'
  BY <1>3 DEF Inv, RowsBacked, Genuine, Recorded
<1>5. GrantsOnce'
  BY <1>3 DEF Inv, GrantsOnce
<1>6. Accounted'
  <2> SUFFICES ASSUME NEW t \in Txn, purchases[t] # {}, paid[t] # Value[t], t \notin lost'
               PROVE  OnItsWay(t)'
    BY DEF Accounted
  <2>1. PICK q \in Request : pc[q] = "answer" /\ args[q].receipt = t /\ granted[q] = Value[t]
    BY DEF Inv, Accounted, OnItsWay
  <2>2. CASE q = r
    <3>1. granted[r] = 0
      BY <2>1, <2>2
    <3> QED BY <2>1, <2>2, <3>1 DEF Inv, GrantsOnce
  <2>3. CASE q # r
    BY <1>3, <2>1, <2>3 DEF OnItsWay
  <2> QED BY <2>2, <2>3
<1> QED BY <1>1, <1>4, <1>5, <1>6 DEF Inv

LEMMA PostInv ==
  ASSUME Inv, NEW r \in Request, Post(r)
  PROVE  Inv'
<1>1. TypeOK'
  BY DEF Inv, TypeOK, Post, storeVars, appVars
<1>2. /\ pc[r] = "idle" /\ pc'[r] = "verify"
      /\ \A q \in Request \ {r} : pc'[q] = pc[q] /\ args'[q] = args[q]
      /\ UNCHANGED <<sold, purchases, granted, paid, completed, lost>>
  BY DEF Inv, TypeOK, Post, storeVars, appVars
<1>3. RowsBacked' /\ Genuine' /\ Recorded'
  BY <1>2 DEF Inv, RowsBacked, Genuine, Recorded
<1>4. GrantsOnce'
  BY <1>2 DEF Inv, GrantsOnce
<1>5. \A t \in Txn : OnItsWay(t) => OnItsWay(t)'
  BY <1>2 DEF OnItsWay
<1> QED BY <1>1, <1>2, <1>3, <1>4, <1>5 DEF Inv, Accounted

LEMMA AcceptInv ==
  ASSUME Inv, NEW r \in Request, Accept(r)
  PROVE  Inv'
<1>1. TypeOK'
  BY DEF Inv, TypeOK, Accept, storeVars, appVars
<1>2. /\ pc[r] = "verify" /\ pc'[r] = "record"
      /\ \A q \in Request \ {r} : pc'[q] = pc[q]
      /\ UNCHANGED <<sold, purchases, args, granted, paid, completed, lost>>
  BY DEF Inv, TypeOK, Accept, storeVars, appVars
<1>3. args[r].receipt \in sold /\ args[r].product = Sale[args[r].receipt].product
  BY VerifiedGenuine DEF Inv, TypeOK, Accept
<1>4. RowsBacked' /\ Genuine' /\ Recorded'
  BY <1>2, <1>3 DEF Inv, RowsBacked, Genuine, Recorded
<1>5. GrantsOnce'
  BY <1>2 DEF Inv, GrantsOnce
<1>6. \A t \in Txn : OnItsWay(t) => OnItsWay(t)'
  BY <1>2 DEF OnItsWay
<1> QED BY <1>1, <1>2, <1>4, <1>5, <1>6 DEF Inv, Accounted

LEMMA RecordInv ==
  ASSUME Inv, NEW r \in Request, RecordPurchase(r)
  PROVE  Inv'
<1> DEFINE t == args[r].receipt
<1>1. /\ pc[r] = "record"
      /\ t \in Txn /\ t \in sold
      /\ Coins(args[r].product) = Value[t] /\ Value[t] \in Nat
  BY ArgsType DEF Inv, RecordPurchase, Genuine
<1>2. /\ pc' = [pc EXCEPT ![r] = "answer"]
      /\ UNCHANGED <<sold, cancelled, args, paid, completed, lost>>
  BY DEF RecordPurchase, storeVars, appVars
<1>3. CASE purchases[t] = {}
  <2>1. /\ purchases' = [purchases EXCEPT ![t] = {Value[t]}]
        /\ granted' = [granted EXCEPT ![r] = Value[t]]
    BY <1>1, <1>3 DEF RecordPurchase
  <2>2. TypeOK'
    BY <1>1, <1>2, <2>1 DEF Inv, TypeOK
  <2>3. /\ pc'[r] = "answer" /\ granted'[r] = Value[t] /\ purchases'[t] = {Value[t]}
        /\ \A q \in Request \ {r} : pc'[q] = pc[q] /\ granted'[q] = granted[q]
        /\ \A s \in Txn \ {t} : purchases'[s] = purchases[s]
    BY <1>1, <1>2, <2>1 DEF Inv, TypeOK
  <2>4. paid[t] = 0 /\ \A q \in Request : args[q].receipt = t => granted[q] = 0
    BY <1>1, <1>3 DEF Inv, Recorded, GrantsOnce
  <2>5. RowsBacked' /\ Genuine' /\ Recorded'
    <3>1. \A q \in Request : pc[q] = "answer" => args[q].receipt \in Txn
      BY ArgsType DEF Inv
    <3>2. RowsBacked'
      BY <1>1, <1>2, <2>3 DEF Inv, RowsBacked
    <3>3. Genuine'
      BY <1>1, <1>2, <2>3 DEF Inv, Genuine
    <3>4. Recorded'
      BY <1>1, <1>2, <2>3, <3>1 DEF Inv, Recorded
    <3> QED BY <3>2, <3>3, <3>4
  <2>6. GrantsOnce'
    BY <1>1, <1>2, <2>3, <2>4 DEF Inv, GrantsOnce
  <2>7. \A s \in Txn : s # t /\ OnItsWay(s) => OnItsWay(s)'
    BY <1>1, <1>2, <2>3 DEF OnItsWay
  <2>8. OnItsWay(t)'
    BY <1>2, <2>3 DEF OnItsWay
  <2> QED BY <1>2, <2>2, <2>3, <2>5, <2>6, <2>7, <2>8 DEF Inv, Accounted
<1>4. CASE purchases[t] # {}
  <2>1. UNCHANGED purchases /\ granted' = [granted EXCEPT ![r] = 0]
    BY <1>4 DEF RecordPurchase
  <2>2. TypeOK'
    BY <1>2, <2>1 DEF Inv, TypeOK
  <2>3. /\ pc'[r] = "answer" /\ granted'[r] = 0
        /\ \A q \in Request \ {r} : pc'[q] = pc[q] /\ granted'[q] = granted[q]
    BY <1>2, <2>1 DEF Inv, TypeOK
  <2>4. RowsBacked' /\ Genuine' /\ Recorded'
    BY <1>1, <1>2, <1>4, <2>1, <2>3 DEF Inv, RowsBacked, Genuine, Recorded
  <2>5. GrantsOnce'
    BY <1>2, <2>3 DEF Inv, GrantsOnce
  <2>6. \A s \in Txn : OnItsWay(s) => OnItsWay(s)'
    BY <1>1, <1>2, <2>3 DEF OnItsWay
  <2> QED BY <1>2, <2>1, <2>2, <2>4, <2>5, <2>6 DEF Inv, Accounted
<1> QED BY <1>3, <1>4

LEMMA RecordFailsInv ==
  ASSUME Inv, NEW r \in Request, RecordFails(r)
  PROVE  Inv'
<1> DEFINE t == args[r].receipt
<1>1. granted[r] = 0 /\ pc[r] = "record"
  BY DEF Inv, GrantsOnce, RecordFails
<1>2. UNCHANGED <<sold, cancelled, paid, completed>> /\ End(r)
  BY DEF RecordFails, storeVars
<1>3. CASE UNCHANGED <<purchases, lost>>
  <2>1. cancelled' \in SUBSET Txn /\ lost' \in SUBSET Txn
    BY <1>2, <1>3 DEF Inv, TypeOK
  <2> QED BY <1>1, <1>2, <1>3, <2>1, EndInv
<1>4. CASE /\ purchases[t] = {}
           /\ purchases' = [purchases EXCEPT ![t] = {Coins(args[r].product)}]
           /\ lost' = lost \cup {t}
  <2>1. /\ t \in Txn /\ t \in sold
        /\ Coins(args[r].product) = Value[t] /\ Value[t] \in Nat
    BY <1>1, ArgsType DEF Inv, Genuine
  <2>2. TypeOK'
    BY <1>2, <1>4, <2>1, EndType DEF Inv, TypeOK
  <2>3. \A q \in Request : IF q = r
           THEN pc'[q] = "idle" /\ granted'[q] = 0
           ELSE pc'[q] = pc[q] /\ args'[q] = args[q] /\ granted'[q] = granted[q]
    BY <1>2 DEF End, Inv, TypeOK
  <2>4. purchases'[t] = {Value[t]} /\ \A s \in Txn \ {t} : purchases'[s] = purchases[s]
    BY <1>4, <2>1 DEF Inv, TypeOK
  <2>5. RowsBacked' /\ Genuine' /\ Recorded'
    <3>1. \A q \in Request : pc[q] = "answer" => args[q].receipt \in Txn
      BY ArgsType DEF Inv
    <3>2. RowsBacked'
      BY <1>2, <2>1, <2>4 DEF Inv, RowsBacked
    <3>3. Genuine'
      BY <1>2, <2>3 DEF Inv, Genuine
    <3>4. Recorded'
      BY <1>2, <2>1, <2>3, <2>4, <3>1 DEF Inv, Recorded
    <3> QED BY <3>2, <3>3, <3>4
  <2>6. GrantsOnce'
    BY <1>2, <2>3 DEF Inv, GrantsOnce
  <2>7. \A s \in Txn : OnItsWay(s) => OnItsWay(s)'
    BY <1>1, <2>3 DEF OnItsWay
  <2> QED BY <1>2, <1>4, <2>2, <2>4, <2>5, <2>6, <2>7 DEF Inv, Accounted
<1> QED BY <1>3, <1>4 DEF RecordFails

LEMMA AnswerInv ==
  ASSUME Inv, NEW r \in Request, Answer(r)
  PROVE  Inv'
<1> DEFINE t == args[r].receipt
<1>1. /\ t \in Txn /\ purchases[t] # {} /\ pc[r] = "answer"
      /\ granted[r] \in Nat /\ paid[t] \in Nat /\ Value[t] \in Nat
  BY ArgsType, ValueType DEF Inv, Answer, Recorded, TypeOK
<1>2. /\ paid' = [paid EXCEPT ![t] = @ + granted[r]]
      /\ completed' = completed \cup {t}
      /\ UNCHANGED <<sold, cancelled, purchases, lost>>
      /\ End(r)
  BY DEF Answer, storeVars
<1>3. paid'[t] = paid[t] + granted[r] /\ \A s \in Txn \ {t} : paid'[s] = paid[s]
  BY <1>1, <1>2 DEF Inv, TypeOK
<1>4. granted[r] # 0 => granted[r] = Value[t] /\ paid[t] = 0
  BY DEF Inv, GrantsOnce
<1>5. \A q \in Request : IF q = r
         THEN pc'[q] = "idle" /\ granted'[q] = 0
         ELSE pc'[q] = pc[q] /\ args'[q] = args[q] /\ granted'[q] = granted[q]
  BY <1>2 DEF End, Inv, TypeOK
<1>6. TypeOK'
  <2>1. paid' \in [Txn -> Nat]
    BY <1>1, <1>2 DEF Inv, TypeOK
  <2> QED BY <1>1, <1>2, <2>1, EndType DEF Inv, TypeOK
<1>7. RowsBacked' /\ Genuine'
  BY <1>2, <1>5 DEF Inv, RowsBacked, Genuine
<1>8. Recorded'
  BY <1>1, <1>2, <1>3, <1>5 DEF Inv, Recorded
<1>9. GrantsOnce'
  <2>1. \A s \in Txn : paid'[s] \in {0, Value[s]}
    BY <1>1, <1>3, <1>4 DEF Inv, GrantsOnce
  <2>2. ASSUME NEW q \in Request, granted'[q] # 0
        PROVE  /\ pc'[q] = "answer"
               /\ granted'[q] = Value[args'[q].receipt]
               /\ paid'[args'[q].receipt] = 0
    <3>1. q # r /\ granted[q] # 0 /\ pc[q] = "answer" /\ args'[q] = args[q]
      BY <1>5, <2>2 DEF Inv, GrantsOnce
    <3>2. args[q].receipt \in Txn
      BY <3>1, ArgsType DEF Inv
    <3>3. paid'[args[q].receipt] = 0
      <4>1. CASE args[q].receipt = t
        BY <1>1, <1>3, <3>1, <4>1 DEF Inv, GrantsOnce
      <4>2. CASE args[q].receipt # t
        BY <1>3, <3>1, <3>2, <4>2 DEF Inv, GrantsOnce
      <4> QED BY <4>1, <4>2
    <3> QED BY <1>5, <3>1, <3>3 DEF Inv, GrantsOnce
  <2>3. \A q, p \in Request :
          granted'[q] # 0 /\ granted'[p] # 0 /\ args'[q].receipt = args'[p].receipt => q = p
    BY <1>5 DEF Inv, GrantsOnce
  <2> QED BY <2>1, <2>2, <2>3 DEF GrantsOnce
<1>10. Accounted'
  <2> SUFFICES ASSUME NEW s \in Txn, purchases[s] # {}, s \notin lost
               PROVE  paid'[s] = Value[s] \/ OnItsWay(s)'
    BY <1>2 DEF Accounted
  <2>1. CASE paid[s] = Value[s]
    BY <1>1, <1>3, <1>4, <2>1
  <2>2. ASSUME NEW q \in Request, pc[q] = "answer", args[q].receipt = s, granted[q] = Value[s]
        PROVE  paid'[s] = Value[s] \/ OnItsWay(s)'
    <3>1. CASE q = r
      BY <1>1, <1>3, <1>4, <2>2, <3>1 DEF Inv, GrantsOnce
    <3>2. CASE q # r
      BY <1>5, <2>2, <3>2 DEF OnItsWay
    <3> QED BY <3>1, <3>2
  <2> QED BY <2>1, <2>2 DEF Inv, Accounted, OnItsWay
<1> QED BY <1>6, <1>7, <1>8, <1>9, <1>10 DEF Inv

LEMMA StepInv ==
  ASSUME Inv, [Next]_vars
  PROVE  Inv'
<1>1. ASSUME NEW t \in Txn, Sell(t) \/ Cancel(t)
      PROVE  Inv'
  <2>1. /\ sold \subseteq sold' /\ sold' \in SUBSET Txn /\ cancelled' \in SUBSET Txn
        /\ UNCHANGED <<purchases, pc, args, granted, paid, completed, lost>>
    BY <1>1 DEF Sell, Cancel, appVars, Inv, TypeOK
  <2> QED BY <2>1 DEF Inv, TypeOK, RowsBacked, Genuine, Recorded, GrantsOnce, Accounted, OnItsWay
<1>2. ASSUME NEW r \in Request, Reject(r)
      PROVE  Inv'
  <2>1. granted[r] = 0
    BY <1>2 DEF Reject, Inv, GrantsOnce
  <2>2. /\ End(r)
        /\ UNCHANGED <<sold, purchases, paid, completed>>
        /\ cancelled' \in SUBSET Txn /\ lost' \in SUBSET Txn /\ lost' = lost
    BY <1>2 DEF Reject, storeVars, appVars, Inv, TypeOK
  <2> QED BY <2>1, <2>2, EndInv
<1>3. ASSUME NEW r \in Request, LoseAnswer(r)
      PROVE  Inv'
  <2>1. args[r].receipt \in Txn /\ granted[r] \in Nat
    BY <1>3, ArgsType DEF LoseAnswer, Inv, TypeOK
  <2>2. /\ lost' \in SUBSET Txn /\ lost \subseteq lost'
        /\ granted[r] # 0 => args[r].receipt \in lost'
    BY <1>3, <2>1 DEF LoseAnswer, Inv, TypeOK
  <2>3. /\ End(r)
        /\ UNCHANGED <<sold, purchases, paid, completed>>
        /\ cancelled' \in SUBSET Txn
    BY <1>3 DEF LoseAnswer, storeVars, Inv, TypeOK
  <2> QED BY <2>2, <2>3, EndInv
<1>4. CASE UNCHANGED vars
  BY <1>4 DEF vars, Inv, TypeOK, RowsBacked, Genuine, Recorded, GrantsOnce, Accounted, OnItsWay
<1> QED
  BY <1>1, <1>2, <1>3, <1>4, PostInv, AcceptInv, RecordInv, RecordFailsInv, AnswerInv
  DEF Next, RequestStep

-----------------------------------------------------------------------------
(* The theorems. *)

LEMMA Invariance == Spec => []Inv
<1>1. Inv /\ [Next]_vars => Inv'
  BY StepInv
<1> QED BY <1>1, InitInv, PTL DEF Spec

(* Every variable of the verification keeps its type, whatever the stores   *)
(* and the apps do; no answer grants a negative number of coins.            *)
THEOREM TypeCorrect == Spec => []TypeOK
<1>1. Inv => TypeOK
  BY DEF Inv
<1> QED BY <1>1, Invariance, PTL

(* Every row of table purchases is the one row of a purchase that a store   *)
(* completed, with the coins of the product that was sold.                  *)
THEOREM RowsAreBacked == Spec => []RowsBacked
<1>1. Inv => RowsBacked
  BY DEF Inv
<1> QED BY <1>1, Invariance, PTL

(* Duplicate and repeated requests never leave a completed purchase without *)
(* its coins; a lost answer is needed for that.                             *)
THEOREM CoinsUnlessLost == Spec => []PaidUnlessLost
<1>1. Inv => PaidUnlessLost
  BY DEF Inv, TypeOK, Recorded, Accounted, PaidUnlessLost
<1> QED BY <1>1, Invariance, PTL

(* The service implements the Ledger: the coins of a purchase are paid once, *)
(* in full, and after a store completed it.                                  *)
THEOREM ImplementsLedger == Spec => PaidOnce
<1>1. Init => L!Init
  BY DEF Init, L!Init
<1>2. ASSUME Inv, [Next]_vars
      PROVE  [L!Next]_<<sold, paid>>
  <2>1. ASSUME NEW t \in Txn, Sell(t) \/ Cancel(t)
        PROVE  [L!Next]_<<sold, paid>>
    BY <2>1 DEF Sell, Cancel, appVars, L!Next, L!Sell
  <2>2. ASSUME NEW r \in Request, Answer(r)
        PROVE  [L!Next]_<<sold, paid>>
    <3> DEFINE t == args[r].receipt
    <3>1. /\ t \in Txn /\ t \in sold /\ paid[t] \in Nat /\ granted[r] \in Nat
          /\ paid' = [paid EXCEPT ![t] = @ + granted[r]] /\ sold' = sold
      BY <1>2, <2>2, ArgsType DEF Answer, storeVars, Inv, Genuine, TypeOK
    <3>2. CASE granted[r] = 0
      <4>1. paid[t] + granted[r] = paid[t]
        BY <3>1, <3>2
      <4>2. paid' = [paid EXCEPT ![t] = paid[t]]
        BY <3>1, <4>1
      <4>3. paid' = paid
        BY <1>2, <4>2 DEF Inv, TypeOK
      <4> QED BY <3>1, <4>3
    <3>3. CASE granted[r] # 0
      <4>1. granted[r] = Value[t] /\ paid[t] = 0
        BY <1>2, <3>3 DEF Inv, GrantsOnce
      <4>2. paid[t] + granted[r] = Value[t]
        BY <3>1, <4>1
      <4>3. paid' = [paid EXCEPT ![t] = Value[t]]
        BY <3>1, <4>2
      <4> QED BY <3>1, <4>1, <4>3 DEF L!Next, L!Pay
    <3> QED BY <3>2, <3>3
  <2>3. CASE UNCHANGED <<sold, paid>>
    BY <2>3
  <2>4. ASSUME NEW r \in Request,
               Post(r) \/ Accept(r) \/ Reject(r) \/ RecordPurchase(r) \/ RecordFails(r)
                 \/ LoseAnswer(r)
        PROVE  UNCHANGED <<sold, paid>>
    BY <2>4 DEF Post, Accept, Reject, RecordPurchase, RecordFails, LoseAnswer, storeVars, appVars
  <2>5. UNCHANGED vars => UNCHANGED <<sold, paid>>
    BY DEF vars
  <2> QED BY <1>2, <2>1, <2>2, <2>3, <2>4, <2>5 DEF Next, RequestStep
<1> QED BY <1>1, <1>2, Invariance, PTL DEF Spec, PaidOnce, L!Spec

=============================================================================
