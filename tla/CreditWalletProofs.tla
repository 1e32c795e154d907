-------------------------- MODULE CreditWalletProofs --------------------------
(***************************************************************************)
(* The wallet for every number of handlers and wallets and every price:    *)
(* its types, the conservation of credits, the user journal, and the bound *)
(* on what concurrent deductions can overdraw.                             *)
(***************************************************************************)
EXTENDS CreditWallet, FiniteSetTheorems, TLAPS

USE RequestsFinite, WalletsDisjoint, MaxCostPositive, BoundsAreNats, NoTxIsNotATx

(* Multiplication by a price, the only non-linear facts the bound needs.   *)
LEMMA TimesStep ==
  ASSUME NEW m \in Nat, NEW k \in Nat
  PROVE  m * (k + 1) = m * k + m /\ m * k \in Nat
  OBVIOUS

(* Multiplication by a natural number is monotone.                         *)
LEMMA TimesMonotone ==
  ASSUME NEW m \in Nat, NEW k \in Nat, NEW n \in Nat, k <= n
  PROVE  m * k <= m * n
<1> DEFINE d == n - k
<1>1. d \in Nat /\ n = k + d
  OBVIOUS
<1>2. m * n = m * k + m * d
  BY <1>1
<1>3. m * d \in Nat /\ m * k \in Nat
  BY <1>1
<1> QED
  BY <1>2, <1>3

(* The open deductions against a wallet are finite in number.              *)
LEMMA ExposedFinite ==
  ASSUME NEW w \in Wallets
  PROVE  /\ IsFiniteSet(Exposed(w))
         /\ Cardinality(Exposed(w)) \in Nat
         /\ Cardinality(Requests) \in Nat
         /\ Cardinality(Exposed(w)) <= Cardinality(Requests)
BY FS_Subset, FS_CardinalityType DEF Exposed

(* The initial state satisfies the inductive invariant.                    *)
LEMMA InitInv == WalletInit => WalletInv
<1> SUFFICES ASSUME WalletInit
             PROVE  WalletInv
  OBVIOUS
<1>1. WalletTypeOK
  BY DEF WalletInit, WalletTypeOK, OpeningBalance, Deducting, Wallets
<1>2. Conservation /\ UserJournalReconciles
  BY DEF WalletInit, Conservation, UserJournalReconciles, OpeningBalance, Wallets
<1>3. Exposure
  <2> SUFFICES ASSUME NEW w \in Wallets
               PROVE  credits[w] - MaxCost * Cardinality(Exposed(w))
                        > - (MaxCost * Cardinality(Requests))
    BY DEF Exposure
  <2>1. Exposed(w) = {}
    BY DEF Exposed, WalletInit, Deducting
  <2>2. Cardinality(Exposed(w)) = 0
    BY <2>1, FS_EmptySet
  <2>3. Cardinality(Requests) \in Nat /\ Cardinality(Requests) # 0
    BY FS_CardinalityType, FS_EmptySet
  <2>4. MaxCost * Cardinality(Requests) > 0
    BY <2>3
  <2>5. credits[w] \in Nat
    BY DEF WalletInit, OpeningBalance
  <2> QED
    BY <2>2, <2>3, <2>4, <2>5
<1> QED
  BY <1>1, <1>2, <1>3 DEF WalletInv

(* Each step keeps the types.                                              *)
LEMMA TypeStep == WalletTypeOK /\ [WalletNext]_walletVars => WalletTypeOK'
<1> SUFFICES ASSUME WalletTypeOK, [WalletNext]_walletVars
             PROVE  WalletTypeOK'
  OBVIOUS
<1> USE DEF WalletTypeOK, Deducting, Invoicing, Tx
<1>1. ASSUME NEW h \in Requests, NEW w \in Wallets, NEW cost \in 1 .. MaxCost,
             BeginDeduct(h, w, cost)
      PROVE  WalletTypeOK'
  BY <1>1 DEF BeginDeduct, Affords
<1>2. ASSUME NEW h \in Requests, CommitDeduct(h)
      PROVE  WalletTypeOK'
  BY <1>2 DEF CommitDeduct, Remainder, Spent, JournalEntry
<1>3. ASSUME NEW h \in Requests, RollbackDeduct(h) \/ LoseInvoice(h)
      PROVE  WalletTypeOK'
  BY <1>3 DEF RollbackDeduct, LoseInvoice
<1>4. ASSUME NEW h \in Requests, NEW w \in Wallets, NEW n \in 1 .. MaxGrant, TopUp(h, w, n)
      PROVE  WalletTypeOK'
  BY <1>4 DEF TopUp, Credit
<1>5. ASSUME NEW h \in Requests, InvoiceTopUp(h)
      PROVE  WalletTypeOK'
  BY <1>5 DEF InvoiceTopUp
<1>6. ASSUME NEW w \in Wallets, Grant(w)
      PROVE  WalletTypeOK'
  BY <1>6 DEF Grant, AddCredits, Credit, AddTeamCredits
<1>7. CASE UNCHANGED walletVars
  BY <1>7 DEF walletVars
<1> QED
  BY <1>1, <1>2, <1>3, <1>4, <1>5, <1>6, <1>7 DEF WalletNext

(* Each step keeps the two accounting equations.                           *)
LEMMA AccountingStep ==
  WalletTypeOK /\ Conservation /\ UserJournalReconciles /\ [WalletNext]_walletVars
    => Conservation' /\ UserJournalReconciles'
<1> SUFFICES ASSUME WalletTypeOK, Conservation, UserJournalReconciles, [WalletNext]_walletVars
             PROVE  Conservation' /\ UserJournalReconciles'
  OBVIOUS
<1> USE DEF WalletTypeOK, Conservation, UserJournalReconciles, OpeningBalance, Wallets
<1>1. ASSUME NEW h \in Requests, NEW w \in Wallets, NEW cost \in 1 .. MaxCost,
             BeginDeduct(h, w, cost)
      PROVE  Conservation' /\ UserJournalReconciles'
  BY <1>1 DEF BeginDeduct, Affords
<1>2. ASSUME NEW h \in Requests, CommitDeduct(h)
      PROVE  Conservation' /\ UserJournalReconciles'
  BY <1>2 DEF CommitDeduct, Remainder, Spent, JournalEntry, Deducting, Tx
<1>3. ASSUME NEW h \in Requests, RollbackDeduct(h) \/ LoseInvoice(h) \/ InvoiceTopUp(h)
      PROVE  Conservation' /\ UserJournalReconciles'
  BY <1>3 DEF RollbackDeduct, LoseInvoice, InvoiceTopUp
<1>4. ASSUME NEW h \in Requests, NEW w \in Wallets, NEW n \in 1 .. MaxGrant, TopUp(h, w, n)
      PROVE  Conservation' /\ UserJournalReconciles'
  <2>1. /\ w \in UserWallets /\ n \in Nat
        /\ credits' = [credits EXCEPT ![w] = @ + n]
        /\ journal' = [journal EXCEPT ![w] = @ + n]
        /\ granted' = [granted EXCEPT ![w] = @ + n]
        /\ used' = used
    BY <1>4 DEF TopUp, Credit
  <2>2. ASSUME NEW v \in Wallets
        PROVE  credits'[v] + used'[v] = OpeningBalance(v) + granted'[v]
    <3>1. credits[v] + used[v] = OpeningBalance(v) + granted[v]
      BY DEF Conservation
    <3>2. CASE v = w
      <4>1. credits'[v] = credits[v] + n /\ granted'[v] = granted[v] + n /\ used'[v] = used[v]
        BY <2>1, <3>2
      <4>2. credits[v] \in Int /\ granted[v] \in Nat /\ used[v] \in Nat
        OBVIOUS
      <4>3. OpeningBalance(v) \in Int
        OBVIOUS
      <4> HIDE DEF OpeningBalance, WalletTypeOK, Conservation, UserJournalReconciles
      <4> QED
        BY <2>1, <3>1, <4>1, <4>2, <4>3
    <3>3. CASE v # w
      BY <2>1, <3>1, <3>3
    <3> QED
      BY <3>2, <3>3
  <2>3. UserJournalReconciles'
    BY <2>1
  <2> QED
    BY <2>2, <2>3
<1>5. ASSUME NEW w \in Wallets, Grant(w)
      PROVE  Conservation' /\ UserJournalReconciles'
  BY <1>5 DEF Grant, AddCredits, Credit, AddTeamCredits
<1>6. CASE UNCHANGED walletVars
  BY <1>6 DEF walletVars
<1> QED
  BY <1>1, <1>2, <1>3, <1>4, <1>5, <1>6 DEF WalletNext

(* A step that neither lowers a balance nor opens a deduction keeps the    *)
(* exposure.                                                               *)
LEMMA ExposureShrinks ==
  ASSUME WalletTypeOK, WalletTypeOK', Exposure, NEW w \in Wallets,
         credits'[w] >= credits[w], Exposed(w)' \subseteq Exposed(w)
  PROVE  credits'[w] - MaxCost * Cardinality(Exposed(w)')
           > - (MaxCost * Cardinality(Requests))
<1>1. /\ IsFiniteSet(Exposed(w)) /\ Cardinality(Exposed(w)) \in Nat
      /\ Cardinality(Requests) \in Nat
  BY ExposedFinite
<1>2. /\ Cardinality(Exposed(w)') \in Nat
      /\ Cardinality(Exposed(w)') <= Cardinality(Exposed(w))
  BY <1>1, FS_Subset, FS_CardinalityType
<1>3. MaxCost * Cardinality(Exposed(w)') <= MaxCost * Cardinality(Exposed(w))
  BY <1>1, <1>2, TimesMonotone
<1>4. /\ MaxCost * Cardinality(Exposed(w)') \in Nat
      /\ MaxCost * Cardinality(Exposed(w)) \in Nat
      /\ MaxCost * Cardinality(Requests) \in Nat
  BY <1>1, <1>2, TimesStep
<1>5. credits[w] - MaxCost * Cardinality(Exposed(w)) > - (MaxCost * Cardinality(Requests))
  BY DEF Exposure
<1>6. credits[w] \in Int /\ credits'[w] \in Int
  BY DEF WalletTypeOK
<1> QED
  BY <1>3, <1>4, <1>5, <1>6

(* Opening a deduction was checked against today's balance, and every      *)
(* other handler can be exposed at most once.                              *)
LEMMA ExposureOpens ==
  ASSUME WalletInv, WalletTypeOK', NEW h \in Requests, NEW w \in Wallets,
         NEW cost \in 1 .. MaxCost, BeginDeduct(h, w, cost)
  PROVE  credits'[w] - MaxCost * Cardinality(Exposed(w)')
           > - (MaxCost * Cardinality(Requests))
<1>1. credits' = credits /\ credits[w] \in Int /\ credits[w] >= 1
  BY DEF BeginDeduct, Affords, WalletInv, WalletTypeOK
<1>2. IsFiniteSet(Exposed(w)') /\ Cardinality(Exposed(w)') \in Nat
      /\ Cardinality(Requests) \in Nat
      /\ Cardinality(Exposed(w)') <= Cardinality(Requests)
  BY FS_Subset, FS_CardinalityType DEF Exposed
<1>3. MaxCost * Cardinality(Exposed(w)') <= MaxCost * Cardinality(Requests)
  BY <1>2, TimesMonotone
<1>4. /\ MaxCost * Cardinality(Exposed(w)') \in Nat
      /\ MaxCost * Cardinality(Requests) \in Nat
  BY <1>2, TimesStep
<1> QED
  BY <1>1, <1>3, <1>4

(* A commit lowers the balance by at most MaxCost and closes one exposure. *)
LEMMA ExposureCloses ==
  ASSUME WalletInv, WalletTypeOK', NEW h \in Requests, CommitDeduct(h),
         NEW w \in Wallets, w = tx[h].wallet
  PROVE  credits'[w] - MaxCost * Cardinality(Exposed(w)')
           > - (MaxCost * Cardinality(Requests))
<1> USE DEF WalletInv
<1>1. tx[h].amount \in Nat /\ tx[h].amount <= MaxCost /\ h \in Exposed(w)
  BY DEF CommitDeduct, Remainder, Spent, JournalEntry, Deducting, WalletTypeOK, Tx, Exposed
<1>2. credits'[w] = credits[w] - tx[h].amount /\ credits[w] \in Int
  BY <1>1 DEF CommitDeduct, Remainder, Spent, JournalEntry, WalletTypeOK
<1>3. Exposed(w)' = Exposed(w) \ {h}
  <2>1. tx' = [tx EXCEPT ![h] = NoTx]
    BY DEF CommitDeduct, Remainder, Spent, JournalEntry
  <2>2. tx'[h] = NoTx /\ \A g \in Requests \ {h} : tx'[g] = tx[g]
    BY <2>1 DEF WalletTypeOK
  <2> QED
    BY <2>2 DEF Exposed, Deducting
<1>4. IsFiniteSet(Exposed(w)) /\ Cardinality(Exposed(w)) \in Nat
      /\ Cardinality(Requests) \in Nat
  BY <1>1, ExposedFinite
<1>5. Cardinality(Exposed(w)') \in Nat
      /\ Cardinality(Exposed(w)) = Cardinality(Exposed(w)') + 1
  <2>1. IsFiniteSet(Exposed(w)') /\ Cardinality(Exposed(w)') = Cardinality(Exposed(w)) - 1
    BY <1>1, <1>3, <1>4, FS_RemoveElement
  <2>2. Cardinality(Exposed(w)') \in Nat
    BY <2>1, FS_CardinalityType
  <2> QED
    BY <1>4, <2>1, <2>2
<1>6. MaxCost * Cardinality(Exposed(w)) = MaxCost * Cardinality(Exposed(w)') + MaxCost
  BY <1>5, TimesStep
<1>7. /\ MaxCost * Cardinality(Exposed(w)') \in Nat
      /\ MaxCost * Cardinality(Requests) \in Nat
  BY <1>4, <1>5, TimesStep
<1>8. credits[w] - MaxCost * Cardinality(Exposed(w)) > - (MaxCost * Cardinality(Requests))
  BY <1>1 DEF Exposure
<1> QED
  BY <1>1, <1>2, <1>6, <1>7, <1>8

(* No interleaving of deductions, roll-backs, grants and top-ups leaves    *)
(* the exposure bound.                                                     *)
LEMMA ExposureStep ==
  WalletInv /\ WalletTypeOK' /\ [WalletNext]_walletVars => Exposure'
<1> SUFFICES ASSUME WalletInv, WalletTypeOK', [WalletNext]_walletVars, NEW v \in Wallets
             PROVE  credits'[v] - MaxCost * Cardinality(Exposed(v)')
                      > - (MaxCost * Cardinality(Requests))
  BY DEF Exposure
<1> DEFINE Shrinks == credits'[v] >= credits[v] /\ Exposed(v)' \subseteq Exposed(v)
<1> USE DEF WalletInv
<1>0. credits[v] \in Int
  BY DEF WalletTypeOK
<1>1. ASSUME Shrinks
      PROVE  credits'[v] - MaxCost * Cardinality(Exposed(v)')
               > - (MaxCost * Cardinality(Requests))
  BY <1>1, ExposureShrinks
<1>2. ASSUME NEW h \in Requests, NEW w \in Wallets, NEW cost \in 1 .. MaxCost,
             BeginDeduct(h, w, cost), v # w
      PROVE  Shrinks
  BY <1>0, <1>2 DEF BeginDeduct, Affords, Exposed, Deducting, WalletTypeOK
<1>3. ASSUME NEW h \in Requests, CommitDeduct(h), v # tx[h].wallet
      PROVE  Shrinks
  BY <1>0, <1>3 DEF CommitDeduct, Remainder, Spent, JournalEntry, Exposed, Deducting, WalletTypeOK
<1>4. ASSUME NEW h \in Requests, RollbackDeduct(h) \/ LoseInvoice(h) \/ InvoiceTopUp(h)
      PROVE  Shrinks
  BY <1>0, <1>4 DEF RollbackDeduct, LoseInvoice, InvoiceTopUp, Exposed, Deducting, WalletTypeOK
<1>5. ASSUME NEW h \in Requests, NEW w \in Wallets, NEW n \in 1 .. MaxGrant, TopUp(h, w, n)
      PROVE  Shrinks
  BY <1>0, <1>5 DEF TopUp, Credit, Exposed, Deducting, WalletTypeOK
<1>6. ASSUME NEW w \in Wallets, Grant(w)
      PROVE  Shrinks
  BY <1>0, <1>6 DEF Grant, AddCredits, Credit, AddTeamCredits, Exposed, Deducting, WalletTypeOK
<1>7. CASE UNCHANGED walletVars
  BY <1>0, <1>1, <1>7 DEF walletVars, Exposed, Deducting
<1> HIDE DEF Shrinks
<1>8. ASSUME NEW h \in Requests, NEW w \in Wallets, NEW cost \in 1 .. MaxCost,
             BeginDeduct(h, w, cost)
      PROVE  credits'[v] - MaxCost * Cardinality(Exposed(v)')
               > - (MaxCost * Cardinality(Requests))
  BY <1>1, <1>2, <1>8, ExposureOpens
<1>9. ASSUME NEW h \in Requests, CommitDeduct(h)
      PROVE  credits'[v] - MaxCost * Cardinality(Exposed(v)')
               > - (MaxCost * Cardinality(Requests))
  BY <1>1, <1>3, <1>9, ExposureCloses
<1> QED
  BY <1>1, <1>4, <1>5, <1>6, <1>7, <1>8, <1>9 DEF WalletNext

(* The inductive invariant of the wallet holds for every set of handlers,  *)
(* every set of wallets and every price up to MaxCost.                     *)
THEOREM WalletInvariant == WalletSpec => []WalletInv
<1>1. WalletInit => WalletInv
  BY InitInv
<1>2. WalletInv /\ [WalletNext]_walletVars => WalletInv'
  BY TypeStep, AccountingStep, ExposureStep DEF WalletInv
<1> QED
  BY <1>1, <1>2, PTL DEF WalletSpec

(* Every state of the wallet is well typed.                                *)
THEOREM WalletTypes == WalletSpec => []WalletTypeOK
<1>1. WalletInv => WalletTypeOK
  BY DEF WalletInv
<1> QED
  BY <1>1, WalletInvariant, PTL

(* deductCredits and addCredits never create or lose a credit: balance and *)
(* totalCreditsUsed always add up to what was granted.                     *)
THEOREM CreditsConserved == WalletSpec => []Conservation
<1>1. WalletInv => Conservation
  BY DEF WalletInv
<1> QED
  BY <1>1, WalletInvariant, PTL

(* A user's balance is always explained by the user's CreditLog rows.      *)
THEOREM UserJournal == WalletSpec => []UserJournalReconciles
<1>1. WalletInv => UserJournalReconciles
  BY DEF WalletInv
<1> QED
  BY <1>1, WalletInvariant, PTL

(* However many deductions interleave, a wallet's debt stays below MaxCost *)
(* times the number of concurrent handlers.                                *)
THEOREM OverdraftBounded == WalletSpec => []BoundedOverdraft
<1>1. WalletInv => BoundedOverdraft
  <2> SUFFICES ASSUME WalletInv, NEW w \in Wallets
               PROVE  credits[w] > - (MaxCost * Cardinality(Requests))
    BY DEF BoundedOverdraft
  <2>1. Cardinality(Exposed(w)) \in Nat /\ Cardinality(Requests) \in Nat
    BY ExposedFinite
  <2>2. MaxCost * Cardinality(Exposed(w)) \in Nat /\ MaxCost * Cardinality(Requests) \in Nat
    BY <2>1, TimesStep
  <2>3. credits[w] \in Int
    BY DEF WalletInv, WalletTypeOK
  <2> QED
    BY <2>2, <2>3 DEF WalletInv, Exposure
<1> QED
  BY <1>1, WalletInvariant, PTL
===============================================================================
