----------------------------- MODULE LedgerProofs -----------------------------
(***************************************************************************)
(* Theorems about Ledger, for every value of its constants: typing, with   *)
(* balances that are never negative; a hash chain that retention does not  *)
(* break; wallets that are what their newest entry or checkpoint says; and *)
(* the limits of a promotion.                                              *)
(***************************************************************************)
EXTENDS LedgerProperties, SumLemmas

USE DEF walletVars, shopVars, clockVars

-----------------------------------------------------------------------------
(* The inductive invariant *)

\* Rows that Before orders: a finite number of them, told apart by their ids.
Ordered(X) ==
  /\ IsFiniteSet(X)
  /\ \A e \in X : e.at \in Nat /\ e.id \in Nat
  /\ \A e, f \in X : e.id = f.id => e = f

\* Entries of a user who was never overtaken are in the order of their numbers.
InOrder(u) == \A e, f \in EntriesOf(u) : e.id < f.id => e.at <= f.at

LedgerInv ==
  /\ IsFiniteSet(ledger)
  /\ \A e, f \in ledger : e.id = f.id => e = f
  /\ \A u \in Users \ overtaken : InOrder(u)
  /\ \A i \in Items : RefundEntries(i) # {} => returned[i] >= 1

\* The top-ups used on a day.
UsedOn(u, d) == { x.topup : x \in UsesOn(u, d) }

\* What a use of the promotion was worth is what its top-up carries, which is used once.
UsageInv ==
  /\ IsFiniteSet(usage)
  /\ \A x \in usage : topup[x.topup] # "REDEEMED" /\ bonus[x.topup] = x.bonus
  /\ \A u \in Users : Cardinality(Uses(u)) <= MaxUses
  /\ \A u \in Users, d \in Nat : Sum(bonus, UsedOn(u, d)) = BonusOn(u, d) /\ BonusOn(u, d) <= DailyBonus

BooksInv == TypeOK /\ LedgerInv /\ ChainIsUnbroken /\ WalletMatchesLedger /\ UsageInv

\* Users, top-ups and items are numbers, and an order has finitely many items.
LEMMA Numbers ==
  /\ \A u \in Users : u \in Nat
  /\ \A t \in Topups : t \in Nat /\ UserOfTopup[t] \in Users /\ Face[t] \in Nat
  /\ \A i \in Items : i \in Nat /\ UserOfItem[i] \in Users /\ Price[i] \in Nat
  /\ \A S \in SUBSET Items : IsFiniteSet(S) /\ S \in SUBSET Nat
  /\ \A x \in Tiers : x.minimum \in Nat /\ x.points \in Nat
<1>1. Users \subseteq Nat /\ Topups \subseteq Nat /\ Items \subseteq Nat /\ IsFiniteSet(Items)
  BY LedgerAssumption
<1>2. \A t \in Topups : UserOfTopup[t] \in Users /\ Face[t] \in Nat
  BY LedgerAssumption
<1>3. \A i \in Items : UserOfItem[i] \in Users /\ Price[i] \in Nat
  BY LedgerAssumption
<1>4. \A S \in SUBSET Items : IsFiniteSet(S)
  BY <1>1, FS_Subset
<1>5. \A x \in Tiers : x.minimum \in Nat /\ x.points \in Nat
  BY LedgerAssumption
<1> QED BY <1>1, <1>2, <1>3, <1>4, <1>5

-----------------------------------------------------------------------------
(* The order of the entries *)

\* Part of an ordered set is ordered.
LEMMA OrderedPart ==
  ASSUME NEW X, Ordered(X), NEW A \in SUBSET X
  PROVE  Ordered(A)
BY FS_Subset DEF Ordered

\* Two rows come one before the other, and what comes before what comes before does so too.
LEMMA OrderIsTotal ==
  ASSUME NEW X, Ordered(X), NEW e \in X, NEW f \in X
  PROVE  /\ e = f \/ Before(e, f) \/ Before(f, e)
         /\ ~(Before(e, f) /\ Before(f, e)) /\ ~Before(e, e)
         /\ \A g \in X : Before(e, f) /\ Before(f, g) => Before(e, g)
BY DEF Ordered, Before

\* A set that is not empty has a newest row.
LEMMA NewestExists ==
  ASSUME NEW X, Ordered(X), X # {}
  PROVE  \E e \in X : \A f \in X : f = e \/ Before(f, e)
<1> DEFINE Y == { A \in SUBSET X : A = {} \/ \E e \in A : \A f \in A : f = e \/ Before(f, e) }
<1>1. {} \in Y
  OBVIOUS
<1>2. ASSUME NEW A \in SUBSET X, NEW x \in X \ A, A \in Y
      PROVE  A \cup {x} \in Y
  <2>1. CASE A = {}
    BY <2>1
  <2>2. CASE A # {}
    <3>1. PICK e \in A : \A f \in A : f = e \/ Before(f, e)
      BY <1>2, <2>2
    <3>2. CASE Before(x, e)
      BY <3>1, <3>2
    <3>3. CASE ~Before(x, e)
      <4>1. Before(e, x)
        BY <3>1, <3>3, OrderIsTotal
      <4>2. \A f \in A : Before(f, x)
        BY <3>1, <4>1, OrderIsTotal
      <4> QED BY <4>2
    <3> QED BY <3>2, <3>3
  <2> QED BY <2>1, <2>2
<1>3. X \in Y
  <2>1. IsFiniteSet(X)
    BY DEF Ordered
  <2> HIDE DEF Y
  <2> QED BY <1>1, <1>2, <2>1, SubsetInduction
<1> QED BY <1>3

\* Which is the one that Newest takes.
LEMMA NewestIs ==
  ASSUME NEW X, Ordered(X), X # {}
  PROVE  Newest(X) \in X /\ \A f \in X : f = Newest(X) \/ Before(f, Newest(X))
BY NewestExists DEF Newest

\* There is no other.
LEMMA NewestUnique ==
  ASSUME NEW X, Ordered(X), NEW e \in X, \A f \in X : f = e \/ Before(f, e)
  PROVE  Newest(X) = e
<1>1. Newest(X) \in X /\ \A f \in X : f = Newest(X) \/ Before(f, Newest(X))
  BY NewestIs
<1> QED BY <1>1, OrderIsTotal

\* When the oldest rows go, the newest that is left of those before some row is what it was.
LEMMA NewestKept ==
  ASSUME NEW X, Ordered(X), NEW G \in SUBSET X, \A g \in G, f \in X : Before(f, g) => f \in G,
         X \ G # {}
  PROVE  Newest(X \ G) = Newest(X)
<1>1. Ordered(X \ G)
  BY OrderedPart
<1>2. Newest(X) \in X /\ \A f \in X : f = Newest(X) \/ Before(f, Newest(X))
  BY NewestIs
<1>3. Newest(X) \in X \ G
  BY <1>2
<1> QED BY <1>1, <1>2, <1>3, NewestUnique

-----------------------------------------------------------------------------
(* The numbers of the entries *)

\* The sums of the model are those of SumLemmas.
LEMMA SumIs ==
  ASSUME NEW f, NEW S
  PROVE  Sum(f, S) = SumOf(f, S)
BY DEF Sum, SumOf

\* The greatest of a finite set of numbers.
LEMMA GreatestNat ==
  ASSUME NEW S \in SUBSET Nat, IsFiniteSet(S), S # {}
  PROVE  \E x \in S : \A y \in S : y <= x
<1> DEFINE Y == { A \in SUBSET S : A = {} \/ \E x \in A : \A y \in A : y <= x }
<1>1. {} \in Y
  OBVIOUS
<1>2. ASSUME NEW A \in SUBSET S, NEW x \in S \ A, A \in Y
      PROVE  A \cup {x} \in Y
  <2>1. CASE A = {}
    BY <2>1
  <2>2. CASE A # {}
    <3>1. PICK m \in A : \A y \in A : y <= m
      BY <1>2, <2>2
    <3>2. CASE x <= m
      BY <3>1, <3>2
    <3>3. CASE m <= x
      <4>1. \A y \in A \cup {x} : y <= x
        BY <3>1, <3>3
      <4> QED BY <4>1
    <3>4. x \in Nat /\ m \in Nat
      OBVIOUS
    <3> QED BY <3>2, <3>3, <3>4
  <2> QED BY <2>1, <2>2
<1>3. S \in Y
  <2> HIDE DEF Y
  <2> QED BY <1>1, <1>2, SubsetInduction
<1> QED BY <1>3

\* The things of a transaction are numbered from 1 to how many they are, in their order.
LEMMA NthType ==
  ASSUME NEW S \in SUBSET Nat, IsFiniteSet(S), NEW x \in S
  PROVE  /\ IsFiniteSet(UpTo(S, x)) /\ UpTo(S, x) \in SUBSET S /\ x \in UpTo(S, x)
         /\ Nth(S, x) \in 1 .. Cardinality(S)
<1>1. UpTo(S, x) \in SUBSET S /\ x \in UpTo(S, x)
  BY DEF UpTo
<1>2. IsFiniteSet(UpTo(S, x)) /\ Cardinality(UpTo(S, x)) <= Cardinality(S)
  BY <1>1, FS_Subset
<1>3. Cardinality(UpTo(S, x)) \in Nat /\ Cardinality(S) \in Nat /\ Cardinality(UpTo(S, x)) # 0
  BY <1>1, <1>2, FS_CardinalityType, FS_EmptySet
<1> QED BY <1>1, <1>2, <1>3 DEF Nth

\* The later of two things in a set has the higher position.
LEMMA NthGrows ==
  ASSUME NEW S \in SUBSET Nat, IsFiniteSet(S), NEW x \in S, NEW y \in S, x < y
  PROVE  Nth(S, x) < Nth(S, y)
<1>1. IsFiniteSet(UpTo(S, y)) /\ IsFiniteSet(UpTo(S, x))
  BY NthType
<1>2. UpTo(S, x) \subseteq UpTo(S, y) /\ y \in UpTo(S, y) /\ y \notin UpTo(S, x)
  <2>1. \A z \in S : z \in Nat
    OBVIOUS
  <2>2. \A z \in S : z <= x => z <= y
    BY <2>1
  <2>3. y <= y /\ ~(y <= x)
    BY <2>1
  <2> QED BY <2>2, <2>3 DEF UpTo
<1>3. Cardinality(UpTo(S, x)) <= Cardinality(UpTo(S, y)) /\ Cardinality(UpTo(S, x)) # Cardinality(UpTo(S, y))
  BY <1>1, <1>2, FS_Subset
<1>4. Cardinality(UpTo(S, x)) \in Nat /\ Cardinality(UpTo(S, y)) \in Nat
  BY <1>1, FS_CardinalityType
<1> QED BY <1>3, <1>4 DEF Nth

\* The first has none before it; any other has one right before it.
LEMMA NthPrevious ==
  ASSUME NEW S \in SUBSET Nat, IsFiniteSet(S), NEW x \in S
  PROVE  /\ Nth(S, x) = 1 => \A y \in S : x <= y
         /\ Nth(S, x) # 1 => \E y \in S : y < x /\ Nth(S, y) = Nth(S, x) - 1 /\ \A z \in S : z < x => z <= y
<1>0. IsFiniteSet(UpTo(S, x)) /\ x \in UpTo(S, x) /\ UpTo(S, x) \in SUBSET S /\ S \in SUBSET Nat
  BY NthType
<1>1. IsFiniteSet(UpTo(S, x) \ {x}) /\ Cardinality(UpTo(S, x) \ {x}) = Nth(S, x) - 1
  BY <1>0, FS_RemoveElement DEF Nth
<1>2. Nth(S, x) \in Nat
  BY NthType
<1>3. ASSUME Nth(S, x) = 1, NEW y \in S PROVE x <= y
  <2>1. UpTo(S, x) \ {x} = {}
    BY <1>1, <1>3, FS_EmptySet
  <2>2. y \in UpTo(S, x) => y = x
    BY <2>1
  <2> QED BY <2>2 DEF UpTo
<1>4. ASSUME Nth(S, x) # 1
      PROVE  \E y \in S : y < x /\ Nth(S, y) = Nth(S, x) - 1 /\ \A z \in S : z < x => z <= y
  <2>1. UpTo(S, x) \ {x} # {}
    BY <1>1, <1>2, <1>4, FS_EmptySet
  <2>2. PICK y \in UpTo(S, x) \ {x} : \A z \in UpTo(S, x) \ {x} : z <= y
    BY <1>0, <1>1, <2>1, GreatestNat
  <2>3. y \in S /\ y < x
    BY <1>0, <2>2 DEF UpTo
  <2>4. \A z \in S : z < x => z <= y
    BY <2>2 DEF UpTo
  <2>5. UpTo(S, y) = UpTo(S, x) \ {x}
    <3>1. \A z \in S : z <= y <=> (z <= x /\ z # x)
      BY <1>0, <2>3, <2>4
    <3> QED BY <3>1 DEF UpTo
  <2>6. Nth(S, y) = Nth(S, x) - 1
    BY <1>1, <2>5 DEF Nth
  <2> QED BY <2>3, <2>4, <2>6
<1> QED BY <1>3, <1>4

\* The last is numbered by how many they are, and comes after all.
LEMMA NthLast ==
  ASSUME NEW S \in SUBSET Nat, IsFiniteSet(S), S # {}
  PROVE  \E x \in S : UpTo(S, x) = S /\ \A y \in S : y <= x
<1>1. PICK x \in S : \A y \in S : y <= x
  BY GreatestNat
<1>2. UpTo(S, x) = S
  BY <1>1 DEF UpTo
<1> QED BY <1>1, <1>2

-----------------------------------------------------------------------------
(* A transaction that enters something *)

\* The moments at which a transaction begins.
LEMMA TimesType ==
  ASSUME TypeOK, NEW at \in Times
  PROVE  at \in Nat /\ at >= 1
BY DEF TypeOK, BooksOK, ItemsOK, Times

\* What reservations, captures, releases, refunds, credits, reversals and adjustments do to the
\* books of u: a and r are what each thing of S changes.
Enters(u, type, S, a, r, at) ==
  /\ IsFiniteSet(S) /\ S # {}
  /\ \A x \in S : a[x] \in Int /\ r[x] \in Int
  /\ \A x \in S : /\ available[u] + SumOf(a, UpTo(S, x)) >= 0
                  /\ reserved[u] + SumOf(r, UpTo(S, x)) >= 0
  /\ UpdateWallet(u, SumOf(a, S), SumOf(r, S))
  /\ AppendLedger(u, type, S, a, r, at)
  /\ UNCHANGED checkpoint

\* The balances an entry carries are within those of the wallet before and after.
LEMMA EntryType ==
  ASSUME TypeOK, LedgerInv, NEW u \in Users, NEW type \in EntryTypes, NEW S \in SUBSET Nat, NEW a, NEW r,
         NEW at \in Times, Enters(u, type, S, a, r, at), NEW x \in S
  PROVE  /\ Entry(u, type, S, x, a, r, at) \in
              [ id : 1 .. entered', user : Users, at : 1 .. now', type : EntryTypes, about : Nat,
                available : Nat, reserved : Nat, previous : 0 .. entered' ]
         /\ Entry(u, type, S, x, a, r, at).id \in entered + 1 .. entered'
<1>1. IsFiniteSet(S) /\ Cardinality(S) \in Nat /\ entered \in Nat /\ now \in Nat /\ entered' = entered + Cardinality(S)
  BY FS_CardinalityType DEF Enters, AppendLedger, TypeOK, BooksOK
<1>2. Nth(S, x) \in 1 .. Cardinality(S) /\ IsFiniteSet(UpTo(S, x)) /\ UpTo(S, x) \in SUBSET S
  BY <1>1, NthType
<1>3. at \in 1 .. now'
  BY <1>1, TimesType DEF Enters, AppendLedger
<1>4. SumOf(a, UpTo(S, x)) \in Int /\ SumOf(r, UpTo(S, x)) \in Int
  BY <1>2, SumInt DEF Enters
<1>5. available[u] + Sum(a, UpTo(S, x)) \in Nat /\ reserved[u] + Sum(r, UpTo(S, x)) \in Nat
  <2>1. available[u] \in Nat /\ reserved[u] \in Nat
    BY DEF TypeOK, BooksOK
  <2>2. available[u] + SumOf(a, UpTo(S, x)) >= 0 /\ reserved[u] + SumOf(r, UpTo(S, x)) >= 0
    BY DEF Enters
  <2>3. Sum(a, UpTo(S, x)) = SumOf(a, UpTo(S, x)) /\ Sum(r, UpTo(S, x)) = SumOf(r, UpTo(S, x))
    BY SumIs
  <2> QED BY <1>4, <2>1, <2>2, <2>3
<1>6. Previous(u) \in 0 .. entered
  <2>1. CASE EntriesOf(u) = {}
    BY <2>1 DEF Previous, TypeOK, BooksOK
  <2>2. CASE EntriesOf(u) # {}
    <3>1. EntriesOf(u) \in SUBSET ledger /\ Ordered(ledger)
      BY DEF EntriesOf, LedgerInv, Ordered, TypeOK, BooksOK
    <3>2. Newest(EntriesOf(u)) \in ledger
      BY <2>2, <3>1, OrderedPart, NewestIs
    <3> QED BY <1>1, <2>2, <3>2 DEF Previous, TypeOK, BooksOK
  <2> QED BY <2>1, <2>2
<1>7. entered + Nth(S, x) \in 1 .. entered' /\ entered + Nth(S, x) \in entered + 1 .. entered'
  BY <1>1, <1>2
<1>8. (IF Nth(S, x) = 1 \/ Overtaken(u, at) THEN Previous(u) ELSE entered + Nth(S, x) - 1) \in 0 .. entered'
  BY <1>1, <1>2, <1>6
<1> HIDE DEF EntryTypes
<1> QED BY <1>3, <1>5, <1>7, <1>8 DEF Entry

\* The typing of the books.
LEMMA EntersType ==
  ASSUME TypeOK, LedgerInv, NEW u \in Users, NEW type \in EntryTypes, NEW S \in SUBSET Nat, NEW a, NEW r,
         NEW at \in Times, Enters(u, type, S, a, r, at)
  PROVE  BooksOK' /\ entered' \in Nat /\ entered <= entered' /\ now <= now'
<1>1. entered \in Nat /\ now \in Nat /\ Cardinality(S) \in Nat /\ entered' = entered + Cardinality(S)
  BY FS_CardinalityType DEF Enters, AppendLedger, TypeOK, BooksOK
<1>2. entered' \in Nat /\ entered <= entered' /\ now' \in Nat /\ now <= now'
  BY <1>1, TimesType DEF Enters, AppendLedger
<1>3. available' \in [Users -> Nat] /\ reserved' \in [Users -> Nat]
  <2>1. SumOf(a, S) \in Int /\ SumOf(r, S) \in Int
    BY SumInt DEF Enters
  <2> QED BY <2>1 DEF Enters, UpdateWallet, TypeOK, BooksOK
<1>4. ledger' \subseteq [ id : 1 .. entered', user : Users, at : 1 .. now', type : EntryTypes, about : Nat,
                          available : Nat, reserved : Nat, previous : 0 .. entered' ]
  <2>1. ledger' = ledger \cup { Entry(u, type, S, x, a, r, at) : x \in S }
    BY DEF Enters, AppendLedger
  <2>2. 1 .. entered \subseteq 1 .. entered' /\ 0 .. entered \subseteq 0 .. entered' /\ 1 .. now \subseteq 1 .. now'
    BY <1>1, <1>2
  <2>3. ledger \subseteq [ id : 1 .. entered', user : Users, at : 1 .. now', type : EntryTypes, about : Nat,
                           available : Nat, reserved : Nat, previous : 0 .. entered' ]
    BY <2>2 DEF TypeOK, BooksOK
  <2> QED BY <2>1, <2>3, EntryType
<1>5. checkpoint' \in [Users -> [through : 0 .. entered', available : Nat, reserved : Nat]]
  <2>1. 0 .. entered \subseteq 0 .. entered'
    BY <1>1, <1>2
  <2> QED BY <2>1 DEF Enters, TypeOK, BooksOK
<1>6. overtaken' \subseteq Users
  BY DEF Enters, AppendLedger, TypeOK, BooksOK
<1> QED BY <1>2, <1>3, <1>4, <1>5, <1>6 DEF BooksOK

\* The entries of u are those that were there and the new ones.
LEMMA EntersEntries ==
  ASSUME TypeOK, LedgerInv, NEW u \in Users, NEW type \in EntryTypes, NEW S \in SUBSET Nat, NEW a, NEW r,
         NEW at \in Times, Enters(u, type, S, a, r, at)
  PROVE  \A e : e \in EntriesOf(u)' <=> e \in EntriesOf(u) \/ \E x \in S : e = Entry(u, type, S, x, a, r, at)
<1>1. ledger' = ledger \cup { Entry(u, type, S, x, a, r, at) : x \in S }
  BY DEF Enters, AppendLedger
<1>2. \A x \in S : Entry(u, type, S, x, a, r, at).user = u
  BY DEF Entry
<1> QED BY <1>1, <1>2 DEF EntriesOf

\* The new entries come after those of u that were there, unless u was overtaken, in the order of
\* the things they are about; the entries of others stay.
LEMMA EntersOrder ==
  ASSUME TypeOK, LedgerInv, NEW u \in Users, NEW type \in EntryTypes, NEW S \in SUBSET Nat, NEW a, NEW r,
         NEW at \in Times, Enters(u, type, S, a, r, at)
  PROVE  /\ \A v \in Users \ {u} : EntriesOf(v)' = EntriesOf(v)
         /\ Ordered(ledger')
         /\ u \notin overtaken' => \A e \in EntriesOf(u), x \in S : Before(e, Entry(u, type, S, x, a, r, at))
         /\ \A x, y \in S : x < y => Before(Entry(u, type, S, x, a, r, at), Entry(u, type, S, y, a, r, at))
<1> DEFINE E(x) == Entry(u, type, S, x, a, r, at)
<1>1. ledger' = ledger \cup { E(x) : x \in S } /\ IsFiniteSet(S) /\ entered \in Nat
  BY DEF Enters, AppendLedger, TypeOK, BooksOK
<1>2. \A x \in S : E(x).user = u /\ E(x).at = at /\ E(x).id = entered + Nth(S, x)
  BY DEF Entry
<1>3. \A x \in S : E(x).id \in Nat /\ E(x).id > entered /\ Nth(S, x) \in Nat
  <2>1. \A x \in S : Nth(S, x) \in 1 .. Cardinality(S)
    BY <1>1, NthType
  <2>2. Cardinality(S) \in Nat
    BY <1>1, FS_CardinalityType
  <2> QED BY <1>1, <1>2, <2>1, <2>2
<1>4. \A e \in ledger : e.id \in Nat /\ e.id <= entered /\ e.at \in Nat
  <2>1. \A e \in ledger : e.id \in 1 .. entered /\ e.at \in 1 .. now
    BY DEF TypeOK, BooksOK
  <2> QED BY <1>1, <2>1 DEF TypeOK, BooksOK
<1>5. at \in Nat
  BY TimesType
<1>6. \A x, y \in S : x < y => E(x).id < E(y).id
  BY <1>1, <1>2, <1>3, NthGrows
<1> HIDE DEF E
<1>7. Ordered(ledger')
  <2>1. IsFiniteSet({ E(x) : x \in S })
    <3>1. [x \in S |-> E(x)] \in Surjection(S, { E(x) : x \in S })
      BY DEF Surjection
    <3> QED BY <1>1, <3>1, FS_Surjection
  <2>2. IsFiniteSet(ledger')
    BY <1>1, <2>1, FS_Union DEF LedgerInv
  <2>3. \A e \in ledger' : e.at \in Nat /\ e.id \in Nat
    BY <1>1, <1>2, <1>3, <1>4, <1>5
  <2>4. ASSUME NEW e \in ledger', NEW f \in ledger', e.id = f.id PROVE e = f
    <3>1. CASE e \in ledger /\ f \in ledger
      BY <2>4, <3>1 DEF LedgerInv
    <3>2. CASE e \in ledger /\ f \notin ledger
      BY <1>1, <1>3, <1>4, <2>4, <3>2
    <3>3. CASE e \notin ledger /\ f \in ledger
      BY <1>1, <1>3, <1>4, <2>4, <3>3
    <3>4. CASE e \notin ledger /\ f \notin ledger
      <4>1. PICK x \in S : e = E(x)
        BY <1>1, <3>4
      <4>2. PICK y \in S : f = E(y)
        BY <1>1, <3>4
      <4>3. x \in Nat /\ y \in Nat /\ ~(x < y) /\ ~(y < x)
        BY <1>3, <1>6, <2>4, <4>1, <4>2
      <4>4. x = y
        BY <4>3
      <4> QED BY <4>1, <4>2, <4>4
    <3> QED BY <3>1, <3>2, <3>3, <3>4
  <2> QED BY <2>2, <2>3, <2>4 DEF Ordered
<1>8. u \notin overtaken' => \A e \in EntriesOf(u), x \in S : Before(e, E(x))
  <2>1. u \notin overtaken' => \A e \in EntriesOf(u) : ~(at < e.at)
    BY DEF Enters, AppendLedger, Overtaken
  <2>2. \A e \in EntriesOf(u), x \in S : e.id < E(x).id
    BY <1>1, <1>3, <1>4 DEF EntriesOf
  <2>3. u \notin overtaken' => \A e \in EntriesOf(u) : e.at < at \/ e.at = at
    BY <1>4, <1>5, <2>1 DEF EntriesOf
  <2> QED BY <1>2, <2>2, <2>3 DEF Before
<1>9. \A x, y \in S : x < y => Before(E(x), E(y))
  BY <1>2, <1>6 DEF Before
<1>10. \A v \in Users \ {u} : EntriesOf(v)' = EntriesOf(v)
  BY <1>1, <1>2 DEF EntriesOf
<1> QED BY <1>7, <1>8, <1>9, <1>10 DEF E

\* So the entries stay in order.
LEMMA EntersInOrder ==
  ASSUME TypeOK, LedgerInv, NEW u \in Users, NEW type \in EntryTypes, NEW S \in SUBSET Nat, NEW a, NEW r,
         NEW at \in Times, Enters(u, type, S, a, r, at)
  PROVE  /\ IsFiniteSet(ledger') /\ \A e, f \in ledger' : e.id = f.id => e = f
         /\ \A v \in Users \ overtaken' : InOrder(v)'
<1>1. Ordered(ledger')
  BY EntersOrder
<1>2. overtaken \subseteq overtaken'
  BY DEF Enters, AppendLedger
<1>3. ASSUME NEW v \in Users \ overtaken', v # u PROVE InOrder(v)'
  <2>1. EntriesOf(v)' = EntriesOf(v) /\ InOrder(v)
    BY <1>2, <1>3, EntersOrder DEF LedgerInv
  <2> QED BY <2>1 DEF InOrder
<1>4. ASSUME u \notin overtaken' PROVE InOrder(u)'
  <2> SUFFICES ASSUME NEW e \in EntriesOf(u)', NEW f \in EntriesOf(u)', e.id < f.id PROVE e.at <= f.at
    BY DEF InOrder
  <2> DEFINE E(x) == Entry(u, type, S, x, a, r, at)
  <2>1. \A g : g \in EntriesOf(u)' <=> g \in EntriesOf(u) \/ \E x \in S : g = E(x)
    BY EntersEntries
  <2>2. \A g \in EntriesOf(u), x \in S : Before(g, E(x))
    BY <1>4, EntersOrder
  <2>3. \A x \in S : E(x).at = at
    BY DEF Entry
  <2>4. e \in ledger' /\ f \in ledger'
    BY DEF EntriesOf
  <2>5. e.at \in Nat /\ f.at \in Nat /\ e.id \in Nat /\ f.id \in Nat
    BY <1>1, <2>4 DEF Ordered
  <2> HIDE DEF E
  <2>6. CASE e \in EntriesOf(u) /\ f \in EntriesOf(u)
    BY <1>2, <1>4, <2>6 DEF LedgerInv, InOrder
  <2>7. CASE e \in EntriesOf(u) /\ f \notin EntriesOf(u)
    <3>1. Before(e, f)
      BY <2>1, <2>2, <2>7
    <3> QED BY <2>5, <3>1 DEF Before
  <2>8. CASE e \notin EntriesOf(u) /\ f \in EntriesOf(u)
    <3>1. Before(f, e)
      BY <2>1, <2>2, <2>8
    <3>2. f.at < e.at
      BY <2>5, <3>1 DEF Before
    <3>3. PICK x \in S : e = E(x)
      BY <2>1, <2>8
    <3>4. e.id > entered /\ f.id <= entered
      <4>1. e.id \in entered + 1 .. entered'
        BY <3>3, EntryType DEF E
      <4>2. f.id \in 1 .. entered /\ entered \in Nat
        BY <2>8 DEF EntriesOf, TypeOK, BooksOK
      <4> QED BY <2>5, <4>1, <4>2
    <3> QED BY <2>5, <3>4, EntersType DEF TypeOK, BooksOK
  <2>9. CASE e \notin EntriesOf(u) /\ f \notin EntriesOf(u)
    <3>1. e.at = at /\ f.at = at
      BY <2>1, <2>3, <2>9
    <3> QED BY <2>5, <3>1
  <2> QED BY <2>6, <2>7, <2>8, <2>9
<1> QED BY <1>1, <1>3, <1>4 DEF Ordered

\* The newest of the new entries, that of the last thing, says what the wallet is then.
LEMMA EntersMatch ==
  ASSUME TypeOK, LedgerInv, NEW u \in Users, NEW type \in EntryTypes, NEW S \in SUBSET Nat, NEW a, NEW r,
         NEW at \in Times, Enters(u, type, S, a, r, at), u \notin overtaken'
  PROVE  available'[u] = Last(u)'.available /\ reserved'[u] = Last(u)'.reserved
<1> DEFINE E(x) == Entry(u, type, S, x, a, r, at)
<1>1. IsFiniteSet(S) /\ S # {}
  BY DEF Enters
<1>2. \A g : g \in EntriesOf(u)' <=> g \in EntriesOf(u) \/ \E y \in S : g = E(y)
  BY EntersEntries
<1>3. PICK x \in S : UpTo(S, x) = S /\ \A y \in S : y <= x
  BY <1>1, NthLast
<1>4. \A e \in EntriesOf(u), y \in S : Before(e, E(y))
  BY EntersOrder
<1>5. \A y \in S : y < x => Before(E(y), E(x))
  BY EntersOrder
<1>6. Ordered(EntriesOf(u)')
  <2>1. Ordered(ledger') /\ EntriesOf(u)' \in SUBSET ledger'
    BY EntersOrder DEF EntriesOf
  <2> QED BY <2>1, OrderedPart
<1>7. E(x).available = available[u] + SumOf(a, S) /\ E(x).reserved = reserved[u] + SumOf(r, S)
  <2>1. E(x).available = available[u] + Sum(a, UpTo(S, x)) /\ E(x).reserved = reserved[u] + Sum(r, UpTo(S, x))
    BY DEF Entry
  <2>2. Sum(a, UpTo(S, x)) = SumOf(a, UpTo(S, x)) /\ Sum(r, UpTo(S, x)) = SumOf(r, UpTo(S, x))
    BY SumIs
  <2>3. SumOf(a, UpTo(S, x)) = SumOf(a, S) /\ SumOf(r, UpTo(S, x)) = SumOf(r, S)
    BY <1>3, Zenon
  <2> HIDE DEF E
  <2> QED BY <2>1, <2>2, <2>3
<1> HIDE DEF E
<1>8. Newest(EntriesOf(u)') = E(x)
  <2>1. \A y \in S : y < x \/ y = x
    BY <1>3
  <2>2. E(x) \in EntriesOf(u)' /\ \A f \in EntriesOf(u)' : f = E(x) \/ Before(f, E(x))
    BY <1>2, <1>4, <1>5, <2>1
  <2> QED BY <1>6, <2>2, NewestUnique
<1>9. Last(u)' = E(x)
  <2>1. EntriesOf(u)' # {}
    BY <1>2
  <2>2. Last(u)' = IF EntriesOf(u)' = {} THEN checkpoint'[u] ELSE Newest(EntriesOf(u)')
    BY DEF Last, Newest, Before
  <2> QED BY <1>8, <2>1, <2>2
<1>10. available'[u] = available[u] + SumOf(a, S) /\ reserved'[u] = reserved[u] + SumOf(r, S)
  BY DEF Enters, UpdateWallet, TypeOK, BooksOK
<1> QED BY <1>7, <1>9, <1>10

\* And each new entry carries the hash of the one before it.
LEMMA EntersChain ==
  ASSUME TypeOK, LedgerInv, ChainIsUnbroken, NEW u \in Users, NEW type \in EntryTypes, NEW S \in SUBSET Nat,
         NEW a, NEW r, NEW at \in Times, Enters(u, type, S, a, r, at)
  PROVE  ChainIsUnbroken'
<1> DEFINE E(x) == Entry(u, type, S, x, a, r, at)
           Link(X, e) == LET before == { f \in X : Before(f, e) } IN
                         e.previous = IF before = {} THEN checkpoint[u].through ELSE Newest(before).id
<1>1. overtaken \subseteq overtaken' /\ UNCHANGED checkpoint /\ IsFiniteSet(S)
  BY DEF Enters, AppendLedger
<1>2. ASSUME NEW v \in Users \ overtaken', v # u, NEW e \in EntriesOf(v)'
      PROVE  e.previous = IF Earlier(v, e)' = {} THEN checkpoint'[v].through ELSE Newest(Earlier(v, e)').id
  <2>1. EntriesOf(v)' = EntriesOf(v)
    BY <1>2, EntersOrder
  <2>2. Earlier(v, e)' = Earlier(v, e)
    BY <2>1 DEF Earlier, Before
  <2>3. e.previous = IF Earlier(v, e) = {} THEN checkpoint[v].through ELSE Newest(Earlier(v, e)).id
    BY <1>1, <1>2, <2>1 DEF ChainIsUnbroken
  <2> QED BY <1>1, <2>2, <2>3
<1>3. ASSUME u \notin overtaken', NEW e \in EntriesOf(u)'
      PROVE  e.previous = IF Earlier(u, e)' = {} THEN checkpoint'[u].through ELSE Newest(Earlier(u, e)').id
  <2>1. \A g : g \in EntriesOf(u)' <=> g \in EntriesOf(u) \/ \E x \in S : g = E(x)
    BY EntersEntries
  <2>2. \A f \in EntriesOf(u), x \in S : Before(f, E(x))
    BY <1>3, EntersOrder
  <2>3. \A x, y \in S : x < y => Before(E(x), E(y))
    BY EntersOrder
  <2>4. Ordered(EntriesOf(u)')
    <3>1. Ordered(ledger') /\ EntriesOf(u)' \in SUBSET ledger'
      BY EntersOrder DEF EntriesOf
    <3> QED BY <3>1, OrderedPart
  <2>5. Earlier(u, e)' = { f \in EntriesOf(u)' : Before(f, e) }
    BY DEF Earlier, Before
  <2> HIDE DEF E
  <2>6. CASE e \in EntriesOf(u)
    <3>1. \A x \in S : ~Before(E(x), e)
      BY <2>1, <2>2, <2>4, <2>6, OrderIsTotal
    <3>2. Earlier(u, e)' = Earlier(u, e)
      BY <2>1, <2>5, <3>1 DEF Earlier
    <3>3. e.previous = IF Earlier(u, e) = {} THEN checkpoint[u].through ELSE Newest(Earlier(u, e)).id
      BY <1>1, <1>3, <2>6 DEF ChainIsUnbroken
    <3> QED BY <1>1, <3>2, <3>3
  <2>7. ASSUME NEW x \in S, e = E(x)
        PROVE  e.previous = IF Earlier(u, e)' = {} THEN checkpoint'[u].through ELSE Newest(Earlier(u, e)').id
    <3>1. \A y \in S : Before(E(y), e) <=> y < x
      <4>1. ASSUME NEW y \in S, ~(y < x) PROVE ~Before(E(y), e)
        <5>1. y = x \/ x < y
          BY <4>1
        <5>2. E(y) = e \/ Before(e, E(y))
          BY <2>3, <2>7, <5>1
        <5> QED BY <2>1, <2>4, <5>2, OrderIsTotal
      <4> QED BY <2>3, <2>7, <4>1
    <3>2. \A g : g \in Earlier(u, e)' <=> g \in EntriesOf(u) \/ \E y \in S : y < x /\ g = E(y)
      BY <2>1, <2>2, <2>5, <2>7, <3>1
    <3>3. e.previous = IF Nth(S, x) = 1 THEN Previous(u) ELSE entered + Nth(S, x) - 1
      <4>1. ~Overtaken(u, at)
        BY <1>3 DEF Enters, AppendLedger
      <4> QED BY <2>7, <4>1 DEF E, Entry
    <3>4. CASE Nth(S, x) = 1
      <4>1. \A y \in S : x <= y
        BY <1>1, <3>4, NthPrevious
      <4>2. \A y \in S : ~(y < x)
        BY <4>1
      <4>3. Earlier(u, e)' = EntriesOf(u)
        BY <3>2, <4>2
      <4> QED BY <1>1, <3>3, <3>4, <4>3 DEF Previous
    <3>5. CASE Nth(S, x) # 1
      <4>1. PICK y \in S : y < x /\ Nth(S, y) = Nth(S, x) - 1 /\ \A z \in S : z < x => z <= y
        BY <1>1, <3>5, NthPrevious
      <4>2. E(y) \in Earlier(u, e)'
        BY <3>2, <4>1
      <4>3. \A f \in Earlier(u, e)' : f = E(y) \/ Before(f, E(y))
        <5>1. \A z \in S : z < x => z = y \/ z < y
          BY <4>1
        <5> QED BY <2>2, <2>3, <3>2, <5>1
      <4>4. Ordered(Earlier(u, e)')
        BY <2>4, <2>5, OrderedPart
      <4>5. Newest(Earlier(u, e)') = E(y)
        BY <4>2, <4>3, <4>4, NewestUnique
      <4>6. E(y).id = entered + Nth(S, y)
        BY DEF E, Entry
      <4>7. entered + Nth(S, y) = entered + Nth(S, x) - 1
        BY <1>1, <4>1, NthType DEF TypeOK, BooksOK
      <4> QED BY <3>3, <3>5, <4>2, <4>5, <4>6, <4>7
    <3> QED BY <3>4, <3>5
  <2> QED BY <1>3, <2>1, <2>6, <2>7
<1>4. ASSUME NEW v \in Users \ overtaken', NEW e \in EntriesOf(v)'
      PROVE  e.previous = IF Earlier(v, e)' = {} THEN checkpoint'[v].through ELSE Newest(Earlier(v, e)').id
  BY <1>2, <1>3, <1>4
<1> QED BY <1>4 DEF ChainIsUnbroken, Newest, Before

-----------------------------------------------------------------------------
(* Retention *)

\* What a run of it takes of a user's entries.
Gone(u) == { e \in PrunedEntries : e.user = u }

\* FirstByUser goes by user, then by age.
LEMMA FirstByUserIsTransitive ==
  ASSUME TypeOK, NEW e \in ledger, NEW f \in ledger, NEW g \in ledger, FirstByUser(g, f), FirstByUser(f, e)
  PROVE  FirstByUser(g, e)
<1>1. e.user \in Nat /\ f.user \in Nat /\ g.user \in Nat
  <2>1. e.user \in Users /\ f.user \in Users /\ g.user \in Users
    BY DEF TypeOK, BooksOK
  <2> QED BY <2>1, Numbers
<1>2. /\ e.id \in 1 .. entered /\ f.id \in 1 .. entered /\ g.id \in 1 .. entered
      /\ e.at \in 1 .. now /\ f.at \in 1 .. now /\ g.at \in 1 .. now
  BY DEF TypeOK, BooksOK
<1>3. entered \in Nat /\ now \in Nat
  BY DEF TypeOK, BooksOK
<1> QED BY <1>1, <1>2, <1>3 DEF FirstByUser, Before

\* It takes the oldest entries first.
LEMMA PrunedIsPrefix ==
  ASSUME TypeOK, LedgerInv, NEW e \in PrunedEntries, NEW f \in ledger, f.user = e.user, Before(f, e)
  PROVE  f \in PrunedEntries
<1>1. e \in OldEntries /\ e \in ledger
  BY DEF PrunedEntries, OldEntries
<1>2. e.at \in Nat /\ f.at \in Nat /\ cutoff \in Nat
  <2>1. e.at \in 1 .. now /\ f.at \in 1 .. now /\ cutoff \in 0 .. now /\ now \in Nat
    BY <1>1 DEF TypeOK, BooksOK, ItemsOK
  <2> QED BY <2>1
<1>3. f.at <= cutoff
  BY <1>1, <1>2 DEF OldEntries, Before
<1>4. f \in OldEntries
  BY <1>1, <1>3 DEF OldEntries
<1>5. { g \in OldEntries : FirstByUser(g, f) } \subseteq { g \in OldEntries : FirstByUser(g, e) }
  <2>1. FirstByUser(f, e)
    BY DEF FirstByUser
  <2> QED BY <1>1, <2>1, FirstByUserIsTransitive DEF OldEntries
<1>6. IsFiniteSet({ g \in OldEntries : FirstByUser(g, e) })
  BY FS_Subset DEF OldEntries, LedgerInv
<1>7. /\ Cardinality({ g \in OldEntries : FirstByUser(g, f) }) <= Cardinality({ g \in OldEntries : FirstByUser(g, e) })
      /\ Cardinality({ g \in OldEntries : FirstByUser(g, e) }) \in Nat
      /\ Cardinality({ g \in OldEntries : FirstByUser(g, f) }) \in Nat
  BY <1>5, <1>6, FS_Subset, FS_CardinalityType
<1>8. Cardinality({ g \in OldEntries : FirstByUser(g, e) }) < BatchLimit
  BY DEF PrunedEntries
<1>9. Cardinality({ g \in OldEntries : FirstByUser(g, f) }) < BatchLimit
  BY <1>7, <1>8, LedgerAssumption
<1> QED BY <1>4, <1>9 DEF PrunedEntries

\* What it leaves of a user's books.
LEMMA RetentionLeaves ==
  ASSUME TypeOK, LedgerInv, RunRetention, NEW u \in Users
  PROVE  /\ Ordered(EntriesOf(u)) /\ Gone(u) \in SUBSET EntriesOf(u) /\ EntriesOf(u)' = EntriesOf(u) \ Gone(u)
         /\ \A g \in Gone(u), f \in EntriesOf(u) : Before(f, g) => f \in Gone(u)
         /\ Gone(u) = {} => checkpoint'[u] = checkpoint[u]
         /\ Gone(u) # {} => /\ checkpoint'[u].through = Newest(Gone(u)).id
                            /\ checkpoint'[u].available = Newest(Gone(u)).available
                            /\ checkpoint'[u].reserved = Newest(Gone(u)).reserved
                            /\ checkpoint'[u] = [ through |-> checkpoint'[u].through,
                                                  available |-> checkpoint'[u].available,
                                                  reserved |-> checkpoint'[u].reserved ]
<1>1. Ordered(ledger)
  BY DEF LedgerInv, Ordered, TypeOK, BooksOK
<1>2. Ordered(EntriesOf(u))
  BY <1>1, OrderedPart DEF EntriesOf
<1>3. Gone(u) \in SUBSET EntriesOf(u) /\ EntriesOf(u)' = EntriesOf(u) \ Gone(u)
  BY DEF Gone, EntriesOf, RunRetention, PrunedEntries, OldEntries
<1>4. \A g \in Gone(u), f \in EntriesOf(u) : Before(f, g) => f \in Gone(u)
  BY PrunedIsPrefix DEF Gone, EntriesOf
<1>5. Gone(u) # {} => /\ checkpoint'[u].through = Newest(Gone(u)).id
                      /\ checkpoint'[u].available = Newest(Gone(u)).available
                      /\ checkpoint'[u].reserved = Newest(Gone(u)).reserved
                      /\ checkpoint'[u] = [ through |-> checkpoint'[u].through, available |-> checkpoint'[u].available,
                                            reserved |-> checkpoint'[u].reserved ]
  BY DEF Gone, RunRetention, Boundary
<1>6. checkpoint'[u] = IF Gone(u) = {} THEN checkpoint[u]
                       ELSE [ through |-> Newest(Gone(u)).id, available |-> Newest(Gone(u)).available,
                              reserved |-> Newest(Gone(u)).reserved ]
  BY DEF Gone, RunRetention, Boundary
<1> QED BY <1>2, <1>3, <1>4, <1>5, <1>6

\* A checkpoint is typed as the entry it stands for.
LEMMA RetentionType ==
  ASSUME TypeOK, LedgerInv, RunRetention
  PROVE  BooksOK'
<1>1. \A u \in Users : checkpoint'[u] \in [through : 0 .. entered, available : Nat, reserved : Nat]
  <2> TAKE u \in Users
  <2>1. CASE Gone(u) = {}
    BY <2>1, RetentionLeaves DEF TypeOK, BooksOK
  <2>2. CASE Gone(u) # {}
    <3>1. Newest(Gone(u)) \in Gone(u)
      BY <2>2, RetentionLeaves, OrderedPart, NewestIs
    <3>2. Newest(Gone(u)) \in ledger
      BY <3>1 DEF Gone, PrunedEntries, OldEntries
    <3>3. Newest(Gone(u)).id \in 0 .. entered /\ Newest(Gone(u)).available \in Nat /\ Newest(Gone(u)).reserved \in Nat
      BY <3>2 DEF TypeOK, BooksOK
    <3>4. /\ checkpoint'[u].through = Newest(Gone(u)).id
          /\ checkpoint'[u].available = Newest(Gone(u)).available
          /\ checkpoint'[u].reserved = Newest(Gone(u)).reserved
      BY <2>2, RetentionLeaves
    <3>5. checkpoint'[u] = [ through |-> checkpoint'[u].through, available |-> checkpoint'[u].available,
                             reserved |-> checkpoint'[u].reserved ]
      BY <2>2, RetentionLeaves
    <3>6. checkpoint'[u].through \in 0 .. entered /\ checkpoint'[u].available \in Nat /\ checkpoint'[u].reserved \in Nat
      BY <3>3, <3>4
    <3> QED BY <3>5, <3>6
  <2> QED BY <2>1, <2>2
<1>2. DOMAIN checkpoint' = Users /\ checkpoint' = [u \in Users |-> checkpoint'[u]]
  BY DEF RunRetention
<1>3. checkpoint' \in [Users -> [through : 0 .. entered, available : Nat, reserved : Nat]]
  BY <1>1, <1>2
<1>4. ledger' \subseteq ledger /\ UNCHANGED << available, reserved, entered, overtaken, now >>
  BY DEF RunRetention
<1> QED BY <1>3, <1>4 DEF TypeOK, BooksOK

\* A chain that lost its oldest entries begins at the checkpoint.
LEMMA RetentionChain ==
  ASSUME TypeOK, LedgerInv, ChainIsUnbroken, RunRetention
  PROVE  ChainIsUnbroken'
<1>1. ASSUME NEW u \in Users \ overtaken, NEW e \in EntriesOf(u)'
      PROVE  e.previous = IF Earlier(u, e)' = {} THEN checkpoint'[u].through ELSE Newest(Earlier(u, e)').id
  <2>1. /\ Ordered(EntriesOf(u)) /\ Gone(u) \in SUBSET EntriesOf(u) /\ EntriesOf(u)' = EntriesOf(u) \ Gone(u)
        /\ \A g \in Gone(u), f \in EntriesOf(u) : Before(f, g) => f \in Gone(u)
    BY RetentionLeaves
  <2>2. Earlier(u, e)' = Earlier(u, e) \ Gone(u) /\ Earlier(u, e) \in SUBSET EntriesOf(u)
    BY <2>1 DEF Earlier, Before
  <2>3. e.previous = IF Earlier(u, e) = {} THEN checkpoint[u].through ELSE Newest(Earlier(u, e)).id
    BY <1>1, <2>1 DEF ChainIsUnbroken
  <2>4. Gone(u) \subseteq Earlier(u, e)
    <3>1. \A g \in Gone(u) : Before(g, e)
      BY <1>1, <2>1, OrderIsTotal
    <3> QED BY <2>1, <3>1 DEF Earlier
  <2>5. CASE Earlier(u, e)' # {}
    <3>1. Ordered(Earlier(u, e))
      BY <2>1, <2>2, OrderedPart
    <3>2. \A g \in Gone(u), f \in Earlier(u, e) : Before(f, g) => f \in Gone(u)
      BY <2>1, <2>2
    <3>3. Newest(Earlier(u, e) \ Gone(u)) = Newest(Earlier(u, e))
      BY <2>2, <2>4, <2>5, <3>1, <3>2, NewestKept
    <3>4. Newest(Earlier(u, e)') = Newest(Earlier(u, e))
      BY <2>2, <3>3, Zenon
    <3> QED BY <2>2, <2>3, <2>5, <3>4
  <2>6. CASE Earlier(u, e)' = {} /\ Gone(u) # {}
    <3>1. Earlier(u, e) = Gone(u)
      BY <2>2, <2>4, <2>6
    <3>2. checkpoint'[u].through = Newest(Gone(u)).id
      BY <2>6, RetentionLeaves
    <3>3. Newest(Earlier(u, e)) = Newest(Gone(u))
      BY <3>1, Zenon
    <3> QED BY <2>3, <2>6, <3>1, <3>2, <3>3
  <2>7. CASE Earlier(u, e)' = {} /\ Gone(u) = {}
    <3>1. checkpoint'[u] = checkpoint[u]
      BY <2>7, RetentionLeaves
    <3> QED BY <2>2, <2>3, <2>7, <3>1
  <2> QED BY <2>5, <2>6, <2>7
<1>2. UNCHANGED overtaken
  BY DEF RunRetention
<1> QED BY <1>1, <1>2 DEF ChainIsUnbroken, Newest, Before

\* And the books say the same of a wallet as before.
LEMMA RetentionMatch ==
  ASSUME TypeOK, LedgerInv, RunRetention, NEW u \in Users
  PROVE  Last(u)'.available = Last(u).available /\ Last(u)'.reserved = Last(u).reserved
<1>1. /\ Ordered(EntriesOf(u)) /\ Gone(u) \in SUBSET EntriesOf(u) /\ EntriesOf(u)' = EntriesOf(u) \ Gone(u)
      /\ \A g \in Gone(u), f \in EntriesOf(u) : Before(f, g) => f \in Gone(u)
  BY RetentionLeaves
<1>2. Last(u)' = IF EntriesOf(u)' = {} THEN checkpoint'[u] ELSE Newest(EntriesOf(u)')
  BY DEF Last, Newest, Before
<1>3. CASE EntriesOf(u)' # {}
  <2>1. Newest(EntriesOf(u) \ Gone(u)) = Newest(EntriesOf(u))
    BY <1>1, <1>3, NewestKept
  <2>2. Newest(EntriesOf(u)') = Newest(EntriesOf(u))
    BY <1>1, <2>1, Zenon
  <2> QED BY <1>1, <1>2, <1>3, <2>2 DEF Last
<1>4. CASE EntriesOf(u)' = {} /\ Gone(u) # {}
  <2>1. EntriesOf(u) = Gone(u)
    BY <1>1, <1>4
  <2>2. checkpoint'[u].available = Newest(Gone(u)).available /\ checkpoint'[u].reserved = Newest(Gone(u)).reserved
    BY <1>4, RetentionLeaves
  <2>3. Newest(EntriesOf(u)) = Newest(Gone(u))
    BY <2>1, Zenon
  <2>4. Last(u) = Newest(EntriesOf(u))
    BY <1>4, <2>1 DEF Last
  <2> QED BY <1>2, <1>4, <2>2, <2>3, <2>4
<1>5. CASE EntriesOf(u)' = {} /\ Gone(u) = {}
  <2>1. EntriesOf(u) = {} /\ checkpoint'[u] = checkpoint[u]
    BY <1>1, <1>5, RetentionLeaves
  <2> QED BY <1>2, <1>5, <2>1 DEF Last
<1> QED BY <1>3, <1>4, <1>5

-----------------------------------------------------------------------------
(* The steps, by what they do to the books *)

\* One change of a wallet is entered.
LEMMA ChangesEnters ==
  ASSUME TypeOK, NEW u \in Users, NEW type, NEW x \in Nat, NEW am \in Int, NEW rm \in Int, NEW at,
         Changes(u, type, x, am, rm, at), UNCHANGED checkpoint
  PROVE  Enters(u, type, {x}, [y \in {x} |-> am], [y \in {x} |-> rm], at)
<1> DEFINE a == [y \in {x} |-> am]
           r == [y \in {x} |-> rm]
<1>1. UpdateWallet(u, am, rm) /\ AppendLedger(u, type, {x}, a, r, at)
  BY DEF Changes
<1>2. a[x] = am /\ r[x] = rm
  OBVIOUS
<1> HIDE DEF a, r
<1>3. SumOf(a, {x}) = am /\ SumOf(r, {x}) = rm
  BY <1>2, SumSingle
<1>4. UpTo({x}, x) = {x}
  BY DEF UpTo
<1>5. SumOf(a, UpTo({x}, x)) = SumOf(a, {x}) /\ SumOf(r, UpTo({x}, x)) = SumOf(r, {x})
  BY <1>4, Zenon
<1>6. UpdateWallet(u, SumOf(a, {x}), SumOf(r, {x}))
  BY <1>1, <1>3
<1>7. available[u] + SumOf(a, UpTo({x}, x)) >= 0 /\ reserved[u] + SumOf(r, UpTo({x}, x)) >= 0
  BY <1>1, <1>3, <1>5 DEF UpdateWallet
<1>8. IsFiniteSet({x})
  BY FS_Singleton
<1>9. Enters(u, type, {x}, a, r, at)
  BY <1>1, <1>2, <1>6, <1>7, <1>8 DEF Enters
<1> QED BY <1>9 DEF a, r

\* So are the reservations of an order's items, together.
LEMMA ReserveEnters ==
  ASSUME TypeOK, NEW u \in Users, NEW S \in SUBSET Items, S # {}, NEW at, ReserveOrderItems(u, S, at)
  PROVE  Enters(u, "RESERVE", S, [i \in S |-> -Price[i]], Price, at)
<1> DEFINE a == [i \in S |-> -Price[i]]
<1>1. /\ UpdateWallet(u, -Sum(Price, S), Sum(Price, S)) /\ AppendLedger(u, "RESERVE", S, a, Price, at)
      /\ UNCHANGED checkpoint
  BY DEF ReserveOrderItems
<1>2. IsFiniteSet(S) /\ \A i \in S : Price[i] \in Nat /\ a[i] = -Price[i] /\ i \in Nat
  BY Numbers
<1> HIDE DEF a
<1>3. SumOf(a, S) = -SumOf(Price, S) /\ SumOf(Price, S) \in Nat
  BY <1>2, SumNegated, SumNat
<1>4. Sum(Price, S) = SumOf(Price, S)
  BY SumIs
<1>5. UpdateWallet(u, SumOf(a, S), SumOf(Price, S))
  BY <1>1, <1>3, <1>4
<1>6. ASSUME NEW x \in S
      PROVE  available[u] + SumOf(a, UpTo(S, x)) >= 0 /\ reserved[u] + SumOf(Price, UpTo(S, x)) >= 0
  <2>1. UpTo(S, x) \in SUBSET S /\ IsFiniteSet(UpTo(S, x))
    BY <1>2, FS_Subset DEF UpTo
  <2>2. SumOf(a, UpTo(S, x)) = -SumOf(Price, UpTo(S, x))
    BY <1>2, <2>1, SumNegated
  <2>3. SumOf(Price, UpTo(S, x)) \in Nat /\ SumOf(Price, UpTo(S, x)) <= SumOf(Price, S)
    BY <1>2, <2>1, SumNat, SumPart
  <2>4. available[u] \in Nat /\ reserved[u] \in Nat
    BY DEF TypeOK, BooksOK
  <2>5. available[u] - SumOf(Price, S) >= 0
    BY <1>1, <1>3, <1>4, <2>4 DEF UpdateWallet
  <2> QED BY <1>3, <2>2, <2>3, <2>4, <2>5
<1>7. \A x \in S : a[x] \in Int /\ Price[x] \in Int
  BY <1>2
<1>8. Enters(u, "RESERVE", S, a, Price, at)
  BY <1>1, <1>2, <1>5, <1>6, <1>7 DEF Enters
<1> QED BY <1>8 DEF a

\* What a promotion pays is a number within the rest of the day's limit.
LEMMA BonusType ==
  ASSUME TypeOK, UsageInv, NEW t \in Topups, Eligible(t)
  PROVE  /\ Bonus(t) \in Nat /\ BonusOn(UserOfTopup[t], day) \in Int
         /\ BonusOn(UserOfTopup[t], day) + Bonus(t) <= DailyBonus
<1> DEFINE u == UserOfTopup[t]
           full == PercentageBonusHalfUp(Face[t], Tier(Face[t]).points)
<1>1. BonusOn(u, day) \in Int
  <2> DEFINE f == [x \in usage |-> x.bonus]
  <2>1. \A x \in UsesOn(u, day) : f[x] \in Int
    BY DEF UsesOn, Uses, TypeOK, TopupsOK
  <2>2. IsFiniteSet(UsesOn(u, day))
    BY FS_Subset DEF UsageInv, UsesOn, Uses
  <2> HIDE DEF f
  <2>3. SumOf(f, UsesOn(u, day)) \in Int
    BY <2>1, <2>2, SumInt
  <2>4. Sum(f, UsesOn(u, day)) = SumOf(f, UsesOn(u, day))
    BY SumIs
  <2>5. BonusOn(u, day) = Sum(f, UsesOn(u, day))
    BY DEF BonusOn, f
  <2> QED BY <2>3, <2>4, <2>5
<1>2. Tier(Face[t]).points \in Nat
  <2> DEFINE X == TiersFor(Face[t])
             Y == { A \in SUBSET X : A = {} \/ \E x \in A : \A y \in A : y.minimum <= x.minimum }
  <2>1. X \subseteq Tiers /\ X # {} /\ IsFiniteSet(X)
    BY LedgerAssumption, FS_Subset DEF TiersFor, Eligible
  <2>2. \A x \in X : x.minimum \in Nat /\ x.points \in Nat
    <3> HIDE DEF X
    <3> QED BY <2>1, Numbers
  <2>3. {} \in Y
    OBVIOUS
  <2>4. ASSUME NEW A \in SUBSET X, NEW z \in X \ A, A \in Y PROVE A \cup {z} \in Y
    <3>1. CASE A = {}
      BY <2>2, <3>1
    <3>2. CASE A # {}
      <4>1. PICK m \in A : \A y \in A : y.minimum <= m.minimum
        BY <2>4, <3>2
      <4>2. m.minimum \in Nat /\ z.minimum \in Nat /\ \A y \in A : y.minimum \in Nat
        BY <2>2
      <4>3. CASE z.minimum <= m.minimum
        BY <4>1, <4>3
      <4>4. CASE m.minimum <= z.minimum
        <5>1. \A y \in A \cup {z} : y.minimum <= z.minimum
          BY <4>1, <4>2, <4>4
        <5> QED BY <5>1
      <4> QED BY <4>2, <4>3, <4>4
    <3> QED BY <3>1, <3>2
  <2>5. X \in Y
    <3> HIDE DEF X, Y
    <3> QED BY <2>1, <2>3, <2>4, SubsetInduction
  <2>6. \E x \in X : \A y \in X : y.minimum <= x.minimum
    BY <2>1, <2>5
  <2>7. Tier(Face[t]) \in X
    BY <2>6 DEF Tier
  <2> QED BY <2>2, <2>7
<1>3. full \in Nat
  <2> DEFINE points == Tier(Face[t]).points
  <2>1. Face[t] \in Nat /\ points \in Nat
    BY <1>2, LedgerAssumption
  <2> HIDE DEF points
  <2>2. Face[t] * points \in Nat
    BY <2>1
  <2>3. (Face[t] * points + 5000) \div 10000 \in Nat
    <3> DEFINE n == Face[t] * points
    <3>1. n \in Nat
      BY <2>2
    <3> HIDE DEF n
    <3>2. (n + 5000) \div 10000 \in Nat
      BY <3>1
    <3> QED BY <3>2 DEF n
  <2> QED BY <2>3 DEF PercentageBonusHalfUp, points
<1>4. BonusOn(u, day) < DailyBonus /\ DailyBonus \in Nat
  BY LedgerAssumption DEF Eligible
<1>5. Bonus(t) = IF full > DailyBonus - BonusOn(u, day) THEN DailyBonus - BonusOn(u, day) ELSE full
  BY DEF Bonus
<1> HIDE DEF full
<1> QED BY <1>1, <1>3, <1>4, <1>5

\* A transaction that enters something; a refund is counted when it does.
EntersSome ==
  \E u \in Users, type \in EntryTypes, S \in SUBSET Nat, at \in Times : \E a, r :
    /\ Enters(u, type, S, a, r, at)
    /\ \/ type # "REFUND_CREDIT" /\ UNCHANGED returned
       \/ \E i \in Items : S = {i} /\ returned' = [returned EXCEPT ![i] = @ + 1]

\* A second refund, which finds the entry of the first.
SecondRefund(i) ==
  /\ refund[i] = NoRefund /\ RefundEntries(i) # {}
  /\ UpdateWallet(UserOfItem[i], Price[i], 0)
  /\ returned' = [returned EXCEPT ![i] = @ + 1]
  /\ UNCHANGED << ledger, entered, overtaken, checkpoint >>
  /\ now' \in Nat /\ now' >= now

\* A step that leaves the books alone.
NoBooks == UNCHANGED << available, reserved, ledger, checkpoint, entered, overtaken, returned, now >>

\* Each transaction is one of these.
LEMMA Steps ==
  ASSUME TypeOK, UsageInv, [Next]_vars
  PROVE  EntersSome \/ NoBooks \/ RunRetention \/ \E i \in Items : SecondRefund(i)
<1>1. ASSUME NEW u \in Users, NEW type \in EntryTypes, type # "REFUND_CREDIT", NEW x \in Nat, NEW am \in Int,
             NEW rm \in Int, NEW at \in Times, Changes(u, type, x, am, rm, at), UNCHANGED << checkpoint, returned >>
      PROVE  EntersSome
  <2>1. Enters(u, type, {x}, [y \in {x} |-> am], [y \in {x} |-> rm], at)
    BY <1>1, ChangesEnters
  <2>2. {x} \in SUBSET Nat
    OBVIOUS
  <2> QED BY <1>1, <2>1, <2>2 DEF EntersSome
<1>2. ASSUME NEW at \in Times, NEW u \in Users, NEW S \in (SUBSET Items) \ {{}}, ReserveOrderItems(u, S, at)
      PROVE  EntersSome
  <2>1. Enters(u, "RESERVE", S, [i \in S |-> -Price[i]], Price, at)
    BY <1>2, ReserveEnters
  <2>2. S \in SUBSET Nat /\ "RESERVE" \in EntryTypes /\ UNCHANGED returned
    BY <1>2, Numbers DEF ReserveOrderItems, EntryTypes
  <2> QED BY <2>1, <2>2 DEF EntersSome
<1>3. ASSUME NEW at \in Times, NEW i \in Items, CaptureReservation(i, at) \/ ReleaseReservation(i, at)
      PROVE  EntersSome
  <2>1. UserOfItem[i] \in Users /\ i \in Nat /\ Price[i] \in Int /\ -Price[i] \in Int /\ 0 \in Int
    BY Numbers
  <2>2. "CAPTURE" \in EntryTypes /\ "RELEASE" \in EntryTypes
    BY DEF EntryTypes
  <2>3. UNCHANGED << checkpoint, returned >>
    BY <1>3 DEF CaptureReservation, ReleaseReservation
  <2>4. \/ Changes(UserOfItem[i], "CAPTURE", i, 0, -Price[i], at)
        \/ Changes(UserOfItem[i], "RELEASE", i, Price[i], -Price[i], at)
    BY <1>3 DEF CaptureReservation, ReleaseReservation
  <2> QED BY <1>1, <2>1, <2>2, <2>3, <2>4
<1>4. ASSUME NEW at \in Times, NEW i \in Items, RefundCapturedOrderItem(i, at)
      PROVE  EntersSome \/ SecondRefund(i)
  <2>0. UserOfItem[i] \in Users /\ i \in Nat /\ Price[i] \in Int /\ 0 \in Int /\ at \in Nat /\ now \in Nat
    BY Numbers, TimesType DEF TypeOK, BooksOK
  <2>1. CASE RefundEntries(i) = {}
    <3>1. Changes(UserOfItem[i], "REFUND_CREDIT", i, Price[i], 0, at) /\ UNCHANGED checkpoint
          /\ returned' = [returned EXCEPT ![i] = @ + 1]
      BY <1>4, <2>1 DEF RefundCapturedOrderItem
    <3>2. Enters(UserOfItem[i], "REFUND_CREDIT", {i}, [y \in {i} |-> Price[i]], [y \in {i} |-> 0], at)
      BY <2>0, <3>1, ChangesEnters
    <3>3. {i} \in SUBSET Nat /\ "REFUND_CREDIT" \in EntryTypes
      BY <2>0 DEF EntryTypes
    <3> QED BY <2>0, <3>1, <3>2, <3>3 DEF EntersSome
  <2>2. CASE RefundEntries(i) # {}
    <3>1. SecondRefund(i)
      BY <1>4, <2>0, <2>2 DEF RefundCapturedOrderItem, SecondRefund
    <3> QED BY <3>1
  <2> QED BY <2>1, <2>2
<1>5. ASSUME NEW at \in Times, NEW t \in Topups, CreditRedeemedTopup(t, at)
      PROVE  EntersSome
  <2> DEFINE extra == IF Eligible(t) THEN Bonus(t) ELSE 0
  <2>1. extra \in Nat
    BY BonusType
  <2>2. Changes(UserOfTopup[t], "TOPUP_CREDIT", t, Face[t] + extra, 0, at) /\ UNCHANGED << checkpoint, returned >>
    BY <1>5 DEF CreditRedeemedTopup
  <2> HIDE DEF extra
  <2>3. UserOfTopup[t] \in Users /\ t \in Nat /\ Face[t] + extra \in Int /\ 0 \in Int
    BY <2>1, Numbers
  <2>4. "TOPUP_CREDIT" \in EntryTypes
    BY DEF EntryTypes
  <2> QED BY <1>1, <2>2, <2>3, <2>4
<1>6. ASSUME NEW at \in Times, NEW t \in Topups, ReverseTopup(t, at)
      PROVE  EntersSome \/ NoBooks
  <2> DEFINE total == Face[t] + bonus[t]
  <2>1. UserOfTopup[t] \in Users /\ t \in Nat /\ -total \in Int /\ 0 \in Int
    BY Numbers DEF TypeOK, TopupsOK
  <2>2. \/ NoBooks
        \/ Changes(UserOfTopup[t], "TOPUP_REVERSAL", t, -total, 0, at) /\ UNCHANGED << checkpoint, returned >>
    BY <1>6 DEF ReverseTopup, NoBooks
  <2> HIDE DEF total
  <2>3. "TOPUP_REVERSAL" \in EntryTypes
    BY DEF EntryTypes
  <2> QED BY <1>1, <2>1, <2>2, <2>3
<1>7. ASSUME NEW at \in Times, NEW u \in Users, NEW amount \in Adjustments, AdjustBalance(u, amount, at)
      PROVE  EntersSome
  <2>1. amount \in Int /\ entered + 1 \in Nat /\ 0 \in Int
    BY LedgerAssumption DEF TypeOK, BooksOK
  <2>2. \E type \in EntryTypes : type # "REFUND_CREDIT" /\ Changes(u, type, entered + 1, amount, 0, at)
    BY <1>7 DEF AdjustBalance, EntryTypes
  <2>3. UNCHANGED << checkpoint, returned >>
    BY <1>7 DEF AdjustBalance
  <2> QED BY <1>1, <2>1, <2>2, <2>3
<1>8. ASSUME NEW at \in Times, Transacts(at) PROVE EntersSome \/ NoBooks \/ \E i \in Items : SecondRefund(i)
  BY <1>2, <1>3, <1>4, <1>5, <1>6, <1>7, <1>8 DEF Transacts
<1>9. CASE \/ \E i \in Items : OpenReview(i) \/ ResolveReview(i)
           \/ DayPasses \/ YearPasses \/ UNCHANGED vars
  BY <1>9 DEF NoBooks, OpenReview, ResolveReview, DayPasses, YearPasses, vars
<1> QED BY <1>8, <1>9 DEF Next

-----------------------------------------------------------------------------
(* The invariant is kept *)

\* The books stay typed, and their numbers and their clock do not go back.
LEMMA BooksType ==
  ASSUME TypeOK, LedgerInv, UsageInv, [Next]_vars
  PROVE  BooksOK' /\ entered <= entered' /\ now <= now'
<1>0. entered \in Nat /\ now \in Nat
  BY DEF TypeOK, BooksOK
<1>1. CASE EntersSome
  BY <1>1, EntersType DEF EntersSome
<1>2. CASE NoBooks
  BY <1>0, <1>2 DEF NoBooks, TypeOK, BooksOK
<1>3. CASE RunRetention
  <2>1. UNCHANGED << entered, now >>
    BY <1>3 DEF RunRetention
  <2> QED BY <1>0, <1>3, <2>1, RetentionType
<1>4. ASSUME NEW i \in Items, SecondRefund(i) PROVE BooksOK' /\ entered <= entered' /\ now <= now'
  <2>1. UserOfItem[i] \in Users /\ Price[i] \in Nat
    BY Numbers
  <2>2. available' \in [Users -> Nat] /\ reserved' \in [Users -> Nat]
    BY <1>4, <2>1 DEF SecondRefund, UpdateWallet, TypeOK, BooksOK
  <2>3. now' \in Nat /\ now <= now' /\ UNCHANGED << ledger, entered, overtaken, checkpoint >>
    BY <1>0, <1>4 DEF SecondRefund
  <2>4. 1 .. now \subseteq 1 .. now'
    BY <1>0, <2>3
  <2>5. ledger \subseteq [ id : 1 .. entered, user : Users, at : 1 .. now', type : EntryTypes, about : Nat,
                           available : Nat, reserved : Nat, previous : 0 .. entered ]
    BY <2>4 DEF TypeOK, BooksOK
  <2> QED BY <1>0, <2>2, <2>3, <2>5 DEF TypeOK, BooksOK
<1> QED BY <1>1, <1>2, <1>3, <1>4, Steps

\* So do the top-ups and their uses of the promotion.
LEMMA TopupsType ==
  ASSUME TypeOK, UsageInv, [Next]_vars
  PROVE  TopupsOK'
<1> USE DEF TopupsOK
<1>0. TopupsOK
  BY DEF TypeOK
<1>1. ASSUME UNCHANGED << topup, bonus, usage, day >> PROVE TopupsOK'
  BY <1>0, <1>1
<1>2. ASSUME NEW at, NEW t \in Topups, CreditRedeemedTopup(t, at) PROVE TopupsOK'
  <2> DEFINE extra == IF Eligible(t) THEN Bonus(t) ELSE 0
             use == [topup |-> t, day |-> day, bonus |-> extra]
  <2>1. extra \in Nat
    BY BonusType
  <2>2. /\ usage' = IF Eligible(t) THEN usage \cup {use} ELSE usage
        /\ topup' = [topup EXCEPT ![t] = "CREDITED"] /\ bonus' = [bonus EXCEPT ![t] = extra] /\ UNCHANGED day
    BY <1>2 DEF CreditRedeemedTopup
  <2> HIDE DEF extra
  <2>3. use \in [topup : Topups, day : 1 .. day, bonus : Nat]
    BY <1>0, <2>1
  <2> HIDE DEF use
  <2> QED BY <1>0, <2>1, <2>2, <2>3
<1>3. ASSUME NEW at, NEW t \in Topups, ReverseTopup(t, at) PROVE TopupsOK'
  BY <1>0, <1>3 DEF ReverseTopup
<1>4. CASE DayPasses
  <2>1. day \in Nat \ {0} /\ day' = day + 1 /\ UNCHANGED << topup, bonus, usage >>
    BY <1>0, <1>4 DEF DayPasses
  <2>2. 1 .. day \subseteq 1 .. day' /\ day' \in Nat \ {0}
    BY <2>1
  <2> QED BY <1>0, <2>1, <2>2
<1>5. ASSUME NEW at \in Times, NEW i \in Items,
             CaptureReservation(i, at) \/ ReleaseReservation(i, at) \/ RefundCapturedOrderItem(i, at)
      PROVE  UNCHANGED << topup, bonus, usage, day >>
  BY <1>5 DEF CaptureReservation, ReleaseReservation, RefundCapturedOrderItem
<1>6. ASSUME \/ \E at \in Times, u \in Users, S \in (SUBSET Items) \ {{}} : ReserveOrderItems(u, S, at)
             \/ \E at \in Times, u \in Users, amount \in Adjustments : AdjustBalance(u, amount, at)
             \/ RunRetention \/ (\E i \in Items : OpenReview(i) \/ ResolveReview(i)) \/ YearPasses \/ UNCHANGED vars
      PROVE  UNCHANGED << topup, bonus, usage, day >>
  BY <1>6 DEF ReserveOrderItems, AdjustBalance, RunRetention, OpenReview, ResolveReview, YearPasses, vars
<1> QED BY <1>1, <1>2, <1>3, <1>4, <1>5, <1>6 DEF Next, Transacts

\* And the items, their refunds and reviews.
LEMMA ItemsType ==
  ASSUME TypeOK, LedgerInv, UsageInv, [Next]_vars
  PROVE  ItemsOK'
<1>0. ItemsOK /\ entered \in Nat /\ now \in Nat /\ entered' \in Nat /\ now' \in Nat /\ entered <= entered' /\ now <= now'
  BY BooksType DEF TypeOK, BooksOK
<1>1. 0 .. entered \subseteq 0 .. entered' /\ 0 .. now \subseteq 0 .. now' /\ cutoff \in 0 .. now'
  BY <1>0 DEF ItemsOK
<1>2. refund \in [Items -> [entry : 0 .. entered', at : 0 .. now']] /\ cutoff \in 0 .. now'
  BY <1>0, <1>1 DEF ItemsOK
<1> USE DEF ItemsOK
<1>3. ASSUME UNCHANGED << reservation, refund, returned, held, cutoff >> PROVE ItemsOK'
  BY <1>0, <1>2, <1>3
<1>4. ASSUME NEW at \in Times, Transacts(at) PROVE ItemsOK'
  <2>1. ASSUME NEW u \in Users, NEW S \in (SUBSET Items) \ {{}}, ReserveOrderItems(u, S, at) PROVE ItemsOK'
    BY <1>0, <1>2, <2>1 DEF ReserveOrderItems
  <2>2. ASSUME NEW i \in Items, CaptureReservation(i, at) \/ ReleaseReservation(i, at) PROVE ItemsOK'
    BY <1>0, <1>2, <2>2 DEF CaptureReservation, ReleaseReservation
  <2>3. ASSUME NEW i \in Items, RefundCapturedOrderItem(i, at) PROVE ItemsOK'
    <3>1. at \in 0 .. now'
      BY <1>0, <2>3, TimesType DEF RefundCapturedOrderItem, Changes, AppendLedger
    <3>2. \E n \in 0 .. entered' : refund' = [refund EXCEPT ![i] = [entry |-> n, at |-> at]]
      <4>1. CASE RefundEntries(i) = {}
        <5>1. entered' = entered + Cardinality({i}) /\ Cardinality({i}) = 1
          BY <2>3, <4>1, FS_Singleton DEF RefundCapturedOrderItem, Changes, AppendLedger
        <5>2. entered + 1 \in 0 .. entered'
          BY <1>0, <5>1
        <5> QED BY <2>3, <4>1, <5>2 DEF RefundCapturedOrderItem
      <4>2. CASE RefundEntries(i) # {}
        <5>1. \A e \in RefundEntries(i) : e.id \in 0 .. entered'
          BY <1>1 DEF RefundEntries, TypeOK, BooksOK
        <5> QED BY <2>3, <4>2, <5>1 DEF RefundCapturedOrderItem
      <4> QED BY <4>1, <4>2
    <3>3. UNCHANGED << reservation, held, cutoff >> /\ returned' = [returned EXCEPT ![i] = @ + 1]
      BY <2>3 DEF RefundCapturedOrderItem
    <3> QED BY <1>0, <1>2, <3>1, <3>2, <3>3
  <2>4. ASSUME NEW t \in Topups, CreditRedeemedTopup(t, at) \/ ReverseTopup(t, at) PROVE ItemsOK'
    <3>1. UNCHANGED << reservation, refund, returned, cutoff >> /\ held' \in {held, held \cup {<< "TOPUP", t >>}}
      BY <2>4 DEF CreditRedeemedTopup, ReverseTopup
    <3> QED BY <1>0, <1>2, <3>1
  <2>5. ASSUME NEW u \in Users, NEW amount \in Adjustments, AdjustBalance(u, amount, at)
        PROVE  UNCHANGED << reservation, refund, returned, held, cutoff >>
    BY <2>5 DEF AdjustBalance
  <2> QED BY <1>3, <1>4, <2>1, <2>2, <2>3, <2>4, <2>5 DEF Transacts
<1>5. CASE RunRetention
  <2>1. NoRefund \in [entry : 0 .. entered', at : 0 .. now']
    BY <1>0 DEF NoRefund
  <2>2. refund' = [i \in Items |-> IF i \in PrunedRefunds THEN NoRefund ELSE refund[i]]
        /\ UNCHANGED << reservation, returned, held, cutoff >>
    BY <1>5 DEF RunRetention
  <2> QED BY <1>0, <1>2, <2>1, <2>2
<1>6. ASSUME NEW i \in Items, OpenReview(i) \/ ResolveReview(i) PROVE ItemsOK'
  <2>1. UNCHANGED << reservation, refund, returned, cutoff >> /\ (held' = held \cup {<< "ITEM", i >>} \/ held' = held \ {<< "ITEM", i >>})
    BY <1>6 DEF OpenReview, ResolveReview
  <2> QED BY <1>0, <1>2, <2>1
<1>7. CASE DayPasses \/ UNCHANGED vars
  BY <1>3, <1>7 DEF DayPasses, vars
<1>8. CASE YearPasses
  <2>1. PICK moment \in { e.at : e \in ledger } \cup { refund[i].at : i \in Items } : cutoff' = moment
    BY <1>8 DEF YearPasses
  <2>2. moment \in 0 .. now
    <3>1. \A e \in ledger : e.at \in 1 .. now
      BY DEF TypeOK, BooksOK
    <3>2. \A i \in Items : refund[i].at \in 0 .. now
      BY <1>0
    <3>3. 1 .. now \subseteq 0 .. now
      BY <1>0
    <3> QED BY <3>1, <3>2, <3>3
  <2>3. UNCHANGED << reservation, refund, returned, held, now, entered >>
    BY <1>8 DEF YearPasses
  <2> QED BY <1>0, <2>1, <2>2, <2>3
<1> QED BY <1>4, <1>5, <1>6, <1>7, <1>8 DEF Next

\* Entries stay finite, numbered and in order; each refund entered was counted.
LEMMA LedgerNext ==
  ASSUME TypeOK, LedgerInv, UsageInv, [Next]_vars
  PROVE  LedgerInv'
<1>0. returned \in [Items -> Nat]
  BY DEF TypeOK, ItemsOK
<1>1. CASE EntersSome
  <2>1. PICK u \in Users, type \in EntryTypes, S \in SUBSET Nat, at \in Times : \E a, r :
          /\ Enters(u, type, S, a, r, at)
          /\ \/ type # "REFUND_CREDIT" /\ UNCHANGED returned
             \/ \E i \in Items : S = {i} /\ returned' = [returned EXCEPT ![i] = @ + 1]
    BY <1>1 DEF EntersSome
  <2>2. PICK a, r : /\ Enters(u, type, S, a, r, at)
                    /\ \/ type # "REFUND_CREDIT" /\ UNCHANGED returned
                       \/ \E i \in Items : S = {i} /\ returned' = [returned EXCEPT ![i] = @ + 1]
    BY <2>1
  <2>3. /\ IsFiniteSet(ledger') /\ \A e, f \in ledger' : e.id = f.id => e = f
        /\ \A v \in Users \ overtaken' : InOrder(v)'
    BY <2>2, EntersInOrder
  <2>4. \A i \in Items : RefundEntries(i)' # {} => returned'[i] >= 1
    <3> SUFFICES ASSUME NEW i \in Items, NEW e \in ledger', e.type = "REFUND_CREDIT", e.about = i
                 PROVE  returned'[i] >= 1
      BY DEF RefundEntries
    <3>1. ledger' = ledger \cup { Entry(u, type, S, x, a, r, at) : x \in S }
      BY <2>2 DEF Enters, AppendLedger
    <3>2. CASE e \in ledger
      <4>1. returned[i] >= 1
        BY <3>2 DEF LedgerInv, RefundEntries
      <4> QED BY <1>0, <2>2, <4>1
    <3>3. CASE e \notin ledger
      <4>1. e.type = type /\ e.about \in S
        BY <3>1, <3>3 DEF Entry
      <4> QED BY <1>0, <2>2, <4>1
    <3> QED BY <3>2, <3>3
  <2> QED BY <2>3, <2>4 DEF LedgerInv
<1>2. ASSUME UNCHANGED << ledger, overtaken >>, \A i \in Items : returned'[i] >= returned[i]
      PROVE  LedgerInv'
  <2>1. \A u \in Users : InOrder(u)' <=> InOrder(u)
    BY <1>2 DEF InOrder, EntriesOf
  <2>2. \A i \in Items : RefundEntries(i)' = RefundEntries(i) /\ returned[i] \in Nat /\ returned'[i] >= returned[i]
    BY <1>0, <1>2 DEF RefundEntries
  <2>3. ASSUME NEW i \in Items, RefundEntries(i)' # {} PROVE returned'[i] >= 1
    <3>1. returned[i] >= 1
      BY <2>2, <2>3 DEF LedgerInv
    <3>2. returned' [i] \in Nat
      BY ItemsType DEF ItemsOK
    <3> QED BY <2>2, <3>1, <3>2
  <2> QED BY <1>2, <2>1, <2>3 DEF LedgerInv
<1>3. CASE RunRetention
  <2>1. ledger' \subseteq ledger /\ UNCHANGED << overtaken, returned >>
    BY <1>3 DEF RunRetention
  <2>2. IsFiniteSet(ledger')
    BY <2>1, FS_Subset DEF LedgerInv
  <2>3. \A u \in Users : EntriesOf(u)' \subseteq EntriesOf(u)
    BY <2>1 DEF EntriesOf
  <2>4. \A i \in Items : RefundEntries(i)' \subseteq RefundEntries(i)
    BY <2>1 DEF RefundEntries
  <2>5. \A u \in Users \ overtaken' : InOrder(u)'
    BY <2>1, <2>3 DEF LedgerInv, InOrder
  <2>6. \A i \in Items : RefundEntries(i)' # {} => returned'[i] >= 1
    BY <2>1, <2>4 DEF LedgerInv
  <2> QED BY <2>1, <2>2, <2>5, <2>6 DEF LedgerInv
<1>4. CASE NoBooks
  BY <1>0, <1>2, <1>4 DEF NoBooks
<1>5. ASSUME NEW i \in Items, SecondRefund(i) PROVE LedgerInv'
  BY <1>0, <1>2, <1>5 DEF SecondRefund
<1> QED BY <1>1, <1>3, <1>4, <1>5, Steps

\* The chain.
LEMMA ChainNext ==
  ASSUME TypeOK, LedgerInv, UsageInv, ChainIsUnbroken, [Next]_vars
  PROVE  ChainIsUnbroken'
<1>1. CASE EntersSome
  BY <1>1, EntersChain DEF EntersSome
<1>2. ASSUME UNCHANGED << ledger, overtaken, checkpoint >> PROVE ChainIsUnbroken'
  BY <1>2 DEF ChainIsUnbroken, EntriesOf, Earlier, Newest, Before
<1>3. CASE NoBooks
  BY <1>2, <1>3 DEF NoBooks
<1>4. ASSUME NEW i \in Items, SecondRefund(i) PROVE ChainIsUnbroken'
  BY <1>2, <1>4 DEF SecondRefund
<1> QED BY <1>1, <1>3, <1>4, RetentionChain, Steps

\* The wallets: whoever is regular after a step was so before, and a second refund makes irregular.
LEMMA WalletNext ==
  ASSUME TypeOK, LedgerInv, UsageInv, WalletMatchesLedger, [Next]_vars
  PROVE  WalletMatchesLedger'
<1>0. returned \in [Items -> Nat]
  BY DEF TypeOK, ItemsOK
<1>1. ASSUME overtaken \subseteq overtaken', \A i \in Items : returned'[i] >= returned[i]
      PROVE  Regular' \subseteq Regular
  <2>1. returned' \in [Items -> Nat]
    BY ItemsType DEF ItemsOK
  <2>2. \A i \in Items : returned'[i] <= 1 => returned[i] <= 1
    BY <1>0, <1>1, <2>1
  <2> QED BY <1>1, <2>2 DEF Regular
<1>2. ASSUME NEW u \in Users,
             \/ UNCHANGED << ledger, checkpoint >>
             \/ EntriesOf(u)' = EntriesOf(u) /\ UNCHANGED checkpoint
      PROVE  Last(u)' = Last(u)
  <2>1. EntriesOf(u)' = EntriesOf(u) /\ UNCHANGED checkpoint
    BY <1>2 DEF EntriesOf
  <2>2. Last(u)' = IF EntriesOf(u)' = {} THEN checkpoint'[u] ELSE Newest(EntriesOf(u)')
    BY DEF Last, Newest, Before
  <2>3. Newest(EntriesOf(u)') = Newest(EntriesOf(u))
    BY <2>1, Zenon
  <2> QED BY <2>1, <2>2, <2>3 DEF Last
<1>3. CASE EntersSome
  <2>1. PICK u \in Users, type \in EntryTypes, S \in SUBSET Nat, at \in Times : \E a, r :
          /\ Enters(u, type, S, a, r, at)
          /\ \/ type # "REFUND_CREDIT" /\ UNCHANGED returned
             \/ \E i \in Items : S = {i} /\ returned' = [returned EXCEPT ![i] = @ + 1]
    BY <1>3 DEF EntersSome
  <2>2. PICK a, r : Enters(u, type, S, a, r, at)
    BY <2>1
  <2>3. overtaken \subseteq overtaken' /\ UNCHANGED checkpoint
    BY <2>2 DEF Enters, AppendLedger
  <2>4. \A i \in Items : returned'[i] >= returned[i]
    BY <1>0, <2>1
  <2>5. Regular' \subseteq Regular
    BY <1>1, <2>3, <2>4
  <2>6. ASSUME NEW v \in Regular' PROVE available'[v] = Last(v)'.available /\ reserved'[v] = Last(v)'.reserved
    <3>1. CASE v = u
      BY <2>2, <2>6, <3>1, EntersMatch DEF Regular
    <3>2. CASE v # u
      <4>1. EntriesOf(v)' = EntriesOf(v) /\ v \in Users
        BY <2>2, <2>6, <3>2, EntersOrder DEF Regular
      <4>2. Last(v)' = Last(v)
        BY <1>2, <2>3, <4>1
      <4>3. available'[v] = available[v] /\ reserved'[v] = reserved[v]
        BY <2>2, <3>2, <4>1 DEF Enters, UpdateWallet, TypeOK, BooksOK
      <4> QED BY <2>5, <2>6, <4>2, <4>3 DEF WalletMatchesLedger
    <3> QED BY <3>1, <3>2
  <2> QED BY <2>6 DEF WalletMatchesLedger
<1>4. CASE NoBooks
  <2>1. UNCHANGED << available, reserved, ledger, checkpoint >> /\ Regular' = Regular
    BY <1>4 DEF NoBooks, Regular
  <2>2. \A u \in Regular : u \in Users /\ Last(u)' = Last(u)
    BY <1>2, <2>1 DEF Regular
  <2> QED BY <2>1, <2>2 DEF WalletMatchesLedger
<1>5. CASE RunRetention
  <2>1. UNCHANGED << available, reserved >> /\ Regular' = Regular
    BY <1>5 DEF RunRetention, Regular
  <2>2. \A u \in Regular : Last(u)'.available = Last(u).available /\ Last(u)'.reserved = Last(u).reserved
    BY <1>5, RetentionMatch DEF Regular
  <2> QED BY <2>1, <2>2 DEF WalletMatchesLedger
<1>6. ASSUME NEW i \in Items, SecondRefund(i) PROVE WalletMatchesLedger'
  <2>1. returned[i] >= 1 /\ UserOfItem[i] \in Users
    BY <1>6, Numbers DEF SecondRefund, LedgerInv
  <2>2. returned'[i] > 1
    BY <1>0, <1>6, <2>1 DEF SecondRefund
  <2>3. UserOfItem[i] \notin Regular'
    <3>1. returned'[i] \in Nat
      BY ItemsType DEF ItemsOK
    <3> QED BY <2>2, <3>1 DEF Regular
  <2>4. Regular' \subseteq Regular
    BY <1>0, <1>1, <1>6 DEF SecondRefund
  <2>5. ASSUME NEW v \in Regular' PROVE available'[v] = Last(v)'.available /\ reserved'[v] = Last(v)'.reserved
    <3>1. v \in Users /\ v # UserOfItem[i]
      BY <2>3, <2>5 DEF Regular
    <3>2. Last(v)' = Last(v)
      BY <1>2, <1>6, <3>1 DEF SecondRefund
    <3>3. available'[v] = available[v] /\ reserved'[v] = reserved[v]
      BY <1>6, <3>1 DEF SecondRefund, UpdateWallet, TypeOK, BooksOK
    <3> QED BY <2>4, <2>5, <3>2, <3>3 DEF WalletMatchesLedger
  <2> QED BY <2>5 DEF WalletMatchesLedger
<1> QED BY <1>3, <1>4, <1>5, <1>6, Steps

-----------------------------------------------------------------------------
(* The promotion *)

\* The uses of a user and of a day are finitely many, and so are their top-ups.
LEMMA UsesFinite ==
  ASSUME UsageInv, NEW u, NEW d
  PROVE  IsFiniteSet(Uses(u)) /\ IsFiniteSet(UsesOn(u, d)) /\ IsFiniteSet(UsedOn(u, d))
<1>1. IsFiniteSet(Uses(u)) /\ IsFiniteSet(UsesOn(u, d))
  BY FS_Subset DEF UsageInv, Uses, UsesOn
<1>2. [x \in UsesOn(u, d) |-> x.topup] \in Surjection(UsesOn(u, d), UsedOn(u, d))
  BY DEF UsedOn, Surjection
<1> QED BY <1>1, <1>2, FS_Surjection

\* The bonuses of top-ups that keep them have the same sum as before.
LEMMA BonusesStay ==
  ASSUME NEW S, IsFiniteSet(S), \A s \in S : bonus[s] \in Int /\ bonus'[s] = bonus[s]
  PROVE  SumOf(bonus', S) = SumOf(bonus, S)
BY SumSame

\* The credit of a top-up that earns a bonus: one use more of the day, worth what is paid.
LEMMA BonusPaid ==
  ASSUME TypeOK, UsageInv, NEW t \in Topups, topup[t] = "REDEEMED", Eligible(t), NEW use,
         use = [topup |-> t, day |-> day, bonus |-> Bonus(t)], usage' = usage \cup {use},
         bonus' = [bonus EXCEPT ![t] = Bonus(t)], topup' = [topup EXCEPT ![t] = "CREDITED"]
  PROVE  UsageInv'
<1> DEFINE u == UserOfTopup[t]
           f == [x \in usage |-> x.bonus]
           g == [x \in usage' |-> x.bonus]
<1>1. use.topup = t /\ use.day = day /\ use.bonus = Bonus(t) /\ use \notin usage
  BY DEF UsageInv
<1>2. /\ \A x \in usage : x.topup \in Topups /\ x.bonus \in Nat /\ x.day \in Nat /\ x.topup # t /\ f[x] = x.bonus
      /\ bonus \in [Topups -> Nat] /\ topup \in [Topups -> {"REDEEMED", "CREDITED", "REVERSED"}]
      /\ day \in Nat /\ u \in Users
  BY Numbers DEF UsageInv, TypeOK, TopupsOK
<1>3. Bonus(t) \in Nat /\ BonusOn(u, day) \in Int /\ BonusOn(u, day) + Bonus(t) <= DailyBonus
  BY BonusType
<1>4. \A x \in usage : g[x] = x.bonus
  OBVIOUS
<1>5. g[use] = Bonus(t)
  BY <1>1
<1> HIDE DEF f, g
<1>6. IsFiniteSet(usage')
  BY FS_AddElement DEF UsageInv
<1>7. \A x \in usage' : topup'[x.topup] # "REDEEMED" /\ bonus'[x.topup] = x.bonus
  <2>1. \A x \in usage : topup[x.topup] # "REDEEMED" /\ bonus[x.topup] = x.bonus
    BY DEF UsageInv
  <2> QED BY <1>1, <1>2, <2>1
<1>8. /\ Uses(u)' = Uses(u) \cup {use} /\ use \notin Uses(u)
      /\ \A v \in Users \ {u} : Uses(v)' = Uses(v)
  BY <1>1 DEF Uses
<1>9. \A v \in Users : Cardinality(Uses(v)') <= MaxUses
  <2>1. Cardinality(Uses(u)') = Cardinality(Uses(u)) + 1
    <3>1. Cardinality(Uses(u)') = Cardinality(Uses(u) \cup {use})
      BY <1>8, Zenon
    <3>2. IsFiniteSet(Uses(u))
      BY UsesFinite
    <3>3. Cardinality(Uses(u) \cup {use}) = Cardinality(Uses(u)) + 1
      BY <1>8, <3>2, FS_AddElement
    <3> QED BY <3>1, <3>3
  <2>2. Cardinality(Uses(u)) < MaxUses /\ Cardinality(Uses(u)) \in Nat
    BY UsesFinite, FS_CardinalityType DEF Eligible
  <2>3. Cardinality(Uses(u)') <= MaxUses
    BY <2>1, <2>2, LedgerAssumption
  <2>4. ASSUME NEW v \in Users \ {u} PROVE Cardinality(Uses(v)') <= MaxUses
    <3>1. Cardinality(Uses(v)') = Cardinality(Uses(v))
      BY <1>8, Zenon
    <3> QED BY <3>1 DEF UsageInv
  <2> QED BY <2>3, <2>4
<1>10. ASSUME NEW v \in Users, NEW d \in Nat
       PROVE  Sum(bonus, UsedOn(v, d))' = BonusOn(v, d)' /\ BonusOn(v, d)' <= DailyBonus
  <2>0. IsFiniteSet(UsesOn(v, d)) /\ IsFiniteSet(UsedOn(v, d))
    BY UsesFinite
  <2>1. UsesOn(v, d) \subseteq usage /\ \A s \in UsedOn(v, d) : s \in Topups /\ s # t
    BY <1>2 DEF UsesOn, Uses, UsedOn
  <2>2. SumOf(g, UsesOn(v, d)) = SumOf(f, UsesOn(v, d)) /\ SumOf(f, UsesOn(v, d)) \in Int
    <3>1. \A x \in UsesOn(v, d) : f[x] \in Int /\ f[x] = g[x]
      BY <1>2, <1>4, <2>1
    <3> QED BY <2>0, <3>1, SumSame, SumInt
  <2>3. SumOf(bonus', UsedOn(v, d)) = SumOf(bonus, UsedOn(v, d))
    <3>1. \A s \in UsedOn(v, d) : bonus[s] \in Int /\ bonus'[s] = bonus[s]
      BY <1>2, <2>1
    <3> QED BY <2>0, <3>1, BonusesStay
  <2>4. SumOf(bonus, UsedOn(v, d)) = SumOf(f, UsesOn(v, d)) /\ SumOf(f, UsesOn(v, d)) <= DailyBonus
        /\ BonusOn(v, d) = SumOf(f, UsesOn(v, d))
    <3>1. Sum(bonus, UsedOn(v, d)) = BonusOn(v, d) /\ BonusOn(v, d) <= DailyBonus
      BY DEF UsageInv
    <3>2. BonusOn(v, d) = Sum(f, UsesOn(v, d))
      BY DEF BonusOn, f
    <3>3. Sum(f, UsesOn(v, d)) = SumOf(f, UsesOn(v, d)) /\ Sum(bonus, UsedOn(v, d)) = SumOf(bonus, UsedOn(v, d))
      BY SumIs
    <3> QED BY <3>1, <3>2, <3>3
  <2>5. BonusOn(v, d)' = Sum(g, UsesOn(v, d)') /\ Sum(bonus, UsedOn(v, d))' = Sum(bonus', UsedOn(v, d)')
    BY DEF BonusOn, g
  <2>6. Sum(g, UsesOn(v, d)') = SumOf(g, UsesOn(v, d)') /\ Sum(bonus', UsedOn(v, d)') = SumOf(bonus', UsedOn(v, d)')
    BY SumIs
  <2>7. CASE v = u /\ d = day
    <3>1. UsesOn(v, d)' = UsesOn(v, d) \cup {use} /\ use \notin UsesOn(v, d)
      BY <1>1, <1>8, <2>7 DEF UsesOn, Uses
    <3>2. UsedOn(v, d)' = UsedOn(v, d) \cup {t} /\ t \notin UsedOn(v, d)
      BY <1>1, <2>1, <3>1 DEF UsedOn
    <3>3. SumOf(g, UsesOn(v, d) \cup {use}) = SumOf(g, UsesOn(v, d)) + Bonus(t)
      <4>1. \A x \in UsesOn(v, d) \cup {use} : g[x] \in Int
        BY <1>2, <1>3, <1>4, <1>5, <2>1
      <4>2. SumOf(g, UsesOn(v, d) \cup {use}) = SumOf(g, UsesOn(v, d)) + g[use]
        BY <2>0, <3>1, <4>1, SumAdd
      <4> QED BY <1>5, <4>2
    <3>4. SumOf(bonus', UsedOn(v, d) \cup {t}) = SumOf(bonus', UsedOn(v, d)) + Bonus(t)
      <4>1. bonus'[t] = Bonus(t) /\ \A s \in UsedOn(v, d) \cup {t} : bonus'[s] \in Int
        BY <1>2, <1>3, <2>1
      <4>2. SumOf(bonus', UsedOn(v, d) \cup {t}) = SumOf(bonus', UsedOn(v, d)) + bonus'[t]
        BY <2>0, <3>2, <4>1, SumAdd
      <4> QED BY <4>1, <4>2
    <3>5. SumOf(g, UsesOn(v, d)') = SumOf(g, UsesOn(v, d) \cup {use})
      BY <3>1, Zenon
    <3>6. SumOf(bonus', UsedOn(v, d)') = SumOf(bonus', UsedOn(v, d) \cup {t})
      BY <3>2, Zenon
    <3>7. SumOf(f, UsesOn(v, d)) + Bonus(t) <= DailyBonus
      BY <1>3, <2>4, <2>7
    <3> QED BY <2>2, <2>3, <2>4, <2>5, <2>6, <3>3, <3>4, <3>5, <3>6, <3>7
  <2>8. CASE ~(v = u /\ d = day)
    <3>1. UsesOn(v, d)' = UsesOn(v, d)
      BY <1>1, <1>8, <2>8 DEF UsesOn
    <3>2. UsedOn(v, d)' = UsedOn(v, d)
      BY <3>1 DEF UsedOn
    <3>3. SumOf(g, UsesOn(v, d)') = SumOf(g, UsesOn(v, d))
      BY <3>1, Zenon
    <3>4. SumOf(bonus', UsedOn(v, d)') = SumOf(bonus', UsedOn(v, d))
      BY <3>2, Zenon
    <3> QED BY <2>2, <2>3, <2>4, <2>5, <2>6, <3>3, <3>4
  <2> QED BY <2>7, <2>8
<1> QED BY <1>6, <1>7, <1>9, <1>10 DEF UsageInv

\* Where the uses stay, and the bonuses of their top-ups, and none of these becomes creditable again.
LEMMA UsageStays ==
  ASSUME TypeOK, UsageInv, UNCHANGED usage,
         \A x \in usage : bonus'[x.topup] = bonus[x.topup] /\ topup'[x.topup] # "REDEEMED"
  PROVE  UsageInv'
<1>1. /\ \A u : Uses(u)' = Uses(u)
      /\ \A u, d : UsesOn(u, d)' = UsesOn(u, d)
  BY DEF Uses, UsesOn
<1>2. ASSUME NEW u \in Users, NEW d \in Nat
      PROVE  Sum(bonus, UsedOn(u, d))' = BonusOn(u, d)' /\ BonusOn(u, d)' <= DailyBonus
  <2>1. UsedOn(u, d)' = UsedOn(u, d)
    BY <1>1 DEF UsedOn
  <2>2. SumOf(bonus', UsedOn(u, d)) = SumOf(bonus, UsedOn(u, d))
    <3>1. \A s \in UsedOn(u, d) : bonus[s] \in Int /\ bonus[s] = bonus'[s]
      BY DEF UsedOn, UsesOn, Uses, TypeOK, TopupsOK
    <3> QED BY <3>1, UsesFinite, SumSame
  <2>3. Sum(bonus, UsedOn(u, d))' = Sum(bonus', UsedOn(u, d)')
    OBVIOUS
  <2>4. Sum(bonus', UsedOn(u, d)') = SumOf(bonus', UsedOn(u, d)') /\ Sum(bonus, UsedOn(u, d)) = SumOf(bonus, UsedOn(u, d))
    BY SumIs
  <2>5. SumOf(bonus', UsedOn(u, d)') = SumOf(bonus', UsedOn(u, d))
    BY <2>1, Zenon
  <2>6. BonusOn(u, d)' = BonusOn(u, d)
    <3>1. BonusOn(u, d)' = Sum([x \in usage' |-> x.bonus], UsesOn(u, d)')
      BY DEF BonusOn
    <3>2. [x \in usage' |-> x.bonus] = [x \in usage |-> x.bonus]
      OBVIOUS
    <3>3. BonusOn(u, d)' = Sum([x \in usage |-> x.bonus], UsesOn(u, d))
      BY <1>1, <3>1, <3>2, Zenon
    <3> QED BY <3>3 DEF BonusOn
  <2>7. Sum(bonus, UsedOn(u, d)) = BonusOn(u, d) /\ BonusOn(u, d) <= DailyBonus
    BY DEF UsageInv
  <2> QED BY <2>2, <2>3, <2>4, <2>5, <2>6, <2>7
<1>3. \A u \in Users : Cardinality(Uses(u)') <= MaxUses
  <2>1. \A u \in Users : Cardinality(Uses(u)') = Cardinality(Uses(u))
    BY <1>1, Zenon
  <2> QED BY <2>1 DEF UsageInv
<1> QED BY <1>2, <1>3 DEF UsageInv

\* Every step keeps within the limits of the promotion.
LEMMA UsageNext ==
  ASSUME TypeOK, UsageInv, [Next]_vars
  PROVE  UsageInv'
<1>0. \A x \in usage : x.topup \in Topups /\ topup[x.topup] # "REDEEMED"
  BY DEF UsageInv, TypeOK, TopupsOK
<1>1. ASSUME UNCHANGED << topup, bonus, usage >> PROVE UsageInv'
  BY <1>0, <1>1, UsageStays
<1>2. ASSUME NEW at \in Times, NEW t \in Topups, CreditRedeemedTopup(t, at) PROVE UsageInv'
  <2>1. CASE Eligible(t)
    <3>1. /\ topup[t] = "REDEEMED" /\ usage' = usage \cup {[topup |-> t, day |-> day, bonus |-> Bonus(t)]}
          /\ topup' = [topup EXCEPT ![t] = "CREDITED"] /\ bonus' = [bonus EXCEPT ![t] = Bonus(t)]
      BY <1>2, <2>1 DEF CreditRedeemedTopup
    <3> QED BY <2>1, <3>1, BonusPaid
  <2>2. CASE ~Eligible(t)
    <3>1. /\ topup[t] = "REDEEMED" /\ UNCHANGED usage
          /\ topup' = [topup EXCEPT ![t] = "CREDITED"] /\ bonus' = [bonus EXCEPT ![t] = 0]
      BY <1>2, <2>2 DEF CreditRedeemedTopup
    <3>2. \A x \in usage : bonus'[x.topup] = bonus[x.topup] /\ topup'[x.topup] # "REDEEMED"
      BY <1>0, <3>1 DEF TypeOK, TopupsOK
    <3> QED BY <3>1, <3>2, UsageStays
  <2> QED BY <2>1, <2>2
<1>3. ASSUME NEW at \in Times, NEW t \in Topups, ReverseTopup(t, at) PROVE UsageInv'
  <2>1. UNCHANGED << bonus, usage >> /\ (UNCHANGED topup \/ topup' = [topup EXCEPT ![t] = "REVERSED"])
    BY <1>3 DEF ReverseTopup
  <2>2. \A x \in usage : bonus'[x.topup] = bonus[x.topup] /\ topup'[x.topup] # "REDEEMED"
    BY <1>0, <2>1 DEF TypeOK, TopupsOK
  <2> QED BY <2>1, <2>2, UsageStays
<1>4. ASSUME NEW at \in Times, NEW i \in Items,
             CaptureReservation(i, at) \/ ReleaseReservation(i, at) \/ RefundCapturedOrderItem(i, at)
      PROVE  UNCHANGED << topup, bonus, usage >>
  BY <1>4 DEF CaptureReservation, ReleaseReservation, RefundCapturedOrderItem
<1>5. ASSUME \/ \E at \in Times, u \in Users, S \in (SUBSET Items) \ {{}} : ReserveOrderItems(u, S, at)
             \/ \E at \in Times, u \in Users, amount \in Adjustments : AdjustBalance(u, amount, at)
             \/ RunRetention \/ (\E i \in Items : OpenReview(i) \/ ResolveReview(i)) \/ DayPasses \/ YearPasses
             \/ UNCHANGED vars
      PROVE  UNCHANGED << topup, bonus, usage >>
  BY <1>5 DEF ReserveOrderItems, AdjustBalance, RunRetention, OpenReview, ResolveReview, DayPasses, YearPasses, vars
<1> QED BY <1>1, <1>2, <1>3, <1>4, <1>5 DEF Next, Transacts

-----------------------------------------------------------------------------
(* The invariant, and the theorems *)

\* At the beginning all books are empty.
LEMMA BooksInit == Init => BooksInv
<1> SUFFICES ASSUME Init PROVE BooksInv
  OBVIOUS
<1>1. TypeOK
  <2>1. BooksOK
    BY DEF Init, BooksOK, None
  <2>2. TopupsOK
    BY DEF Init, TopupsOK
  <2>3. ItemsOK
    BY DEF Init, ItemsOK, NoRefund
  <2> QED BY <2>1, <2>2, <2>3 DEF TypeOK
<1>2. \A u \in Users : EntriesOf(u) = {}
  BY DEF Init, EntriesOf
<1>3. LedgerInv
  <2>1. \A i \in Items : RefundEntries(i) = {}
    BY DEF Init, RefundEntries
  <2> QED BY <1>2, <2>1, FS_EmptySet DEF Init, LedgerInv, InOrder
<1>4. ChainIsUnbroken
  BY <1>2 DEF ChainIsUnbroken
<1>5. WalletMatchesLedger
  BY <1>2 DEF Init, WalletMatchesLedger, Regular, Last, None
<1>6. UsageInv
  <2>1. \A u : Uses(u) = {}
    BY DEF Init, Uses
  <2>2. \A u, d : UsesOn(u, d) = {}
    BY <2>1 DEF UsesOn
  <2>3. \A u, d : UsedOn(u, d) = {}
    BY <2>2 DEF UsedOn
  <2>4. ASSUME NEW u \in Users, NEW d \in Nat PROVE Sum(bonus, UsedOn(u, d)) = BonusOn(u, d) /\ BonusOn(u, d) <= DailyBonus
    <3>1. Sum(bonus, {}) = 0 /\ Sum([x \in usage |-> x.bonus], {}) = 0
      BY SumIs, SumEmpty
    <3>2. Sum(bonus, UsedOn(u, d)) = Sum(bonus, {})
      BY <2>3, Zenon
    <3>3. BonusOn(u, d) = Sum([x \in usage |-> x.bonus], {})
      BY <2>2, Zenon DEF BonusOn
    <3> QED BY <3>1, <3>2, <3>3, LedgerAssumption
  <2>5. \A u \in Users : Cardinality(Uses(u)) <= MaxUses
    <3>1. Cardinality({}) = 0 /\ MaxUses \in Nat
      BY FS_EmptySet, LedgerAssumption
    <3>2. \A u \in Users : Cardinality(Uses(u)) = Cardinality({})
      BY <2>1, Zenon
    <3> QED BY <3>1, <3>2
  <2>6. usage = {} /\ IsFiniteSet(usage)
    BY FS_EmptySet DEF Init
  <2> QED BY <2>4, <2>5, <2>6 DEF UsageInv
<1> QED BY <1>1, <1>3, <1>4, <1>5, <1>6 DEF BooksInv

\* Every step keeps the invariant.
LEMMA BooksNext == BooksInv /\ [Next]_vars => BooksInv'
<1> SUFFICES ASSUME BooksInv, [Next]_vars PROVE BooksInv'
  OBVIOUS
<1>1. TypeOK /\ LedgerInv /\ ChainIsUnbroken /\ WalletMatchesLedger /\ UsageInv
  BY DEF BooksInv
<1>2. TypeOK'
  BY <1>1, BooksType, TopupsType, ItemsType DEF TypeOK
<1> QED BY <1>1, <1>2, LedgerNext, ChainNext, WalletNext, UsageNext DEF BooksInv

\* The invariant holds of every state.
LEMMA BooksInvariant == Spec => []BooksInv
BY BooksInit, BooksNext, PTL DEF Spec

\* The tables keep their types: no balance is ever negative, neither a wallet's nor the one an entry
\* or a checkpoint carries, whatever an order reserves at once.
THEOREM LedgerTypeCorrect == Spec => []TypeOK
<1>1. BooksInv => TypeOK
  BY DEF BooksInv
<1> QED BY <1>1, BooksInvariant, PTL

\* The hash chain of a user who was not overtaken is unbroken, across any number of batches of
\* retention and their checkpoints.
THEOREM ChainUnbroken == Spec => []ChainIsUnbroken
<1>1. BooksInv => ChainIsUnbroken
  BY DEF BooksInv
<1> QED BY <1>1, BooksInvariant, PTL

\* The audit holds of every regular user: his wallet is what his newest entry says, or his checkpoint.
THEOREM WalletsMatch == Spec => []WalletMatchesLedger
<1>1. BooksInv => WalletMatchesLedger
  BY DEF BooksInv
<1> QED BY <1>1, BooksInvariant, PTL

\* No user gets more of a promotion than its bonus of a day and its number of uses.
THEOREM BonusLimited == Spec => []BonusIsLimited
<1>1. BooksInv => BonusIsLimited
  <2> SUFFICES ASSUME BooksInv PROVE BonusIsLimited
    OBVIOUS
  <2>1. \A d \in 1 .. day : d \in Nat
    OBVIOUS
  <2>2. \A u \in Users, d \in 1 .. day : Sum(bonus, UsedOn(u, d)) <= DailyBonus
    BY <2>1 DEF BooksInv, UsageInv
  <2> QED BY <2>2 DEF BooksInv, UsageInv, BonusIsLimited, UsedOn
<1> QED BY <1>1, BooksInvariant, PTL
=============================================================================
