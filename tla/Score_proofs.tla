---------------------------- MODULE Score_proofs ----------------------------
(***************************************************************************)
(* The ledgers of verbal contracts, and what is scored of a run.           *)
(*                                                                         *)
(* Ledgers: for any agents, any bound of the ledgers and any number of     *)
(* proposals, the two copies of a contract agree, its id is its own, and   *)
(* no copy ever goes back.  Each ledger is pruned by itself; what makes    *)
(* the two agree is that a prune keeps every open copy and a flip changes  *)
(* both.                                                                   *)
(*                                                                         *)
(* Scores: what the scorers gather of the contracts is what the ledgers    *)
(* say of them, and what they count of all else is what was done.          *)
(*                                                                         *)
(* A restart gives the bodies of the map file the ledgers of the last      *)
(* save, which may not fit together, and starts the ids again: the         *)
(* theorems are for engines whose map file has no agent bodies, or that do *)
(* not restart.                                                            *)
(***************************************************************************)
EXTENDS MCRunScore, FiniteSetTheorems, SequenceTheorems, WellFoundedInduction, TLAPS

Elems(l) == {l[i] : i \in DOMAIN l}

(* A ledger has one copy of a contract at most.                            *)
OnceIn(l) == \A i, j \in DOMAIN l : l[i].deal = l[j].deal => i = j

LEMMA LeastOf ==
  ASSUME NEW S \in SUBSET Nat, S # {}
  PROVE  \E m \in S : \A k \in S : m <= k
  <1>1. IsWellFoundedOn(OpToRel(<, Nat), Nat)
    BY NatLessThanWellFounded
  <1>2. PICK m \in S : \A k \in S : <<k, m>> \notin OpToRel(<, Nat)
    BY <1>1, WFMin
  <1>3. \A k \in S : ~ k < m
    BY <1>2, Zenon DEF OpToRel
  <1> QED BY <1>3

-----------------------------------------------------------------------------
(* Counting the members up to each numbers the members of a finite set of  *)
(* numbers one by one.                                                     *)
Rank(S, i) == Cardinality({j \in S : j <= i})

LEMMA RanksNumber ==
  ASSUME NEW n \in Nat, NEW S \in SUBSET (1..n)
  PROVE  /\ IsFiniteSet(S) /\ Cardinality(S) \in 0..n
         /\ Cardinality(S) = n => S = 1..n
         /\ \A i, j \in S : Rank(S, i) = Rank(S, j) => i = j
         /\ \A i \in S : Rank(S, i) \in 1..Cardinality(S)
         /\ \A k \in 1..Cardinality(S) : \E i \in S : Rank(S, i) = k
  <1>1. IsFiniteSet(1..n) /\ Cardinality(1..n) = n
    BY FS_Interval
  <1>2. /\ IsFiniteSet(S) /\ Cardinality(S) <= Cardinality(1..n)
        /\ Cardinality(S) = Cardinality(1..n) => 1..n = S
    BY <1>1, FS_Subset
  <1>3. Cardinality(S) \in Nat
    BY <1>2, FS_CardinalityType
  <1>4. ASSUME NEW i \in S
        PROVE  /\ IsFiniteSet({j \in S : j <= i})
               /\ Rank(S, i) \in Nat /\ Rank(S, i) <= Cardinality(S) /\ Rank(S, i) # 0
    <2> DEFINE U == {j \in S : j <= i}
    <2>1. U \in SUBSET S /\ i \in U
      OBVIOUS
    <2>2. IsFiniteSet(U) /\ Cardinality(U) <= Cardinality(S)
      BY <1>2, <2>1, FS_Subset
    <2>3. Cardinality(U) \in Nat /\ Cardinality(U) # 0
      BY <2>1, <2>2, FS_CardinalityType, FS_EmptySet
    <2> QED BY <2>2, <2>3 DEF Rank
  <1>5. ASSUME NEW i \in S, NEW j \in S, i < j PROVE Rank(S, i) # Rank(S, j)
    <2> DEFINE U == {k \in S : k <= i}
               V == {k \in S : k <= j}
    <2>0. i \in Nat /\ j \in Nat /\ \A k \in S : k \in Nat
      OBVIOUS
    <2>a. (\A k \in S : k <= i => k <= j) /\ ~ j <= i /\ j <= j
      BY <1>5, <2>0
    <2>1. U \in SUBSET V /\ j \in V /\ j \notin U
      BY <2>a
    <2>2. IsFiniteSet(V)
      BY <1>4
    <2>3. Cardinality(U) = Cardinality(V) => V = U
      BY <2>1, <2>2, FS_Subset
    <2> QED BY <2>1, <2>3 DEF Rank
  <1>6. \A i, j \in S : Rank(S, i) = Rank(S, j) => i = j
    <2> SUFFICES ASSUME NEW i \in S, NEW j \in S, Rank(S, i) = Rank(S, j) PROVE i = j
      OBVIOUS
    <2>1. ~ i < j /\ ~ j < i
      BY <1>5
    <2> QED BY <2>1
  <1>7. \A i \in S : Rank(S, i) \in 1..Cardinality(S)
    <2> SUFFICES ASSUME NEW i \in S PROVE Rank(S, i) \in 1..Cardinality(S)
      OBVIOUS
    <2>1. Rank(S, i) \in Nat /\ Rank(S, i) <= Cardinality(S) /\ Rank(S, i) # 0
      BY <1>4
    <2> QED BY <1>3, <2>1
  <1>8. \A k \in 1..Cardinality(S) : \E i \in S : Rank(S, i) = k
    <2> DEFINE T == 1..Cardinality(S)
               f == [i \in S |-> Rank(S, i)]
    <2>1. f \in [S -> T] /\ \A i \in S : f[i] = Rank(S, i)
      BY <1>7
    <2>2. f \in Injection(S, T)
      BY <1>6, <2>1 DEF Injection, IsInjective
    <2>3. IsFiniteSet(T) /\ Cardinality(T) = Cardinality(S)
      BY <1>3, FS_Interval
    <2> HIDE DEF f, T
    <2>4. f \in Surjection(S, T)
      BY <2>2, <2>3, FS_Injection
    <2>5. \A k \in T : \E i \in S : f[i] = k
      BY <2>4 DEF Surjection
    <2> QED BY <2>1, <2>5 DEF T
  <1> QED BY <1>1, <1>2, <1>3, <1>6, <1>7, <1>8

-----------------------------------------------------------------------------
(* A prune keeps the order, every open copy and no copy twice, and one     *)
(* that drops nothing had nothing closed to drop.                          *)
LEMMA PruneIs ==
  ASSUME NEW l \in Seq(Contract)
  PROVE  /\ Prune(l) \in Seq(Contract)
         /\ Elems(Prune(l)) \subseteq Elems(l)
         /\ \A c \in Elems(l) : c.status \notin Closed => c \in Elems(Prune(l))
         /\ OnceIn(l) => OnceIn(Prune(l))
         /\ Len(Prune(l)) <= Len(l)
         /\ Len(Prune(l)) = Len(l) /\ Len(l) > MaxContracts
              => \A c \in Elems(l) : c.status \notin Closed
  <1> DEFINE ClosedUpTo(i) == Cardinality({j \in 1..i : l[j].status \in Closed})
             kept == {i \in DOMAIN l :
                        l[i].status \in Closed => ClosedUpTo(i) > Len(l) - MaxContracts}
             N == Cardinality(kept)
             nth(k) == CHOOSE i \in kept : Rank(kept, i) = k
  <1>1. Len(l) \in Nat /\ DOMAIN l = 1..Len(l) /\ kept \in SUBSET (1..Len(l)) /\ MaxContracts \in Nat
    BY LedgerConstants DEF LedgerConstants
  <1>2. Prune(l) = [k \in 1..N |-> l[nth(k)]]
    BY DEF Prune, Rank
  <1>3. /\ N \in 0..Len(l) /\ (N = Len(l) => kept = 1..Len(l))
        /\ \A i, j \in kept : Rank(kept, i) = Rank(kept, j) => i = j
        /\ \A i \in kept : Rank(kept, i) \in 1..N
        /\ \A k \in 1..N : \E i \in kept : Rank(kept, i) = k
    <2> HIDE DEF kept
    <2> QED BY <1>1, RanksNumber
  <1>a. N \in Nat /\ N <= Len(l)
    <2> HIDE DEF kept
    <2> QED BY <1>1, <1>3
  <1>4. \A i \in DOMAIN l : i \in kept \/ l[i].status \in Closed
    OBVIOUS
  <1>5. ASSUME N = Len(l), Len(l) > MaxContracts, NEW i \in DOMAIN l, l[i].status \in Closed
        PROVE  FALSE
    <2> DEFINE C == {j \in 1..Len(l) : l[j].status \in Closed}
    <2>1. C \in SUBSET Nat /\ C # {}
      BY <1>1, <1>5
    <2>2. PICK m \in C : \A k \in C : m <= k
      <3> HIDE DEF C
      <3> QED BY <2>1, LeastOf
    <2>3. {j \in 1..m : l[j].status \in Closed} = {m}
      BY <1>1, <2>2
    <2>4. ClosedUpTo(m) = 1
      BY <2>3, FS_Singleton
    <2>5. m \in kept
      BY <1>3, <1>5
    <2> QED BY <1>1, <1>5, <2>2, <2>4, <2>5
  <1> HIDE DEF kept
  <1>6. \A k \in 1..N : nth(k) \in kept /\ Rank(kept, nth(k)) = k
    BY <1>3
  <1>7. \A i \in kept : nth(Rank(kept, i)) = i
    BY <1>3
  <1> HIDE DEF N, nth
  <1>8. Prune(l) \in Seq(Contract) /\ Len(Prune(l)) = N /\ DOMAIN Prune(l) = 1..N
    <2>1. \A i \in kept : l[i] \in Contract
      BY <1>1
    <2>2. \A k \in 1..N : l[nth(k)] \in Contract
      BY <1>6, <2>1
    <2> QED BY <1>2, <1>a, <2>2
  <1>9. Elems(Prune(l)) \subseteq Elems(l)
    <2>1. \A k \in 1..N : Prune(l)[k] = l[nth(k)] /\ nth(k) \in DOMAIN l
      BY <1>1, <1>2, <1>6
    <2> QED BY <1>8, <2>1 DEF Elems
  <1>10. ASSUME NEW c \in Elems(l), c.status \notin Closed PROVE c \in Elems(Prune(l))
    <2>1. PICK i \in DOMAIN l : c = l[i]
      BY DEF Elems
    <2>2. i \in kept
      BY <1>4, <1>10, <2>1
    <2>3. Rank(kept, i) \in 1..N /\ Prune(l)[Rank(kept, i)] = c
      BY <1>2, <1>3, <1>7, <2>1, <2>2
    <2> QED BY <1>8, <2>3 DEF Elems
  <1>11. ASSUME OnceIn(l), NEW j \in 1..N, NEW k \in 1..N, Prune(l)[j].deal = Prune(l)[k].deal
         PROVE  j = k
    <2>1. nth(j) = nth(k)
      BY <1>1, <1>2, <1>6, <1>11 DEF OnceIn
    <2> QED BY <1>6, <2>1
  <1>12. OnceIn(l) => OnceIn(Prune(l))
    BY <1>8, <1>11 DEF OnceIn
  <1>13. Len(Prune(l)) <= Len(l)
    BY <1>a, <1>8
  <1>14. Len(Prune(l)) = Len(l) /\ Len(l) > MaxContracts => \A c \in Elems(l) : c.status \notin Closed
    BY <1>5, <1>8 DEF Elems
  <1> QED BY <1>8, <1>9, <1>10, <1>12, <1>13, <1>14

(* The copy of a contract with another status.                             *)
As(d, c, to) == IF d.deal = c.deal THEN [d EXCEPT !.status = to] ELSE d

LEMMA AsIs ==
  ASSUME NEW d \in Contract, NEW c \in Contract, NEW to \in {"accepted"} \cup Closed
  PROVE  /\ As(d, c, to) \in Contract
         /\ As(d, c, to).proposer = d.proposer /\ As(d, c, to).target = d.target
         /\ As(d, c, to).n = d.n /\ As(d, c, to).deal = d.deal
         /\ As(d, c, to).status = IF d.deal = c.deal THEN to ELSE d.status
  BY DEF As, Contract, Closed

(* A flip finds the copy and changes its status only.                      *)
LEMMA FlipIs ==
  ASSUME NEW l \in Seq(Contract), OnceIn(l), NEW c \in Contract,
         NEW to \in {"accepted"} \cup Closed,
         \A d \in Elems(l) : d.proposer = c.proposer /\ d.n = c.n <=> d.deal = c.deal
  PROVE  /\ Flipped(l, c, to) \in Seq(Contract)
         /\ Len(Flipped(l, c, to)) = Len(l)
         /\ OnceIn(Flipped(l, c, to))
         /\ Elems(Flipped(l, c, to)) = {As(d, c, to) : d \in Elems(l)}
  <1> DEFINE I == {i \in 1..Len(l) : l[i].proposer = c.proposer /\ l[i].n = c.n}
             f == [i \in 1..Len(l) |-> As(l[i], c, to)]
  <1>1. Len(l) \in Nat /\ DOMAIN l = 1..Len(l) /\ \A i \in 1..Len(l) : l[i] \in Contract
    OBVIOUS
  <1>2. I = {i \in 1..Len(l) : l[i].deal = c.deal}
    BY <1>1 DEF Elems
  <1>3. \A i, j \in I : i = j
    BY <1>1, <1>2 DEF OnceIn
  <1>4. IndexContract(l, c) = IF I # {} THEN Min(I) ELSE 0
    BY DEF IndexContract, SelectInSeq
  <1>5. Flipped(l, c, to) = f
    <2>1. CASE I = {}
      <3>1. Flipped(l, c, to) = l
        BY <1>4, <2>1 DEF Flipped
      <3>2. \A i \in 1..Len(l) : f[i] = l[i]
        BY <1>2, <2>1 DEF As
      <3>3. l = [i \in 1..Len(l) |-> l[i]]
        BY <1>1
      <3> QED BY <3>1, <3>2, <3>3
    <2>2. CASE I # {}
      <3>1. PICK k \in I : TRUE
        BY <2>2
      <3>2. k \in 1..Len(l) /\ l[k].deal = c.deal /\ I = {k}
        BY <1>2, <1>3, <3>1
      <3>3. IndexContract(l, c) = k /\ k # 0
        <4>1. Min({k}) = k
          BY <1>1, <3>2 DEF Min
        <4>2. IndexContract(l, c) = Min(I)
          BY <1>4, <2>2
        <4>3. I = {k} /\ k \in Nat /\ k # 0
          BY <1>1, <3>2
        <4> QED BY <4>1, <4>2, <4>3, Zenon
      <3>4. Flipped(l, c, to) = [l EXCEPT ![k].status = to]
        BY <3>3 DEF Flipped
      <3>5. \A i \in 1..Len(l) : i # k => l[i].deal # c.deal
        BY <1>2, <3>2
      <3>6. \A i \in 1..Len(l) : [l EXCEPT ![k].status = to][i] = As(l[i], c, to)
        BY <1>1, <3>2, <3>5 DEF As
      <3>7. [l EXCEPT ![k].status = to] = [i \in 1..Len(l) |-> [l EXCEPT ![k].status = to][i]]
        BY <1>1
      <3> QED BY <3>4, <3>6, <3>7
    <2> QED BY <2>1, <2>2
  <1> HIDE DEF I
  <1>6. \A i \in 1..Len(l) : f[i] \in Contract /\ f[i].deal = l[i].deal
    <2> SUFFICES ASSUME NEW i \in 1..Len(l) PROVE f[i] \in Contract /\ f[i].deal = l[i].deal
      OBVIOUS
    <2>1. l[i] \in Contract /\ f[i] = As(l[i], c, to)
      BY <1>1
    <2> QED BY <2>1, AsIs
  <1>7. f \in Seq(Contract) /\ Len(f) = Len(l) /\ DOMAIN f = 1..Len(l)
    BY <1>1, <1>6
  <1>8. OnceIn(f)
    BY <1>1, <1>6, <1>7 DEF OnceIn
  <1>9. Elems(f) = {As(d, c, to) : d \in Elems(l)}
    BY <1>1, <1>7 DEF Elems
  <1> QED BY <1>5, <1>7, <1>8, <1>9

-----------------------------------------------------------------------------
(* Every copy is of a contract that was proposed since the ids began, by   *)
(* one of two bodies that were there, one of which has it.                 *)
Dealt ==
  \A a \in Parties : \A c \in Copies(a) :
    /\ c.deal <= deals /\ c.n <= idCounter
    /\ a \in PartiesOf(c) /\ PartiesOf(c) \subseteq Loaded \cup used
    /\ c.proposer # c.target

(* The numbers of the ids name the contracts, all ledgers together.        *)
Identified ==
  \A a, b \in Parties : \A c \in Copies(a), d \in Copies(b) :
    /\ c.n = d.n <=> c.deal = d.deal
    /\ c.deal = d.deal => c.proposer = d.proposer /\ c.target = d.target

(* Who is not there has no ledger.                                         *)
GoneWithoutLedger ==
  /\ present \subseteq Loaded \cup used
  /\ \A a \in Parties \ present : led[a] = <<>>

LedgerTypes ==
  /\ present \subseteq Parties /\ used \subseteq Fresh
  /\ led \in [Parties -> Seq(Contract)] /\ saved \in [Loaded -> Seq(Contract)]
  /\ idCounter \in Nat /\ deals \in 0..MaxDeals /\ idCounter <= deals

LInv ==
  /\ LedgerTypes /\ Dealt /\ Identified /\ GoneWithoutLedger /\ LedgersAgree
  /\ \A a \in Parties : OnceIn(led[a])

(* What a step has to keep, and what it may do to a ledger.                *)
StepKeeps == LInv' /\ StatusAdvances /\ GrowsByOpenOnly

LEMMA CopiesAre ==
  /\ \A a \in Parties : Copies(a) = Elems(led[a]) /\ Copies(a)' = Elems(led'[a])
  /\ LInv => \A a \in Parties : Copies(a) \subseteq Contract /\ led[a] \in Seq(Contract)
  <1>1. \A a \in Parties : Copies(a) = Elems(led[a]) /\ Copies(a)' = Elems(led'[a])
    BY DEF Copies, Elems
  <1>2. ASSUME LInv, NEW a \in Parties
        PROVE  Copies(a) \subseteq Contract /\ led[a] \in Seq(Contract)
    <2>1. led[a] \in Seq(Contract)
      BY <1>2 DEF LInv, LedgerTypes
    <2>2. \A i \in DOMAIN led[a] : led[a][i] \in Contract
      BY <2>1
    <2> QED BY <2>1, <2>2 DEF Copies
  <1> QED BY <1>1, <1>2

LEMMA SameDealSameCopy ==
  ASSUME NEW l, OnceIn(l), NEW c \in Elems(l), NEW d \in Elems(l), c.deal = d.deal
  PROVE  c = d
  BY DEF OnceIn, Elems

(* handlePropose: a new contract goes to both parties.                     *)
LEMMA AppendIs ==
  ASSUME NEW l \in Seq(Contract), NEW c \in Contract, OnceIn(l),
         \A d \in Elems(l) : d.deal # c.deal
  PROVE  /\ Append(l, c) \in Seq(Contract) /\ Len(Append(l, c)) = Len(l) + 1
         /\ Elems(Append(l, c)) = Elems(l) \cup {c} /\ OnceIn(Append(l, c))
  <1>1. /\ Append(l, c) \in Seq(Contract) /\ Len(Append(l, c)) = Len(l) + 1 /\ Len(l) \in Nat
        /\ DOMAIN l = 1..Len(l) /\ DOMAIN Append(l, c) = 1..(Len(l) + 1)
        /\ \A i \in 1..Len(l) : Append(l, c)[i] = l[i]
        /\ Append(l, c)[Len(l) + 1] = c
    OBVIOUS
  <1>2. \A i \in 1..(Len(l) + 1) : i \in 1..Len(l) \/ i = Len(l) + 1
    BY <1>1
  <1>3. 1..Len(l) \subseteq 1..(Len(l) + 1) /\ Len(l) + 1 \in 1..(Len(l) + 1)
    BY <1>1
  <1>4. \A i \in 1..Len(l) : l[i].deal # c.deal
    BY <1>1 DEF Elems
  <1>5. Elems(Append(l, c)) = Elems(l) \cup {c}
    BY <1>1, <1>2, <1>3 DEF Elems
  <1>6. OnceIn(Append(l, c))
    BY <1>1, <1>2, <1>4 DEF OnceIn
  <1> QED BY <1>1, <1>5, <1>6

LEMMA ProposeKeeps ==
  ASSUME LInv, NEW p \in Parties, NEW t \in Parties, Propose(p, t)
  PROVE  StepKeeps
  <1> USE CopiesAre
  <1> DEFINE c == [proposer |-> p, n |-> idCounter + 1, target |-> t,
                   status |-> "proposed", deal |-> deals + 1]
  <1>1. /\ {p, t} \subseteq present /\ p # t /\ deals < MaxDeals
        /\ idCounter' = idCounter + 1 /\ deals' = deals + 1
        /\ UNCHANGED <<present, used, saved>>
        /\ led' = [a \in Parties |-> IF a \in {p, t} THEN Prune(Append(led[a], c)) ELSE led[a]]
    BY DEF Propose
  <1>2. /\ c \in Contract /\ c.deal = deals + 1 /\ c.n = idCounter + 1
        /\ c.proposer = p /\ c.target = t /\ c.status \notin Closed /\ PartiesOf(c) = {p, t}
        /\ idCounter \in Nat /\ deals \in Nat
    <2>1. idCounter + 1 \in 1..MaxDeals /\ deals + 1 \in 1..MaxDeals /\ idCounter \in Nat /\ deals \in Nat
      BY <1>1, LedgerConstants DEF LInv, LedgerTypes, LedgerConstants
    <2> QED BY <2>1 DEF Contract, Closed, PartiesOf
  <1>3. \A a \in Parties : \A d \in Copies(a) :
          /\ d \in Contract /\ d.deal \in Nat /\ d.n \in Nat
          /\ d.deal # c.deal /\ d.n # c.n /\ d.deal <= deals' /\ d.n <= idCounter'
    <2> SUFFICES ASSUME NEW a \in Parties, NEW d \in Copies(a)
                 PROVE  /\ d \in Contract /\ d.deal \in Nat /\ d.n \in Nat
                        /\ d.deal # c.deal /\ d.n # c.n /\ d.deal <= deals' /\ d.n <= idCounter'
      OBVIOUS
    <2>1. d \in Contract
      OBVIOUS
    <2>2. d.deal \in Nat /\ d.n \in Nat /\ d.deal <= deals /\ d.n <= idCounter
      BY <2>1, LedgerConstants DEF Contract, LInv, Dealt, LedgerConstants
    <2> QED BY <1>1, <1>2, <2>1, <2>2
  <1> HIDE DEF c
  <1>4. ASSUME NEW a \in {p, t}
        PROVE  /\ Append(led[a], c) \in Seq(Contract)
               /\ Len(Append(led[a], c)) = Len(led[a]) + 1
               /\ Elems(Append(led[a], c)) = Copies(a) \cup {c}
               /\ OnceIn(Append(led[a], c))
    <2>1. led[a] \in Seq(Contract) /\ OnceIn(led[a]) /\ \A d \in Elems(led[a]) : d.deal # c.deal
      BY <1>3 DEF LInv
    <2> QED BY <1>2, <2>1, AppendIs
  <1>5. ASSUME NEW a \in {p, t}
        PROVE  /\ led'[a] \in Seq(Contract) /\ OnceIn(led'[a])
               /\ Copies(a)' \subseteq Copies(a) \cup {c} /\ c \in Copies(a)'
               /\ \A d \in Copies(a) : d.status \notin Closed => d \in Copies(a)'
               /\ Len(led'[a]) > Len(led[a]) /\ Len(led'[a]) > MaxContracts
                    => \A d \in Copies(a)' : d.status \notin Closed
    <2> DEFINE l == Append(led[a], c)
    <2>1. led'[a] = Prune(l) /\ a \in Parties
      BY <1>1
    <2>2. l \in Seq(Contract) /\ Len(l) = Len(led[a]) + 1 /\ Elems(l) = Copies(a) \cup {c} /\ OnceIn(l)
      BY <1>4
    <2> HIDE DEF l
    <2>3. /\ Prune(l) \in Seq(Contract)
          /\ Elems(Prune(l)) \subseteq Elems(l)
          /\ \A d \in Elems(l) : d.status \notin Closed => d \in Elems(Prune(l))
          /\ OnceIn(Prune(l))
          /\ Len(Prune(l)) <= Len(l)
          /\ Len(Prune(l)) = Len(l) /\ Len(l) > MaxContracts
               => \A d \in Elems(l) : d.status \notin Closed
      BY <2>2, PruneIs
    <2>4. Copies(a)' = Elems(Prune(l))
      BY <2>1
    <2>5. ASSUME Len(led'[a]) > Len(led[a]), Len(led'[a]) > MaxContracts
          PROVE  \A d \in Copies(a)' : d.status \notin Closed
      <3>1. Len(Prune(l)) \in Nat /\ Len(led[a]) \in Nat /\ MaxContracts \in Nat
        BY <2>1, <2>3, LedgerConstants DEF LedgerConstants
      <3>2. Len(Prune(l)) = Len(l) /\ Len(l) > MaxContracts
        BY <2>1, <2>2, <2>3, <2>5, <3>1
      <3> QED BY <2>3, <2>4, <3>2
    <2> QED BY <1>2, <2>1, <2>2, <2>3, <2>4, <2>5
  <1>6. ASSUME NEW a \in Parties \ {p, t} PROVE led'[a] = led[a] /\ Copies(a)' = Copies(a)
    BY <1>1
  <1>7. \A a \in Parties : \A d \in Copies(a)' : d \in Copies(a) \/ (d = c /\ a \in {p, t})
    BY <1>5, <1>6
  <1>8. \A a \in Parties : \A d \in Copies(a) : d.status \notin Closed => d \in Copies(a)'
    BY <1>5, <1>6
  <1>9. LedgerTypes'
    <2>1. led' \in [Parties -> Seq(Contract)]
      <3>1. \A a \in Parties : led'[a] \in Seq(Contract)
        BY <1>5, <1>6
      <3> QED BY <1>1, <3>1
    <2>2. idCounter' \in Nat /\ deals' \in 0..MaxDeals /\ idCounter' <= deals'
      BY <1>1, <1>2, LedgerConstants DEF LInv, LedgerTypes, LedgerConstants
    <2>3. present' \subseteq Parties /\ used' \subseteq Fresh /\ saved' \in [Loaded -> Seq(Contract)]
      BY <1>1 DEF LInv, LedgerTypes
    <2> QED BY <2>1, <2>2, <2>3 DEF LedgerTypes
  <1>10. \A a \in Parties : OnceIn(led'[a])
    BY <1>5, <1>6 DEF LInv
  <1>11. GoneWithoutLedger'
    BY <1>1, <1>6 DEF LInv, GoneWithoutLedger
  <1>12. Dealt'
    <2> SUFFICES ASSUME NEW a \in Parties, NEW d \in Copies(a)'
                 PROVE  /\ d.deal <= deals' /\ d.n <= idCounter'
                        /\ a \in PartiesOf(d) /\ PartiesOf(d) \subseteq Loaded \cup used'
                        /\ d.proposer # d.target
      BY DEF Dealt, PartiesOf
    <2>1. CASE d \in Copies(a)
      BY <1>1, <1>3, <2>1 DEF LInv, Dealt
    <2>2. CASE d = c /\ a \in {p, t}
      BY <1>1, <1>2, <2>2 DEF LInv, GoneWithoutLedger
    <2> QED BY <1>7, <2>1, <2>2
  <1>13. Identified'
    <2> SUFFICES ASSUME NEW a \in Parties, NEW b \in Parties, NEW d \in Copies(a)', NEW e \in Copies(b)'
                 PROVE  /\ d.n = e.n <=> d.deal = e.deal
                        /\ d.deal = e.deal => d.proposer = e.proposer /\ d.target = e.target
      BY DEF Identified
    <2>1. CASE d \in Copies(a) /\ e \in Copies(b)
      BY <2>1 DEF LInv, Identified
    <2>2. CASE d = c \/ e = c
      BY <1>3, <1>7, <2>2
    <2> QED BY <1>7, <2>1, <2>2
  <1>14. LedgersAgree'
    <2> SUFFICES ASSUME NEW a \in present, NEW d \in Copies(a)', NEW b \in PartiesOf(d) \cap present
                 PROVE  /\ d.status \notin Closed => d \in Copies(b)'
                        /\ \A e \in Copies(b)' : e.deal = d.deal => e = d
      BY <1>1 DEF LedgersAgree, PartiesOf
    <2>1. a \in Parties /\ b \in Parties
      BY DEF LInv, LedgerTypes
    <2>2. CASE d = c
      BY <1>2, <1>3, <1>5, <1>7, <2>1, <2>2
    <2>3. CASE d \in Copies(a)
      <3>1. /\ d.status \notin Closed => d \in Copies(b)
            /\ \A e \in Copies(b) : e.deal = d.deal => e = d
        BY <2>3 DEF LInv, LedgersAgree
      <3> QED BY <1>3, <1>7, <1>8, <2>1, <2>3, <3>1
    <2> QED BY <1>7, <2>1, <2>2, <2>3
  <1>15. StatusAdvances
    <2> SUFFICES ASSUME NEW a \in present, NEW d \in Copies(a), NEW e \in Copies(a)', d.deal = e.deal
                 PROVE  d = e
      BY DEF StatusAdvances
    <2>1. a \in Parties
      BY DEF LInv, LedgerTypes
    <2>2. e \in Copies(a)
      BY <1>3, <1>7, <2>1
    <2> QED BY <2>1, <2>2, SameDealSameCopy DEF LInv
  <1>16. GrowsByOpenOnly
    <2> SUFFICES ASSUME NEW a \in Parties, Len(led'[a]) > Len(led[a]), Len(led'[a]) > MaxContracts
                 PROVE  \A d \in Copies(a)' : d.status \notin Closed
      BY DEF GrowsByOpenOnly
    <2>1. CASE a \in {p, t}
      BY <1>5, <2>1
    <2>2. CASE a \notin {p, t}
      <3>1. Len(led[a]) \in Nat
        OBVIOUS
      <3> QED BY <1>6, <2>2, <3>1
    <2> QED BY <2>1, <2>2
  <1> QED BY <1>9, <1>10, <1>11, <1>12, <1>13, <1>14, <1>15, <1>16 DEF StepKeeps, LInv

(* transitionStatus: the copies of both parties advance together.          *)
Moves == {<<"proposed", "accepted">>, <<"proposed", "rejected">>,
          <<"accepted", "completed">>}

LEMMA TransitionFlips ==
  ASSUME LInv, NEW a \in Parties, NEW c \in Copies(a), NEW from, NEW to,
         <<from, to>> \in Moves, Transition(a, c, from, to)
  PROVE  /\ \A b \in Parties : \A d \in Copies(b) :
              /\ d \in Contract
              /\ (d.proposer = c.proposer /\ d.n = c.n) <=> d.deal = c.deal
              /\ b \in PartiesOf(d)
              /\ d.deal = c.deal => PartiesOf(d) = PartiesOf(c)
         /\ \A b \in Parties : \A d \in Copies(b) :
              /\ As(d, c, to) \in Contract /\ As(d, c, to).deal = d.deal /\ As(d, c, to).n = d.n
              /\ As(d, c, to).proposer = d.proposer /\ As(d, c, to).target = d.target
              /\ PartiesOf(As(d, c, to)) = PartiesOf(d)
              /\ As(d, c, to).status = IF d.deal = c.deal THEN to ELSE d.status
              /\ d.deal # c.deal => As(d, c, to) = d
         /\ \A b \in Parties :
              /\ led'[b] \in Seq(Contract) /\ Len(led'[b]) = Len(led[b]) /\ OnceIn(led'[b])
              /\ Copies(b)' = {As(d, c, to) : d \in Copies(b)}
  <1> USE CopiesAre
  <1>1. /\ c \in Contract /\ c.status = from
        /\ UNCHANGED <<present, used, idCounter, saved, deals>>
        /\ led' = [b \in Parties |-> IF b \in PartiesOf(c) THEN Flipped(led[b], c, to) ELSE led[b]]
    BY DEF Transition, PartiesOf
  <1>2. to \in {"accepted"} \cup Closed /\ from \notin Closed
    BY DEF Moves, Closed
  <1>3. a \in present /\ a \in PartiesOf(c)
    BY DEF LInv, GoneWithoutLedger, Dealt, Elems
  <1>4. \A b \in Parties : \A d \in Copies(b) :
          /\ d \in Contract
          /\ (d.proposer = c.proposer /\ d.n = c.n) <=> d.deal = c.deal
          /\ b \in PartiesOf(d)
          /\ d.deal = c.deal => PartiesOf(d) = PartiesOf(c)
    BY DEF LInv, Identified, Dealt, PartiesOf
  <1>5. \A b \in Parties : \A d \in Copies(b) :
          /\ As(d, c, to) \in Contract /\ As(d, c, to).deal = d.deal /\ As(d, c, to).n = d.n
          /\ As(d, c, to).proposer = d.proposer /\ As(d, c, to).target = d.target
          /\ PartiesOf(As(d, c, to)) = PartiesOf(d)
          /\ As(d, c, to).status = IF d.deal = c.deal THEN to ELSE d.status
          /\ d.deal # c.deal => As(d, c, to) = d
    <2> SUFFICES ASSUME NEW b \in Parties, NEW d \in Copies(b)
                 PROVE  /\ As(d, c, to) \in Contract /\ As(d, c, to).deal = d.deal /\ As(d, c, to).n = d.n
                        /\ As(d, c, to).proposer = d.proposer /\ As(d, c, to).target = d.target
                        /\ PartiesOf(As(d, c, to)) = PartiesOf(d)
                        /\ As(d, c, to).status = IF d.deal = c.deal THEN to ELSE d.status
                        /\ d.deal # c.deal => As(d, c, to) = d
      OBVIOUS
    <2>1. d \in Contract
      BY <1>4
    <2>2. d.deal # c.deal => As(d, c, to) = d
      BY DEF As
    <2>3. c \in Contract /\ to \in {"accepted"} \cup Closed
      BY <1>1, <1>2
    <2>4. /\ As(d, c, to) \in Contract /\ As(d, c, to).deal = d.deal /\ As(d, c, to).n = d.n
          /\ As(d, c, to).proposer = d.proposer /\ As(d, c, to).target = d.target
          /\ As(d, c, to).status = IF d.deal = c.deal THEN to ELSE d.status
      BY <2>1, <2>3, AsIs
    <2>5. PartiesOf(As(d, c, to)) = PartiesOf(d)
      BY <2>4 DEF PartiesOf
    <2> QED BY <2>2, <2>4, <2>5
  <1>6. ASSUME NEW b \in Parties
        PROVE  /\ led'[b] \in Seq(Contract) /\ Len(led'[b]) = Len(led[b]) /\ OnceIn(led'[b])
               /\ Copies(b)' = {As(d, c, to) : d \in Copies(b)}
    <2>1. led[b] \in Seq(Contract) /\ OnceIn(led[b])
      BY DEF LInv
    <2>2. CASE b \in PartiesOf(c)
      <3>1. led'[b] = Flipped(led[b], c, to)
        BY <1>1, <2>2
      <3>2. \A d \in Elems(led[b]) : d.proposer = c.proposer /\ d.n = c.n <=> d.deal = c.deal
        BY <1>4
      <3>3. /\ Flipped(led[b], c, to) \in Seq(Contract)
            /\ Len(Flipped(led[b], c, to)) = Len(led[b])
            /\ OnceIn(Flipped(led[b], c, to))
            /\ Elems(Flipped(led[b], c, to)) = {As(d, c, to) : d \in Elems(led[b])}
        BY <1>1, <1>2, <2>1, <3>2, FlipIs
      <3> QED BY <3>1, <3>3
    <2>3. CASE b \notin PartiesOf(c)
      <3>1. led'[b] = led[b]
        BY <1>1, <2>3
      <3>2. \A d \in Copies(b) : As(d, c, to) = d
        BY <1>4, <1>5, <2>3
      <3>3. Copies(b)' = Copies(b)
        BY <3>1
      <3> QED BY <2>1, <3>1, <3>2, <3>3
    <2> QED BY <2>2, <2>3
  <1> QED BY <1>4, <1>5, <1>6

LEMMA TransitionKeeps ==
  ASSUME LInv, NEW a \in Parties, NEW c \in Copies(a), NEW from, NEW to,
         <<from, to>> \in Moves, Transition(a, c, from, to)
  PROVE  StepKeeps
  <1> USE CopiesAre
  <1>1. /\ c \in Contract /\ c.status = from
        /\ UNCHANGED <<present, used, idCounter, saved, deals>>
        /\ led' = [b \in Parties |-> IF b \in PartiesOf(c) THEN Flipped(led[b], c, to) ELSE led[b]]
    BY DEF Transition, PartiesOf
  <1>2. to \in {"accepted"} \cup Closed /\ from \notin Closed
    BY DEF Moves, Closed
  <1>3. a \in present /\ a \in PartiesOf(c)
    BY DEF LInv, GoneWithoutLedger, Dealt, Elems
  <1>4. \A b \in Parties : \A d \in Copies(b) :
          /\ d \in Contract
          /\ (d.proposer = c.proposer /\ d.n = c.n) <=> d.deal = c.deal
          /\ b \in PartiesOf(d)
          /\ d.deal = c.deal => PartiesOf(d) = PartiesOf(c)
    BY TransitionFlips
  <1>5. \A b \in Parties : \A d \in Copies(b) :
          /\ As(d, c, to) \in Contract /\ As(d, c, to).deal = d.deal /\ As(d, c, to).n = d.n
          /\ As(d, c, to).proposer = d.proposer /\ As(d, c, to).target = d.target
          /\ PartiesOf(As(d, c, to)) = PartiesOf(d)
          /\ As(d, c, to).status = IF d.deal = c.deal THEN to ELSE d.status
          /\ d.deal # c.deal => As(d, c, to) = d
    BY TransitionFlips
  <1>6. ASSUME NEW b \in Parties
        PROVE  /\ led'[b] \in Seq(Contract) /\ Len(led'[b]) = Len(led[b]) /\ OnceIn(led'[b])
               /\ Copies(b)' = {As(d, c, to) : d \in Copies(b)}
    BY TransitionFlips
  <1>7. \A b \in Parties \cap present : b \in PartiesOf(c) =>
          \A d \in Copies(b) : d.deal = c.deal => d = c
    BY <1>3 DEF LInv, LedgersAgree
  <1>8. LedgerTypes'
    <2>1. led' \in [Parties -> Seq(Contract)]
      BY <1>1, <1>6
    <2> QED BY <1>1, <2>1 DEF LInv, LedgerTypes
  <1>9. GoneWithoutLedger'
    <2>1. ASSUME NEW b \in Parties \ present PROVE led'[b] = <<>>
      <3>1. led[b] = <<>> /\ Len(led'[b]) = Len(led[b]) /\ led'[b] \in Seq(Contract)
        BY <1>6, <2>1 DEF LInv, GoneWithoutLedger
      <3> QED BY <3>1
    <2> QED BY <1>1, <2>1 DEF LInv, GoneWithoutLedger
  <1>10. Dealt'
    <2> SUFFICES ASSUME NEW b \in Parties, NEW e \in Copies(b)'
                 PROVE  /\ e.deal <= deals' /\ e.n <= idCounter'
                        /\ b \in PartiesOf(e) /\ PartiesOf(e) \subseteq Loaded \cup used'
                        /\ e.proposer # e.target
      BY DEF Dealt, PartiesOf
    <2>1. PICK d \in Copies(b) : e = As(d, c, to)
      BY <1>6
    <2> QED BY <1>1, <1>5, <2>1 DEF LInv, Dealt
  <1>11. Identified'
    <2> SUFFICES ASSUME NEW u \in Parties, NEW b \in Parties, NEW d \in Copies(u)', NEW e \in Copies(b)'
                 PROVE  /\ d.n = e.n <=> d.deal = e.deal
                        /\ d.deal = e.deal => d.proposer = e.proposer /\ d.target = e.target
      BY DEF Identified
    <2>1. PICK d0 \in Copies(u) : d = As(d0, c, to)
      BY <1>6
    <2>2. PICK e0 \in Copies(b) : e = As(e0, c, to)
      BY <1>6
    <2> QED BY <1>5, <2>1, <2>2 DEF LInv, Identified
  <1>12. LedgersAgree'
    <2> SUFFICES ASSUME NEW y \in present, NEW x \in Copies(y)', NEW z \in PartiesOf(x) \cap present
                 PROVE  /\ x.status \notin Closed => x \in Copies(z)'
                        /\ \A e \in Copies(z)' : e.deal = x.deal => e = x
      BY <1>1 DEF LedgersAgree, PartiesOf
    <2>1. y \in Parties /\ z \in Parties
      BY DEF LInv, LedgerTypes
    <2>2. PICK d \in Copies(y) : x = As(d, c, to)
      BY <1>6, <2>1
    <2>3. z \in PartiesOf(d) /\ x.deal = d.deal
      BY <1>5, <2>1, <2>2
    <2>4. /\ d.status \notin Closed => d \in Copies(z)
          /\ \A e \in Copies(z) : e.deal = d.deal => e = d
      BY <2>2, <2>3 DEF LInv, LedgersAgree
    <2>5. d.deal = c.deal => d = c
      BY <1>4, <1>7, <2>1, <2>2
    <2>6. x.status \notin Closed => d.status \notin Closed
      BY <1>1, <1>2, <1>5, <2>1, <2>2, <2>5
    <2>7. x.status \notin Closed => x \in Copies(z)'
      BY <1>6, <2>1, <2>2, <2>4, <2>6
    <2>8. ASSUME NEW e \in Copies(z)', e.deal = x.deal PROVE e = x
      <3>1. PICK e0 \in Copies(z) : e = As(e0, c, to)
        BY <1>6, <2>1
      <3>2. e0 = d
        BY <1>5, <2>1, <2>3, <2>4, <2>8, <3>1
      <3> QED BY <2>2, <3>1, <3>2
    <2> QED BY <2>7, <2>8
  <1>13. StatusAdvances
    <2> SUFFICES ASSUME NEW b \in present, NEW d \in Copies(b), NEW e \in Copies(b)',
                        d.deal = e.deal, d # e
                 PROVE  <<d.status, e.status>> \in Moves
      BY DEF StatusAdvances, Moves
    <2>1. b \in Parties
      BY DEF LInv, LedgerTypes
    <2>2. PICK e0 \in Copies(b) : e = As(e0, c, to)
      BY <1>6, <2>1
    <2>3. e0 = d
      BY <1>5, <2>1, <2>2, SameDealSameCopy DEF LInv
    <2>4. d.deal = c.deal
      BY <1>5, <2>1, <2>2, <2>3
    <2>5. d = c
      BY <1>4, <1>7, <2>1, <2>4
    <2>6. e.status = to /\ d.status = from
      BY <1>1, <1>5, <2>1, <2>2, <2>3, <2>4, <2>5
    <2> QED BY <2>6
  <1>14. GrowsByOpenOnly
    <2>1. \A b \in Parties : Len(led[b]) \in Nat /\ Len(led'[b]) = Len(led[b])
      BY <1>6
    <2> QED BY <2>1 DEF GrowsByOpenOnly
  <1> QED BY <1>6, <1>8, <1>9, <1>10, <1>11, <1>12, <1>13, <1>14 DEF StepKeeps, LInv

(* The steps that do not touch a contract.                                 *)
LEMMA LedgersStay ==
  ASSUME LInv, UNCHANGED <<led, idCounter, deals>>, LedgerTypes',
         used \subseteq used', present' \subseteq Loaded \cup used',
         \A a \in present' : a \in present \/ a \in Fresh \ used,
         \A a \in present : a \in present'
  PROVE  StepKeeps
  <1>1. \A a \in Parties : Copies(a)' = Copies(a)
    BY DEF Copies
  <1>2. \A a \in present' : a \in Parties
    BY DEF LedgerTypes
  <1>3. Dealt' /\ Identified' /\ \A a \in Parties : OnceIn(led'[a])
    BY <1>1 DEF LInv, Dealt, Identified, PartiesOf
  <1>4. GoneWithoutLedger'
    BY DEF LInv, GoneWithoutLedger
  <1>5. LedgersAgree'
    <2> SUFFICES ASSUME NEW a \in present', NEW c \in Copies(a), NEW b \in PartiesOf(c) \cap present'
                 PROVE  /\ c.status \notin Closed => c \in Copies(b)
                        /\ \A d \in Copies(b) : d.deal = c.deal => d = c
      BY <1>1, <1>2 DEF LedgersAgree, PartiesOf
    <2>1. a \in present /\ PartiesOf(c) \subseteq Loaded \cup used
      BY <1>2, CopiesAre DEF LInv, GoneWithoutLedger, Dealt, Elems
    <2>2. b \in present
      BY <2>1, LedgerConstants DEF LedgerConstants
    <2> QED BY <2>1, <2>2 DEF LInv, LedgersAgree
  <1>6. StatusAdvances
    <2> SUFFICES ASSUME NEW a \in present, NEW c \in Copies(a), NEW d \in Copies(a), c.deal = d.deal
                 PROVE  c = d
      BY <1>1 DEF StatusAdvances, LInv, LedgerTypes
    <2>1. a \in Parties
      BY DEF LInv, LedgerTypes
    <2> QED BY <2>1, SameDealSameCopy, CopiesAre DEF LInv
  <1>7. GrowsByOpenOnly
    BY CopiesAre DEF GrowsByOpenOnly
  <1> QED BY <1>3, <1>4, <1>5, <1>6, <1>7 DEF StepKeeps, LInv

LEMMA SpawnKeeps ==
  ASSUME LInv, NEW a \in Parties, SpawnAgentEntity(a)
  PROVE  StepKeeps
  <1>1. LedgerTypes'
    BY DEF SpawnAgentEntity, LInv, LedgerTypes
  <1> QED BY <1>1, LedgersStay DEF SpawnAgentEntity, LInv, GoneWithoutLedger

LEMMA SaveKeeps ==
  ASSUME LInv, Save
  PROVE  StepKeeps
  <1>1. \A a \in Loaded : led[a] \in Seq(Contract)
    BY DEF LInv, LedgerTypes, Parties
  <1>2. LedgerTypes'
    BY <1>1 DEF Save, LInv, LedgerTypes
  <1> QED BY <1>2, LedgersStay DEF Save, LInv, GoneWithoutLedger

LEMMA RemoveKeeps ==
  ASSUME LInv, NEW a \in Parties, RemoveEntity(a)
  PROVE  StepKeeps
  <1>1. /\ present' = present \ {a} /\ UNCHANGED <<used, idCounter, saved, deals>>
        /\ led' = [led EXCEPT ![a] = <<>>]
    BY DEF RemoveEntity
  <1>2. led \in [Parties -> Seq(Contract)] /\ present \subseteq Parties
    BY DEF LInv, LedgerTypes
  <1>3. /\ led'[a] = <<>> /\ Copies(a)' = {} /\ OnceIn(led'[a])
        /\ \A b \in Parties \ {a} : led'[b] = led[b] /\ Copies(b)' = Copies(b)
    BY <1>1, <1>2 DEF Copies, OnceIn
  <1>4. LedgerTypes'
    <2>1. led' \in [Parties -> Seq(Contract)]
      BY <1>1, <1>2
    <2> QED BY <1>1, <2>1 DEF LInv, LedgerTypes
  <1>5. Dealt' /\ Identified' /\ \A b \in Parties : OnceIn(led'[b])
    BY <1>1, <1>3 DEF LInv, Dealt, Identified, PartiesOf
  <1>6. GoneWithoutLedger'
    BY <1>1, <1>3 DEF LInv, GoneWithoutLedger
  <1>7. LedgersAgree'
    BY <1>1, <1>2, <1>3 DEF LInv, LedgersAgree, PartiesOf
  <1>8. StatusAdvances
    <2> SUFFICES ASSUME NEW b \in present \ {a}, NEW c \in Copies(b), NEW d \in Copies(b), c.deal = d.deal
                 PROVE  c = d
      BY <1>1, <1>2, <1>3 DEF StatusAdvances
    <2> QED BY <1>2, SameDealSameCopy, CopiesAre DEF LInv
  <1>9. GrowsByOpenOnly
    BY <1>2, <1>3, CopiesAre DEF GrowsByOpenOnly
  <1> QED BY <1>4, <1>5, <1>6, <1>7, <1>8, <1>9 DEF StepKeeps, LInv

(* With no agent body in the map file a restart forgets every contract.    *)
LEMMA RestartKeeps ==
  ASSUME LInv, Loaded = {}, Restart
  PROVE  StepKeeps
  <1>1. /\ present' = {} /\ used' = {} /\ idCounter' = 0 /\ UNCHANGED <<saved, deals>>
        /\ led' = [a \in Parties |-> <<>>]
    BY DEF Restart
  <1>2. \A a \in Parties : led'[a] = <<>> /\ Copies(a)' = {} /\ OnceIn(led'[a])
    BY <1>1 DEF Copies, OnceIn
  <1>3. LedgerTypes'
    <2>1. deals \in Nat /\ 0 <= deals
      BY LedgerConstants DEF LInv, LedgerTypes, LedgerConstants
    <2> QED BY <1>1, <2>1 DEF LInv, LedgerTypes
  <1>4. Dealt' /\ Identified' /\ GoneWithoutLedger' /\ LedgersAgree'
    BY <1>1, <1>2 DEF Dealt, Identified, GoneWithoutLedger, LedgersAgree
  <1>5. StatusAdvances /\ GrowsByOpenOnly
    <2>1. \A a \in Parties : Len(led'[a]) = 0 /\ Len(led[a]) \in Nat
      BY <1>2, CopiesAre
    <2> QED BY <1>1, <2>1 DEF StatusAdvances, GrowsByOpenOnly
  <1> QED BY <1>2, <1>3, <1>4, <1>5 DEF StepKeeps, LInv

LEMMA EveryStepKeeps ==
  ASSUME LInv, [LedgerNext /\ (Restart => Loaded = {})]_ledgerVars
  PROVE  StepKeeps
  <1>1. ASSUME NEW a \in Parties, SpawnAgentEntity(a) PROVE StepKeeps
    BY <1>1, SpawnKeeps
  <1>2. ASSUME NEW a \in Parties, RemoveEntity(a) PROVE StepKeeps
    BY <1>2, RemoveKeeps
  <1>3. ASSUME NEW a \in Parties, NEW t \in Parties, Propose(a, t) PROVE StepKeeps
    BY <1>3, ProposeKeeps
  <1>4. ASSUME NEW a \in Parties, NEW c \in Named(a), NEW from, NEW to,
               <<from, to>> \in Moves, Transition(a, c, from, to)
        PROVE  StepKeeps
    <2>1. c \in Copies(a)
      BY DEF Named, Copies
    <2> QED BY <1>4, <2>1, TransitionKeeps
  <1>5. ASSUME NEW a \in Parties, Accept(a) \/ Reject(a) \/ Complete(a) PROVE StepKeeps
    BY <1>4, <1>5 DEF Accept, Reject, Complete, Moves
  <1>6. CASE Save
    BY <1>6, SaveKeeps
  <1>7. ASSUME Loaded = {}, Restart PROVE StepKeeps
    BY <1>7, RestartKeeps
  <1>8. CASE UNCHANGED ledgerVars
    <2>1. LedgerTypes'
      BY <1>8 DEF ledgerVars, LInv, LedgerTypes
    <2> QED BY <1>8, <2>1, LedgersStay DEF ledgerVars, LInv, GoneWithoutLedger
  <1> QED BY <1>1, <1>2, <1>3, <1>5, <1>6, <1>7, <1>8 DEF LedgerNext

LEMMA LedgersStart == LedgerInit => LInv
  <1> SUFFICES ASSUME LedgerInit PROVE LInv
    OBVIOUS
  <1>1. /\ present = Loaded /\ used = {} /\ idCounter = 0 /\ deals = 0
        /\ led = [a \in Parties |-> <<>>] /\ saved = [a \in Loaded |-> <<>>]
    BY DEF LedgerInit
  <1>2. \A a \in Parties : led[a] = <<>> /\ Copies(a) = {} /\ OnceIn(led[a])
    BY <1>1 DEF Copies, OnceIn
  <1>3. LedgerTypes
    BY <1>1, LedgerConstants DEF LedgerTypes, LedgerConstants, Parties
  <1>4. Dealt /\ Identified /\ GoneWithoutLedger /\ LedgersAgree
    BY <1>1, <1>2 DEF Dealt, Identified, GoneWithoutLedger, LedgersAgree, Parties
  <1> QED BY <1>2, <1>3, <1>4 DEF LInv

LEMMA LInvIsSafe == LInv => LedgerSafe
  <1> SUFFICES ASSUME LInv PROVE LedgerSafe
    OBVIOUS
  <1>1. LedgerTypeOK
    BY LedgerConstants DEF LInv, LedgerTypes, Dealt, Copies, LedgerTypeOK, LedgerConstants
  <1>2. IdsAreUnique
    BY DEF LInv, LedgerTypes, Identified, IdsAreUnique
  <1> QED BY <1>1, <1>2 DEF LInv, LedgerSafe

-----------------------------------------------------------------------------
(* However proposals, answers, deaths and restarts mix: both sides see the *)
(* same record of an open contract, two copies of one never differ, and an *)
(* id names one contract (verbalquests.go: appendContract,                 *)
(* transitionStatus, mutateContract).                                      *)
THEOREM BothSidesSeeTheSame ==
  ASSUME Loaded = {} PROVE LedgerSpec => []LedgerSafe
  <1>1. LInv /\ [LedgerNext]_ledgerVars => LInv'
    BY EveryStepKeeps DEF StepKeeps
  <1> QED BY <1>1, LedgersStart, LInvIsSafe, PTL DEF LedgerSpec

(* No copy of a contract goes back or is decided twice, and a ledger grows *)
(* beyond its bound by open contracts only (verbalquests.go:               *)
(* transitionStatus, appendContract).                                      *)
THEOREM ContractsOnlyAdvance ==
  ASSUME Loaded = {} PROVE LedgerSpec => LedgersOnlyAdvance
  <1>1. LInv /\ [LedgerNext]_ledgerVars => LInv'
    BY EveryStepKeeps DEF StepKeeps
  <1>2. LInv /\ [LedgerNext]_ledgerVars => [StatusAdvances /\ GrowsByOpenOnly]_ledgerVars
    BY EveryStepKeeps DEF StepKeeps
  <1> QED BY <1>1, <1>2, LedgersStart, PTL DEF LedgerSpec, LedgersOnlyAdvance

(* With bodies in the map file too, as long as the engine is not restarted.*)
OneEngine == LedgerInit /\ [][LedgerNext /\ ~ Restart]_ledgerVars

(* In one run of the engine all that holds for any bodies of the map file  *)
(* (verbalquests.go).                                                      *)
THEOREM LedgersOfOneEngine ==
  OneEngine => []LedgerSafe /\ LedgersOnlyAdvance
  <1>1. LInv /\ [LedgerNext /\ ~ Restart]_ledgerVars => LInv'
    BY EveryStepKeeps DEF StepKeeps
  <1>2. LInv /\ [LedgerNext /\ ~ Restart]_ledgerVars => [StatusAdvances /\ GrowsByOpenOnly]_ledgerVars
    BY EveryStepKeeps DEF StepKeeps
  <1> QED BY <1>1, <1>2, LedgersStart, LInvIsSafe, PTL DEF OneEngine, LedgersOnlyAdvance

-----------------------------------------------------------------------------
(* The score of the contracts.                                             *)
ScoreFields == <<score.contracts, score.partners, score.attacks, score.accepted>>

Scored(f, p, x, n) == [contracts |-> f, partners |-> p, attacks |-> x, accepted |-> n]

(* The score is a record, of contracts by their ids.                       *)
ScoreIsRecord ==
  /\ score = Scored(score.contracts, score.partners, score.attacks, score.accepted)
  /\ score.contracts = [i \in DOMAIN score.contracts |-> score.contracts[i]]
  /\ \A i \in DOMAIN score.contracts : score.contracts[i] =
       [status |-> score.contracts[i].status, target |-> score.contracts[i].target]

LEMMA ProposedIs ==
  ASSUME NEW c, ScoreIsRecord
  PROVE  /\ Proposed(c).partners = score.partners \cup Pair(c) /\ Proposed(c).attacks = score.attacks
         /\ Proposed(c).accepted = score.accepted
         /\ DOMAIN Proposed(c).contracts = DOMAIN score.contracts \cup {Id(c)}
         /\ Proposed(c).contracts[Id(c)] = [status |-> "proposed", target |-> c.target]
         /\ \A i \in DOMAIN score.contracts \ {Id(c)} : Proposed(c).contracts[i] = score.contracts[i]
  BY DEF ScoreIsRecord, Scored, Proposed

LEMMA ScoreFlippedIs ==
  ASSUME NEW c, NEW to, ScoreIsRecord
  PROVE  /\ score.partners \subseteq ScoreFlipped(c, to).partners
         /\ ScoreFlipped(c, to).attacks = score.attacks
         /\ ScoreFlipped(c, to).accepted = IF to = "accepted" THEN score.accepted + 1 ELSE score.accepted
         /\ DOMAIN ScoreFlipped(c, to).contracts = DOMAIN score.contracts
         /\ Known(c) => ScoreFlipped(c, to).contracts[Id(c)] = [score.contracts[Id(c)] EXCEPT !.status = to]
         /\ \A i \in DOMAIN score.contracts \ {Id(c)} : ScoreFlipped(c, to).contracts[i] = score.contracts[i]
  BY DEF ScoreIsRecord, Scored, ScoreFlipped, Known

(* The contracts of the score have ids that were given, and the score is   *)
(* empty before the window.                                                *)
ScoredIds ==
  /\ IsFiniteSet(DOMAIN score.contracts)
  /\ \A i \in DOMAIN score.contracts : \E p : \E n \in Nat : i = <<p, n>> /\ n <= idCounter
  /\ ~ open => score.contracts = NoScore.contracts

(* Of every copy, whoever is there.                                        *)
ScoreOfCopies ==
  \A a \in Parties : \A c \in Copies(a) :
    Known(c) => score.contracts[Id(c)] = [status |-> c.status, target |-> c.target]

SInv ==
  /\ LInv /\ ScoreIsRecord /\ ScoredIds /\ ScoreOfCopies
  /\ score.accepted \in Nat /\ earlier \in Nat /\ ScorersAgree
  /\ betrayed \subseteq score.attacks \cap score.partners

Counted(f) == {i \in DOMAIN f : f[i].status \in {"accepted", "completed"}}

LEMMA CountedIsFinite ==
  ASSUME SInv
  PROVE  IsFiniteSet(Counted(score.contracts)) /\ ContractsAccepted = Cardinality(Counted(score.contracts))
         /\ ContractsAccepted \in Nat
  <1>1. Counted(score.contracts) \in SUBSET DOMAIN score.contracts /\ IsFiniteSet(DOMAIN score.contracts)
    BY DEF SInv, ScoredIds, Counted
  <1>2. IsFiniteSet(Counted(score.contracts))
    BY <1>1, FS_Subset
  <1> QED BY <1>2, FS_CardinalityType DEF Counted, ContractsAccepted

(* A score that stays, of ledgers that only lose copies.                   *)
LEMMA ScoreStays ==
  ASSUME SInv, LInv', UNCHANGED <<score, open, earlier, betrayed>>, idCounter <= idCounter',
         \A a \in Parties : Copies(a)' \subseteq Copies(a)
  PROVE  SInv'
  <1>1. ScoredIds'
    <2>1. idCounter \in Nat /\ idCounter' \in Nat
      BY DEF SInv, LInv, LedgerTypes
    <2> QED BY <2>1 DEF SInv, ScoredIds, NoScore
  <1>2. ScoreOfCopies'
    BY DEF SInv, ScoreOfCopies, Known, Id
  <1> QED BY <1>1, <1>2 DEF SInv, ScoreIsRecord, ScorersAgree, ContractsAccepted

LEMMA ProposeAdds ==
  ASSUME LInv, NEW p \in Parties, NEW t \in Parties, Propose(p, t)
  PROVE  /\ idCounter' = idCounter + 1
         /\ \A a \in Parties : \A d \in Copies(a)' : d \in Copies(a) \/
              d = [proposer |-> p, n |-> idCounter', target |-> t, status |-> "proposed", deal |-> deals']
  <1> DEFINE c == [proposer |-> p, n |-> idCounter', target |-> t, status |-> "proposed", deal |-> deals']
  <1>1. /\ idCounter' = idCounter + 1 /\ deals' = deals + 1 /\ deals < MaxDeals
        /\ led' = [a \in Parties |-> IF a \in {p, t} THEN Prune(Append(led[a], c)) ELSE led[a]]
    BY DEF Propose
  <1>2. c \in Contract
    <2>1. idCounter + 1 \in 1..MaxDeals /\ deals + 1 \in 1..MaxDeals
      BY <1>1, LedgerConstants DEF LInv, LedgerTypes, LedgerConstants
    <2> QED BY <1>1, <2>1 DEF Contract
  <1> HIDE DEF c
  <1>3. ASSUME NEW a \in Parties PROVE Elems(led'[a]) \subseteq Elems(led[a]) \cup {c}
    <2>1. CASE a \in {p, t}
      <3>1. led[a] \in Seq(Contract)
        BY DEF LInv, LedgerTypes
      <3>2. /\ Append(led[a], c) \in Seq(Contract)
            /\ Elems(Append(led[a], c)) \subseteq Elems(led[a]) \cup {c}
        BY <1>2, <3>1 DEF Elems
      <3>3. led'[a] = Prune(Append(led[a], c))
        BY <1>1, <2>1
      <3> HIDE DEF c
      <3> QED BY <3>2, <3>3, PruneIs
    <2>2. CASE a \notin {p, t}
      BY <1>1, <2>2
    <2> QED BY <2>1, <2>2
  <1> QED BY <1>1, <1>3, CopiesAre DEF c

LEMMA ScoreProposeKeeps ==
  ASSUME SInv, LInv', NEW p \in Parties, NEW t \in Parties, ScorePropose(p, t)
  PROVE  SInv'
  <1> DEFINE c == [proposer |-> p, n |-> idCounter', target |-> t]
             x == Id(c)
  <1>0. /\ Propose(p, t) /\ UNCHANGED <<open, earlier, betrayed>>
        /\ score' = IF open THEN Proposed(c) ELSE score
    BY DEF ScorePropose
  <1>1. idCounter \in Nat /\ idCounter' = idCounter + 1 /\ LInv
    BY <1>0, ProposeAdds DEF SInv, LInv, LedgerTypes
  <1>2. x = <<p, idCounter'>> /\ x \notin DOMAIN score.contracts
    BY <1>1 DEF Id, SInv, ScoredIds
  <1>3. ASSUME NEW a \in Parties, NEW d \in Copies(a)'
        PROVE  \/ d \in Copies(a) /\ Id(d) # x
               \/ Id(d) = x /\ d.status = "proposed" /\ d.target = t
    <2>1. CASE d \in Copies(a)
      <3>1. d.n \in Nat /\ d.n <= idCounter
        BY <1>1, <2>1, CopiesAre, LedgerConstants DEF LInv, Dealt, Contract, LedgerConstants
      <3> QED BY <1>1, <1>2, <2>1, <3>1 DEF Id
    <2>2. CASE d \notin Copies(a)
      <3>1. d = [proposer |-> p, n |-> idCounter', target |-> t, status |-> "proposed", deal |-> deals']
        BY <1>0, <1>1, <2>2, ProposeAdds
      <3> QED BY <1>2, <3>1 DEF Id
    <2> QED BY <2>1, <2>2
  <1>4. CASE ~ open
    <2>1. score' = score /\ DOMAIN score.contracts = {}
      BY <1>0, <1>4 DEF SInv, ScoredIds, NoScore
    <2>2. ScoredIds'
      BY <1>0, <1>1, <2>1 DEF SInv, ScoredIds, NoScore
    <2>3. ScoreOfCopies'
      BY <2>1 DEF ScoreOfCopies, Known
    <2> QED BY <1>0, <2>1, <2>2, <2>3 DEF SInv, ScoreIsRecord, ScorersAgree, ContractsAccepted
  <1>5. CASE open
    <2>0. ScoreIsRecord /\ score' = Proposed(c) /\ c.target = t
      BY <1>0, <1>5 DEF SInv
    <2> HIDE DEF c
    <2>1. /\ score.partners \subseteq score'.partners /\ score'.attacks = score.attacks
          /\ score'.accepted = score.accepted
          /\ DOMAIN score'.contracts = DOMAIN score.contracts \cup {x}
          /\ score'.contracts[x] = [status |-> "proposed", target |-> t]
          /\ \A i \in DOMAIN score.contracts : score'.contracts[i] = score.contracts[i]
      BY <1>2, <2>0, ProposedIs
    <2>2. ScoreIsRecord'
      <3>1. score' = Scored(score'.contracts, score'.partners, score'.attacks, score'.accepted)
            /\ score'.contracts = [i \in DOMAIN score'.contracts |-> score'.contracts[i]]
        BY <2>0 DEF Proposed, ScoreIsRecord, Scored
      <3>2. \A i \in DOMAIN score'.contracts : score'.contracts[i] =
              [status |-> score'.contracts[i].status, target |-> score'.contracts[i].target]
        BY <2>0, <2>1 DEF ScoreIsRecord
      <3> QED BY <3>1, <3>2 DEF ScoreIsRecord
    <2> HIDE DEF x
    <2>3. ScoredIds'
      <3>1. IsFiniteSet(DOMAIN score'.contracts)
        BY <2>1, FS_AddElement DEF SInv, ScoredIds
      <3>2. \A i \in DOMAIN score'.contracts : \E q : \E n \in Nat : i = <<q, n>> /\ n <= idCounter'
        <4>1. \A i \in DOMAIN score.contracts : \E q : \E n \in Nat : i = <<q, n>> /\ n <= idCounter'
          BY <1>1 DEF SInv, ScoredIds
        <4>2. idCounter' \in Nat /\ idCounter' <= idCounter'
          BY <1>1
        <4> QED BY <1>2, <2>1, <4>1, <4>2
      <3> QED BY <1>0, <1>5, <3>1, <3>2 DEF ScoredIds
    <2>4. ScoreOfCopies'
      <3> SUFFICES ASSUME NEW a \in Parties, NEW d \in Copies(a)', Id(d) \in DOMAIN score'.contracts
                   PROVE  score'.contracts[Id(d)] = [status |-> d.status, target |-> d.target]
        BY DEF ScoreOfCopies, Known, Id
      <3>1. CASE d \in Copies(a) /\ Id(d) # x
        BY <2>1, <3>1 DEF SInv, ScoreOfCopies, Known
      <3>2. CASE Id(d) = x /\ d.status = "proposed" /\ d.target = t
        BY <2>1, <3>2
      <3> QED BY <1>3, <3>1, <3>2
    <2>5. ScorersAgree'
      <3>1. Counted(score'.contracts) = Counted(score.contracts)
        BY <1>2, <2>1 DEF Counted
      <3>2. ContractsAccepted' = ContractsAccepted
        BY <3>1 DEF Counted, ContractsAccepted
      <3> QED BY <1>0, <2>1, <3>2 DEF SInv, ScorersAgree
    <2> QED BY <1>0, <2>1, <2>2, <2>3, <2>4, <2>5 DEF SInv
  <1> QED BY <1>4, <1>5

LEMMA ScoreFlipKeeps ==
  ASSUME SInv, LInv', NEW a \in Parties, ScoreFlip(a)
  PROVE  SInv'
  <1>1. PICK c \in Named(a), v \in Verbs :
          /\ Transition(a, c, v[2], v[3])
          /\ score' = IF open THEN ScoreFlipped(c, v[3]) ELSE score
          /\ earlier' = IF open /\ v[3] = "accepted" /\ ~ Known(c) THEN earlier + 1 ELSE earlier
          /\ UNCHANGED <<open, betrayed>>
    BY DEF ScoreFlip
  <1> DEFINE to == v[3]
             x == Id(c)
  <1>2. <<v[2], to>> \in Moves /\ c.status = v[2]
    BY <1>1 DEF Verbs, Moves, Transition
  <1>3. LInv /\ c \in Copies(a) /\ UNCHANGED idCounter
    BY <1>1 DEF SInv, Named, Copies, Transition
  <1>4. ASSUME NEW b \in Parties, NEW e \in Copies(b)'
        PROVE  \E d \in Copies(b) :
                 /\ Id(e) = Id(d) /\ e.target = d.target
                 /\ Id(d) = x => e.status = to
                 /\ Id(d) # x => e.status = d.status
    <2>1. PICK d \in Copies(b) : e = As(d, c, to)
      BY <1>1, <1>2, <1>3, TransitionFlips
    <2>2. /\ (d.proposer = c.proposer /\ d.n = c.n) <=> d.deal = c.deal
          /\ e.n = d.n /\ e.proposer = d.proposer /\ e.target = d.target
          /\ e.status = IF d.deal = c.deal THEN to ELSE d.status
      BY <1>1, <1>2, <1>3, <2>1, TransitionFlips
    <2>3. Id(e) = Id(d) /\ (Id(d) = x <=> d.deal = c.deal)
      BY <2>2 DEF Id
    <2> QED BY <2>2, <2>3
  <1>5. CASE ~ open
    <2>1. score' = score /\ earlier' = earlier /\ DOMAIN score.contracts = {}
      BY <1>1, <1>5 DEF SInv, ScoredIds, NoScore
    <2>2. ScoredIds'
      BY <1>1, <1>3, <2>1 DEF SInv, ScoredIds, NoScore
    <2>3. ScoreOfCopies'
      BY <2>1 DEF ScoreOfCopies, Known
    <2> QED BY <1>1, <2>1, <2>2, <2>3 DEF SInv, ScoreIsRecord, ScorersAgree, ContractsAccepted
  <1>6. CASE open
    <2>0. ScoreIsRecord /\ score' = ScoreFlipped(c, to)
      BY <1>1, <1>6 DEF SInv
    <2>1. /\ score.partners \subseteq score'.partners /\ score'.attacks = score.attacks
          /\ score'.accepted = IF to = "accepted" THEN score.accepted + 1 ELSE score.accepted
          /\ DOMAIN score'.contracts = DOMAIN score.contracts
          /\ Known(c) => score'.contracts[x] = [score.contracts[x] EXCEPT !.status = to]
          /\ \A i \in DOMAIN score.contracts \ {x} : score'.contracts[i] = score.contracts[i]
      BY <2>0, ScoreFlippedIs
    <2>2. ScoreIsRecord'
      <3>1. score' = Scored(score'.contracts, score'.partners, score'.attacks, score'.accepted)
            /\ score'.contracts = [i \in DOMAIN score'.contracts |-> score'.contracts[i]]
        BY <2>0 DEF ScoreFlipped, ScoreIsRecord, Scored
      <3>2. ASSUME NEW i \in DOMAIN score'.contracts
            PROVE  score'.contracts[i] =
                     [status |-> score'.contracts[i].status, target |-> score'.contracts[i].target]
        <4>1. score.contracts[i] = [status |-> score.contracts[i].status, target |-> score.contracts[i].target]
          BY <2>0, <2>1 DEF ScoreIsRecord
        <4>2. CASE i # x
          BY <2>1, <4>1, <4>2
        <4>3. CASE i = x
          <5>1. score'.contracts[x] = [score.contracts[x] EXCEPT !.status = to]
            BY <2>1, <4>3 DEF Known
          <5> HIDE DEF x
          <5> QED BY <4>1, <4>3, <5>1
        <4> QED BY <4>2, <4>3
      <3> QED BY <3>1, <3>2 DEF ScoreIsRecord
    <2>3. Known(c) => score.contracts[x] = [status |-> v[2], target |-> c.target]
      BY <1>2, <1>3 DEF SInv, ScoreOfCopies
    <2>4. Known(c) => score'.contracts[x] = [status |-> to, target |-> c.target]
      BY <2>1, <2>3
    <2> HIDE DEF x, to
    <2>5. ScoredIds'
      BY <1>1, <1>3, <1>6, <2>1 DEF SInv, ScoredIds
    <2>6. ScoreOfCopies'
      <3> SUFFICES ASSUME NEW b \in Parties, NEW e \in Copies(b)', Id(e) \in DOMAIN score'.contracts
                   PROVE  score'.contracts[Id(e)] = [status |-> e.status, target |-> e.target]
        BY DEF ScoreOfCopies, Known, Id
      <3>1. PICK d \in Copies(b) : /\ Id(e) = Id(d) /\ e.target = d.target
                                   /\ Id(d) = x => e.status = to
                                   /\ Id(d) # x => e.status = d.status
        BY <1>4
      <3>2. score.contracts[Id(d)] = [status |-> d.status, target |-> d.target]
        BY <2>1, <3>1 DEF SInv, ScoreOfCopies, Known
      <3>3. CASE Id(d) = x
        <4>1. Known(c)
          BY <2>1, <3>1, <3>3 DEF Known, x
        <4>2. d.target = c.target
          BY <2>3, <3>2, <3>3, <4>1
        <4> QED BY <2>4, <3>1, <3>3, <4>1, <4>2
      <3>4. CASE Id(d) # x
        BY <2>1, <3>1, <3>2, <3>4
      <3> QED BY <3>3, <3>4
    <2>7. score'.accepted \in Nat /\ earlier' \in Nat /\ ScorersAgree'
      <3> DEFINE A == Counted(score.contracts)
                 B == Counted(score'.contracts)
      <3>0. /\ score.accepted \in Nat /\ earlier \in Nat /\ score.accepted = ContractsAccepted + earlier
            /\ IsFiniteSet(A) /\ ContractsAccepted = Cardinality(A) /\ Cardinality(A) \in Nat
        BY CountedIsFinite DEF SInv, ScorersAgree
      <3>1. ContractsAccepted' = Cardinality(B)
        BY DEF ContractsAccepted, Counted
      <3>2. CASE ~ Known(c)
        <4>1. B = A
          BY <2>1, <3>2 DEF Counted, Known, x
        <4> QED BY <1>1, <1>6, <2>1, <3>0, <3>1, <3>2, <4>1 DEF ScorersAgree, to
      <3>3. CASE Known(c) /\ to = "accepted"
        <4>1. v[2] = "proposed"
          BY <1>2, <3>3 DEF Moves, to
        <4>2. B = A \cup {x} /\ x \notin A
          BY <2>1, <2>3, <2>4, <3>3, <4>1 DEF Counted, Known, x
        <4>3. Cardinality(B) = Cardinality(A) + 1
          BY <3>0, <4>2, FS_AddElement
        <4>4. earlier' = earlier /\ score'.accepted = score.accepted + 1
          BY <1>1, <2>1, <3>3
        <4> QED BY <3>0, <3>1, <4>3, <4>4 DEF ScorersAgree
      <3>4. CASE Known(c) /\ to # "accepted"
        <4>1. \/ v[2] = "proposed" /\ to = "rejected"
              \/ v[2] = "accepted" /\ to = "completed"
          BY <1>2, <3>4 DEF Moves, to
        <4>2. B = A
          BY <2>1, <2>3, <2>4, <3>4, <4>1 DEF Counted, Known, x
        <4> QED BY <1>1, <2>1, <3>0, <3>1, <3>4, <4>2 DEF ScorersAgree, to
      <3> QED BY <3>2, <3>3, <3>4
    <2> QED BY <1>1, <2>1, <2>2, <2>5, <2>6, <2>7 DEF SInv
  <1> QED BY <1>5, <1>6

LEMMA AttacksKeep ==
  ASSUME SInv, LInv', NEW m, NEW v, Attacks(m, v)
  PROVE  SInv'
  <1>1. /\ score' = [score EXCEPT !.attacks = @ \cup {<<m, v>>}]
        /\ betrayed' = betrayed \cup ({<<m, v>>} \cap score.partners)
        /\ UNCHANGED <<led, idCounter, open, earlier>>
    BY DEF Attacks, ledgerVars
  <1>2. /\ score'.contracts = score.contracts /\ score'.partners = score.partners
        /\ score'.accepted = score.accepted /\ score'.attacks = score.attacks \cup {<<m, v>>}
        /\ ScoreIsRecord'
    BY <1>1 DEF SInv, ScoreIsRecord, Scored
  <1>3. ScoredIds' /\ ScoreOfCopies'
    BY <1>1, <1>2 DEF SInv, ScoredIds, ScoreOfCopies, Copies, Known, NoScore
  <1>4. ScorersAgree'
    BY <1>1, <1>2 DEF SInv, ScorersAgree, ContractsAccepted
  <1> QED BY <1>1, <1>2, <1>3, <1>4 DEF SInv

(* Nothing is in the score of a run that begins.                           *)
LEMMA NoScoreIs ==
  ASSUME LInv, score = NoScore, earlier = 0, betrayed = {}
  PROVE  SInv
  <1>1. ScoreIsRecord /\ DOMAIN score.contracts = {} /\ score.accepted = 0
    BY DEF NoScore, ScoreIsRecord, Scored
  <1>2. ScoredIds
    BY <1>1, FS_EmptySet DEF ScoredIds
  <1>3. ContractsAccepted = 0
    BY <1>1, FS_EmptySet DEF ContractsAccepted
  <1> QED BY <1>1, <1>2, <1>3 DEF SInv, ScoreOfCopies, Known, ScorersAgree

LEMMA SpawnOrRemoveKeeps ==
  ASSUME SInv, NEW a \in Parties, SpawnAgentEntity(a) \/ RemoveEntity(a), UNCHANGED scoreVars
  PROVE  SInv'
  <1>0. LInv /\ idCounter \in Nat
    BY DEF SInv, LInv, LedgerTypes
  <1>1. LInv'
    <2>1. StepKeeps
      <3>1. CASE SpawnAgentEntity(a)
        BY <1>0, <3>1, SpawnKeeps
      <3>2. CASE RemoveEntity(a)
        BY <1>0, <3>2, RemoveKeeps
      <3> QED BY <3>1, <3>2
    <2> QED BY <2>1 DEF StepKeeps
  <1>2. idCounter' = idCounter /\ \A b \in Parties : Copies(b)' \subseteq Copies(b)
    <2>1. CASE SpawnAgentEntity(a)
      BY <2>1 DEF SpawnAgentEntity, Copies
    <2>2. CASE RemoveEntity(a)
      BY <1>0, <2>2 DEF RemoveEntity, Copies, LInv, LedgerTypes
    <2> QED BY <2>1, <2>2
  <1>3. UNCHANGED <<score, open, earlier, betrayed>> /\ idCounter <= idCounter'
    BY <1>0, <1>2 DEF scoreVars
  <1> QED BY <1>1, <1>2, <1>3, ScoreStays

(* The steps that leave the ledgers' contracts alone.                      *)
LEMMA ScoreRests ==
  ASSUME SInv, LInv', UNCHANGED <<led, idCounter, score, open, earlier, betrayed>>
  PROVE  SInv'
  <1>1. \A a \in Parties : Copies(a)' \subseteq Copies(a)
    BY DEF Copies
  <1>2. idCounter <= idCounter'
    BY DEF SInv, LInv, LedgerTypes
  <1> QED BY <1>1, <1>2, ScoreStays

LEMMA StartWindowKeeps ==
  ASSUME SInv, LInv', StartWindow
  PROVE  SInv'
  <1>1. open' = TRUE /\ UNCHANGED <<led, idCounter, score, earlier, betrayed>>
    BY DEF StartWindow, ledgerVars
  <1>2. ScoredIds'
    BY <1>1 DEF SInv, ScoredIds
  <1>3. ScoreOfCopies' /\ ScorersAgree' /\ ScoreIsRecord'
    BY <1>1 DEF SInv, ScoreOfCopies, Copies, Known, ScorersAgree, ContractsAccepted, ScoreIsRecord
  <1> QED BY <1>1, <1>2, <1>3 DEF SInv

LEMMA NewRunKeeps ==
  ASSUME LInv', EngineRestarts
  PROVE  SInv'
  <1>0. score' = NoScore /\ earlier' = 0 /\ betrayed' = {} /\ open' = FALSE
    BY DEF EngineRestarts
  <1>1. ScoreIsRecord' /\ DOMAIN score'.contracts = {} /\ score'.accepted = 0
    BY <1>0 DEF NoScore, ScoreIsRecord, Scored
  <1>2. ScoredIds'
    BY <1>0, <1>1, FS_EmptySet DEF ScoredIds, NoScore
  <1>3. ContractsAccepted' = 0
    BY <1>1, FS_EmptySet DEF ContractsAccepted
  <1> QED BY <1>0, <1>1, <1>2, <1>3 DEF SInv, ScoreOfCopies, Known, ScorersAgree

LEMMA ScoreStep ==
  ASSUME SInv, [ScoreNext /\ (Restart => Loaded = {})]_<<ledgerVars, scoreVars>>
  PROVE  SInv'
  <1>0. LInv
    BY DEF SInv
  <1>1. ASSUME NEW a \in Parties, SpawnAgentEntity(a) \/ RemoveEntity(a), UNCHANGED scoreVars
        PROVE  SInv'
    BY <1>1, SpawnOrRemoveKeeps
  <1>2. ASSUME NEW a \in Parties, ScoreFlip(a) PROVE SInv'
    <2>1. PICK c \in Named(a), v \in Verbs : Transition(a, c, v[2], v[3])
      BY <1>2 DEF ScoreFlip
    <2>2. c \in Copies(a) /\ <<v[2], v[3]>> \in Moves
      BY DEF Named, Copies, Verbs, Moves
    <2>3. LInv'
      BY <1>0, <2>1, <2>2, TransitionKeeps DEF StepKeeps
    <2> QED BY <1>2, <2>3, ScoreFlipKeeps
  <1>3. ASSUME NEW a \in Parties, NEW t \in Parties, ScorePropose(a, t) PROVE SInv'
    <2>1. LInv'
      BY <1>0, <1>3, ProposeKeeps DEF ScorePropose, StepKeeps
    <2> QED BY <1>3, <2>1, ScoreProposeKeeps
  <1>4. ASSUME NEW m \in Parties, NEW t \in Parties, Attacks(m, t) PROVE SInv'
    <2>1. LInv'
      BY <1>0, <1>4, EveryStepKeeps DEF Attacks, StepKeeps
    <2> QED BY <1>4, <2>1, AttacksKeep
  <1>5. CASE Save /\ UNCHANGED scoreVars
    <2>1. LInv'
      BY <1>0, <1>5, SaveKeeps DEF StepKeeps
    <2> QED BY <1>5, <2>1, ScoreRests DEF Save, scoreVars
  <1>6. CASE StartWindow
    <2>1. LInv'
      BY <1>0, <1>6, EveryStepKeeps DEF StartWindow, StepKeeps
    <2> QED BY <1>6, <2>1, StartWindowKeeps
  <1>7. ASSUME EngineRestarts, Loaded = {} PROVE SInv'
    <2>1. LInv'
      BY <1>0, <1>7, RestartKeeps DEF EngineRestarts, StepKeeps
    <2> QED BY <1>7, <2>1, NewRunKeeps
  <1>8. CASE UNCHANGED <<ledgerVars, scoreVars>>
    <2>1. LInv'
      BY <1>0, <1>8, EveryStepKeeps DEF StepKeeps
    <2> QED BY <1>8, <2>1, ScoreRests DEF ledgerVars, scoreVars
  <1> QED BY <1>1, <1>2, <1>3, <1>4, <1>5, <1>6, <1>7, <1>8 DEF ScoreNext, EngineRestarts

LEMMA SInvIsTrue == SInv => ContractsScored
  BY DEF SInv, LInv, LedgerTypes, ScoreOfCopies, ContractsScored, ScoreAgreesWithLedgers, NoBetrayalMissed, Defections

LEMMA ScoreStarts == ScoreInit => SInv
  BY LedgersStart, NoScoreIs DEF ScoreInit

(* What the scorers make of the events of a window is what the ledgers say *)
(* of its contracts, the two count the same acceptances, and an attack on  *)
(* a partner is a defection whatever became of the contract (score_run.py: *)
(* score_events; run_demo.py: summarize_events).                           *)
THEOREM ScoresOfTheWindow ==
  ASSUME Loaded = {} PROVE ScoreSpec => []ContractsScored
  <1>1. SInv /\ [ScoreNext]_<<ledgerVars, scoreVars>> => SInv'
    BY ScoreStep
  <1> QED BY <1>1, ScoreStarts, SInvIsTrue, PTL DEF ScoreSpec

(* In one run of the engine that holds for any bodies of the map file      *)
(* (score_run.py).                                                         *)
THEOREM ScoresOfOneEngine ==
  ScoreInit /\ [][ScoreNext /\ ~ Restart]_<<ledgerVars, scoreVars>> => []ContractsScored
  <1>1. SInv /\ [ScoreNext /\ ~ Restart]_<<ledgerVars, scoreVars>> => SInv'
    BY ScoreStep
  <1> QED BY <1>1, ScoreStarts, SInvIsTrue, PTL

-----------------------------------------------------------------------------
(* Induction, over numbers and over finite sets, for a set of those that   *)
(* have the property.                                                      *)
LEMMA NatInduct ==
  ASSUME NEW Q, 0 \in Q, \A n \in Nat : n \in Q => n + 1 \in Q
  PROVE  \A n \in Nat : n \in Q
  <1> SUFFICES ASSUME Nat \ Q # {} PROVE FALSE
    OBVIOUS
  <1>1. PICK m \in Nat \ Q : \A k \in Nat \ Q : m <= k
    BY LeastOf
  <1>2. m # 0 /\ m - 1 \in Nat
    BY <1>1
  <1> QED BY <1>1, <1>2

LEMMA Removed ==
  ASSUME NEW S, IsFiniteSet(S), NEW x \in S
  PROVE  /\ IsFiniteSet(S \ {x}) /\ Cardinality(S) = Cardinality(S \ {x}) + 1
         /\ Cardinality(S \ {x}) \in Nat
  <1>1. IsFiniteSet(S \ {x}) /\ Cardinality(S \ {x}) \in Nat
    BY FS_Subset, FS_CardinalityType
  <1>2. Cardinality((S \ {x}) \cup {x}) = Cardinality(S \ {x}) + 1
    BY <1>1, FS_AddElement
  <1>3. (S \ {x}) \cup {x} = S
    OBVIOUS
  <1> QED BY <1>1, <1>2, <1>3

LEMMA SetInduct ==
  ASSUME NEW S, IsFiniteSet(S), NEW Q, {} \in Q,
         \A T \in SUBSET S : T \in Q => \A x \in S \ T : T \cup {x} \in Q
  PROVE  S \in Q
  <1> SUFFICES ASSUME S \notin Q PROVE FALSE
    OBVIOUS
  <1> DEFINE C == {Cardinality(T) : T \in (SUBSET S) \ Q}
  <1>0. \A T \in SUBSET S : IsFiniteSet(T) /\ Cardinality(T) \in Nat
    BY FS_Subset, FS_CardinalityType
  <1>1. C \in SUBSET Nat /\ C # {}
    BY <1>0
  <1>2. PICK m \in C : \A k \in C : m <= k
    <2> HIDE DEF C
    <2> QED BY <1>1, LeastOf
  <1>3. PICK T \in (SUBSET S) \ Q : Cardinality(T) = m
    BY <1>2
  <1>4. PICK x \in T : TRUE
    OBVIOUS
  <1>5. Cardinality(T) = Cardinality(T \ {x}) + 1 /\ Cardinality(T \ {x}) \in Nat
    BY <1>0, Removed
  <1>6. T \ {x} \in Q
    <2>1. T \ {x} \notin Q => Cardinality(T \ {x}) \in C
      OBVIOUS
    <2>2. Cardinality(T \ {x}) \in C => m <= Cardinality(T \ {x})
      BY <1>2
    <2> HIDE DEF C
    <2>3. ~ m <= Cardinality(T \ {x})
      BY <1>3, <1>5
    <2> QED BY <2>1, <2>2, <2>3
  <1>7. (T \ {x}) \cup {x} = T
    OBVIOUS
  <1> QED BY <1>6, <1>7

-----------------------------------------------------------------------------
(* The sum of a function over a finite set is folded in the order in which *)
(* CHOOSE takes the members; no order matters.                             *)
Taken(s) == CHOOSE x \in s : TRUE
SumsTo(f, S, g) ==
  g = [s \in SUBSET S |-> IF s = {} THEN 0 ELSE f[Taken(s)] + g[s \ {Taken(s)}]]

LEMMA SumIs ==
  ASSUME NEW f, NEW S
  PROVE  SumFunctionOnSet(f, S) = (CHOOSE g : SumsTo(f, S, g))[S]
  BY DEF SumFunctionOnSet, FoldFunctionOnSet, MapThenFoldSet, SumsTo, Taken

LEMMA SumsExist ==
  ASSUME NEW f, NEW S, IsFiniteSet(S)
  PROVE  \E g : SumsTo(f, S, g)
  <1> DEFINE L(n) == {s \in SUBSET S : Cardinality(s) <= n}
             G(n, g) == g = [s \in L(n) |-> IF s = {} THEN 0 ELSE f[Taken(s)] + g[s \ {Taken(s)}]]
             Q == {n \in Nat : \E g : G(n, g)}
  <1>0. \A T \in SUBSET S : IsFiniteSet(T) /\ Cardinality(T) \in Nat
    BY FS_Subset, FS_CardinalityType
  <1>1. \A s \in SUBSET S : s # {} => s \ {Taken(s)} \in SUBSET S /\ Cardinality(s) = Cardinality(s \ {Taken(s)}) + 1
    <2> SUFFICES ASSUME NEW s \in SUBSET S, s # {}
                 PROVE  Cardinality(s) = Cardinality(s \ {Taken(s)}) + 1
      OBVIOUS
    <2>1. Taken(s) \in s /\ IsFiniteSet(s)
      BY <1>0 DEF Taken
    <2> QED BY <2>1, Removed
  <1>2. 0 \in Q
    <2>1. ASSUME NEW s \in L(0) PROVE s = {}
      <3>1. s # {} => Cardinality(s) = Cardinality(s \ {Taken(s)}) + 1 /\ Cardinality(s \ {Taken(s)}) \in Nat
        BY <1>0, <1>1
      <3>2. Cardinality(s) <= 0
        OBVIOUS
      <3> QED BY <3>1, <3>2
    <2> DEFINE g == [s \in L(0) |-> 0]
    <2>2. G(0, g)
      BY <2>1
    <2> QED BY <2>2
  <1>3. ASSUME NEW n \in Nat, n \in Q PROVE n + 1 \in Q
    <2>1. PICK g : G(n, g)
      BY <1>3
    <2> DEFINE h == [s \in L(n + 1) |-> IF s = {} THEN 0 ELSE f[Taken(s)] + g[s \ {Taken(s)}]]
    <2>2. \A s \in L(n) : s \in L(n + 1) /\ h[s] = g[s]
      <3>1. \A s \in L(n) : s \in L(n + 1)
        BY <1>0
      <3>2. \A s \in L(n) : g[s] = IF s = {} THEN 0 ELSE f[Taken(s)] + g[s \ {Taken(s)}]
        BY <2>1
      <3>3. \A s \in L(n + 1) : h[s] = IF s = {} THEN 0 ELSE f[Taken(s)] + g[s \ {Taken(s)}]
        OBVIOUS
      <3> QED BY <3>1, <3>2, <3>3
    <2>3. \A s \in L(n + 1) : s # {} => s \ {Taken(s)} \in L(n)
      BY <1>0, <1>1
    <2>4. G(n + 1, h)
      BY <2>2, <2>3
    <2> HIDE DEF G
    <2> QED BY <2>4
  <1>4. Cardinality(S) \in Q
    <2> HIDE DEF Q
    <2> QED BY <1>0, <1>2, <1>3, NatInduct
  <1>5. L(Cardinality(S)) = SUBSET S
    BY FS_Subset
  <1> QED BY <1>4, <1>5 DEF SumsTo

LEMMA SumsAgree ==
  ASSUME NEW f, NEW S, NEW T \in SUBSET S, IsFiniteSet(S), NEW g, NEW h, SumsTo(f, S, g), SumsTo(f, T, h)
  PROVE  g[T] = h[T]
  <1> DEFINE Q == {n \in Nat : \A u \in SUBSET T : Cardinality(u) = n => g[u] = h[u]}
  <1>0. \A u \in SUBSET T : u \in SUBSET S /\ IsFiniteSet(u) /\ Cardinality(u) \in Nat
    BY FS_Subset, FS_CardinalityType
  <1>1. \A s \in SUBSET T : s # {} => s \ {Taken(s)} \in SUBSET T /\ Cardinality(s) = Cardinality(s \ {Taken(s)}) + 1
    BY <1>0, Removed DEF Taken
  <1>2. /\ \A u \in SUBSET S : g[u] = IF u = {} THEN 0 ELSE f[Taken(u)] + g[u \ {Taken(u)}]
        /\ \A u \in SUBSET T : h[u] = IF u = {} THEN 0 ELSE f[Taken(u)] + h[u \ {Taken(u)}]
    BY DEF SumsTo
  <1>3. 0 \in Q
    <2> SUFFICES ASSUME NEW u \in SUBSET T, Cardinality(u) = 0 PROVE g[u] = h[u]
      OBVIOUS
    <2>1. u = {}
      BY <1>0, FS_EmptySet
    <2> QED BY <1>0, <1>2, <2>1
  <1>4. ASSUME NEW n \in Nat, n \in Q PROVE n + 1 \in Q
    <2> SUFFICES ASSUME NEW u \in SUBSET T, Cardinality(u) = n + 1 PROVE g[u] = h[u]
      OBVIOUS
    <2>1. CASE u = {}
      BY <1>0, <1>2, <2>1
    <2>2. CASE u # {}
      <3>1. u \ {Taken(u)} \in SUBSET T /\ Cardinality(u \ {Taken(u)}) = n
        BY <1>0, <1>1, <2>2
      <3>2. g[u \ {Taken(u)}] = h[u \ {Taken(u)}]
        BY <1>4, <3>1
      <3> QED BY <1>0, <1>2, <2>2, <3>2
    <2> QED BY <2>1, <2>2
  <1>5. Cardinality(T) \in Q
    <2> HIDE DEF Q
    <2> QED BY <1>0, <1>3, <1>4, NatInduct
  <1> QED BY <1>5

LEMMA SumOfNone == ASSUME NEW f PROVE SumFunctionOnSet(f, {}) = 0
  <1> DEFINE g == CHOOSE g : SumsTo(f, {}, g)
  <1>1. SumsTo(f, {}, g)
    BY SumsExist, FS_EmptySet
  <1> HIDE DEF g
  <1>2. g[{}] = 0
    BY <1>1 DEF SumsTo
  <1> QED BY <1>2, SumIs DEF g

LEMMA SumStep ==
  ASSUME NEW f, NEW S, IsFiniteSet(S), S # {}
  PROVE  SumFunctionOnSet(f, S) = f[Taken(S)] + SumFunctionOnSet(f, S \ {Taken(S)})
  <1> DEFINE T == S \ {Taken(S)}
             g == CHOOSE g : SumsTo(f, S, g)
             h == CHOOSE h : SumsTo(f, T, h)
  <1>1. IsFiniteSet(T) /\ T \in SUBSET S
    BY FS_Subset
  <1>2. SumsTo(f, S, g) /\ SumsTo(f, T, h)
    BY <1>1, SumsExist
  <1>3. SumFunctionOnSet(f, S) = g[S] /\ SumFunctionOnSet(f, T) = h[T]
    BY SumIs
  <1> HIDE DEF g, h
  <1>4. g[S] = f[Taken(S)] + g[T]
    BY <1>2 DEF SumsTo
  <1>5. g[T] = h[T]
    BY <1>1, <1>2, SumsAgree
  <1> QED BY <1>3, <1>4, <1>5

LEMMA SumInt ==
  ASSUME NEW f, NEW S, IsFiniteSet(S), \A x \in S : f[x] \in Int
  PROVE  SumFunctionOnSet(f, S) \in Int
  <1> DEFINE Q == {n \in Nat : \A u \in SUBSET S : Cardinality(u) = n => SumFunctionOnSet(f, u) \in Int}
  <1>0. \A u \in SUBSET S : IsFiniteSet(u) /\ Cardinality(u) \in Nat
    BY FS_Subset, FS_CardinalityType
  <1>1. ASSUME NEW n \in Nat, NEW u \in SUBSET S, Cardinality(u) = n,
               \A v \in SUBSET S : Cardinality(v) + 1 = n => SumFunctionOnSet(f, v) \in Int
        PROVE  SumFunctionOnSet(f, u) \in Int
    <2>1. CASE u = {}
      BY <2>1, SumOfNone
    <2>2. CASE u # {}
      <3>1. Taken(u) \in u
        BY <2>2 DEF Taken
      <3>2. SumFunctionOnSet(f, u \ {Taken(u)}) \in Int
        BY <1>0, <1>1, <3>1, Removed
      <3>3. f[Taken(u)] \in Int
        BY <3>1
      <3>4. SumFunctionOnSet(f, u) = f[Taken(u)] + SumFunctionOnSet(f, u \ {Taken(u)})
        BY <1>0, <2>2, SumStep
      <3> QED BY <3>2, <3>3, <3>4
    <2> QED BY <2>1, <2>2
  <1>2. 0 \in Q
    BY <1>0, <1>1
  <1>3. ASSUME NEW n \in Nat, n \in Q PROVE n + 1 \in Q
    BY <1>0, <1>1, <1>3
  <1>4. Cardinality(S) \in Q
    <2> HIDE DEF Q
    <2> QED BY <1>0, <1>2, <1>3, NatInduct
  <1> QED BY <1>4

(* Any member may be taken first.                                          *)
LEMMA SumTake ==
  ASSUME NEW f, NEW S, IsFiniteSet(S), \A x \in S : f[x] \in Int
  PROVE  \A x \in S : SumFunctionOnSet(f, S) = f[x] + SumFunctionOnSet(f, S \ {x})
  <1> DEFINE Q == {n \in Nat : \A u \in SUBSET S : Cardinality(u) = n =>
                     \A x \in u : SumFunctionOnSet(f, u) = f[x] + SumFunctionOnSet(f, u \ {x})}
  <1>0. \A u \in SUBSET S : IsFiniteSet(u) /\ Cardinality(u) \in Nat
    BY FS_Subset, FS_CardinalityType
  <1>2. 0 \in Q
    <2>1. \A u \in SUBSET S : Cardinality(u) = 0 => u = {}
      BY <1>0, FS_EmptySet
    <2> QED BY <2>1
  <1>3. ASSUME NEW n \in Nat, n \in Q PROVE n + 1 \in Q
    <2> SUFFICES ASSUME NEW u \in SUBSET S, Cardinality(u) = n + 1, NEW x \in u
                 PROVE  SumFunctionOnSet(f, u) = f[x] + SumFunctionOnSet(f, u \ {x})
      OBVIOUS
    <2> DEFINE t == Taken(u)
    <2>1. t \in u
      BY DEF Taken
    <2>2. SumFunctionOnSet(f, u) = f[t] + SumFunctionOnSet(f, u \ {t})
      BY <1>0, SumStep
    <2> HIDE DEF t
    <2>3. CASE t = x
      BY <2>2, <2>3
    <2>4. CASE t # x
      <3>1. /\ u \ {t} \in SUBSET S /\ Cardinality(u \ {t}) = n
            /\ u \ {x} \in SUBSET S /\ Cardinality(u \ {x}) = n
        <4>1. IsFiniteSet(u) /\ Cardinality(u \ {t}) \in Nat /\ Cardinality(u \ {x}) \in Nat
          BY <1>0
        <4>2. Cardinality(u) = Cardinality(u \ {t}) + 1 /\ Cardinality(u) = Cardinality(u \ {x}) + 1
          BY <2>1, <4>1, Removed
        <4> QED BY <4>1, <4>2
      <3>2. /\ SumFunctionOnSet(f, u \ {t}) = f[x] + SumFunctionOnSet(f, (u \ {t}) \ {x})
            /\ SumFunctionOnSet(f, u \ {x}) = f[t] + SumFunctionOnSet(f, (u \ {x}) \ {t})
        BY <1>3, <2>1, <2>4, <3>1
      <3>3. (u \ {t}) \ {x} = (u \ {x}) \ {t} /\ (u \ {t}) \ {x} \in SUBSET S
        OBVIOUS
      <3>4. SumFunctionOnSet(f, (u \ {t}) \ {x}) \in Int
        BY <1>0, <3>3, SumInt
      <3>5. f[t] \in Int /\ f[x] \in Int
        BY <2>1
      <3> DEFINE w == SumFunctionOnSet(f, (u \ {t}) \ {x})
      <3>6. SumFunctionOnSet(f, u) = f[t] + (f[x] + w) /\ SumFunctionOnSet(f, u \ {x}) = f[t] + w
        BY <2>2, <3>2, <3>3
      <3> HIDE DEF w
      <3>7. f[t] + (f[x] + w) = f[x] + (f[t] + w)
        BY <3>4, <3>5 DEF w
      <3> QED BY <3>6, <3>7
    <2> QED BY <2>3, <2>4
  <1>4. Cardinality(S) \in Q
    <2> HIDE DEF Q
    <2> QED BY <1>0, <1>2, <1>3, NatInduct
  <1> QED BY <1>4
LEMMA SumAdd ==
  ASSUME NEW f, NEW S, IsFiniteSet(S), NEW x, x \notin S, \A y \in S \cup {x} : f[y] \in Int
  PROVE  SumFunctionOnSet(f, S \cup {x}) = SumFunctionOnSet(f, S) + f[x]
  <1>1. IsFiniteSet(S \cup {x})
    BY FS_AddElement
  <1>2. SumFunctionOnSet(f, S \cup {x}) = f[x] + SumFunctionOnSet(f, (S \cup {x}) \ {x})
    BY <1>1, SumTake
  <1>3. (S \cup {x}) \ {x} = S
    OBVIOUS
  <1>4. f[x] \in Int /\ SumFunctionOnSet(f, S) \in Int
    BY SumInt
  <1>5. SumFunctionOnSet(f, S \cup {x}) = f[x] + SumFunctionOnSet(f, S)
    BY <1>2, <1>3, Zenon
  <1>6. f[x] + SumFunctionOnSet(f, S) = SumFunctionOnSet(f, S) + f[x]
    BY <1>4
  <1> QED BY <1>5, <1>6

LEMMA SumSame ==
  ASSUME NEW f, NEW g, NEW S, IsFiniteSet(S), \A x \in S : f[x] \in Int /\ g[x] = f[x]
  PROVE  SumFunctionOnSet(f, S) = SumFunctionOnSet(g, S)
  <1> DEFINE Q == {T \in SUBSET S : SumFunctionOnSet(f, T) = SumFunctionOnSet(g, T)}
  <1>1. {} \in Q
    BY SumOfNone
  <1>2. ASSUME NEW T \in SUBSET S, T \in Q, NEW x \in S \ T PROVE T \cup {x} \in Q
    <2>1. IsFiniteSet(T)
      BY FS_Subset
    <2>2. /\ SumFunctionOnSet(f, T \cup {x}) = SumFunctionOnSet(f, T) + f[x]
          /\ SumFunctionOnSet(g, T \cup {x}) = SumFunctionOnSet(g, T) + g[x]
      BY <2>1, SumAdd
    <2> QED BY <1>2, <2>2
  <1>3. S \in Q
    <2> HIDE DEF Q
    <2> QED BY <1>1, <1>2, SetInduct
  <1> QED BY <1>3

LEMMA SumBounds ==
  ASSUME NEW f, NEW S, IsFiniteSet(S), \A x \in S : f[x] \in Nat
  PROVE  /\ SumFunctionOnSet(f, S) \in Nat
         /\ \A x \in S : f[x] <= SumFunctionOnSet(f, S)
  <1> DEFINE Q == {T \in SUBSET S : SumFunctionOnSet(f, T) \in Nat}
  <1>1. {} \in Q
    BY SumOfNone
  <1>2. ASSUME NEW T \in SUBSET S, T \in Q, NEW x \in S \ T PROVE T \cup {x} \in Q
    <2>1. IsFiniteSet(T) /\ \A y \in T \cup {x} : f[y] \in Int
      BY FS_Subset
    <2>2. SumFunctionOnSet(f, T \cup {x}) = SumFunctionOnSet(f, T) + f[x]
      BY <2>1, SumAdd
    <2>3. SumFunctionOnSet(f, T) \in Nat /\ f[x] \in Nat
      BY <1>2
    <2> QED BY <2>2, <2>3
  <1>3. \A T \in SUBSET S : SumFunctionOnSet(f, T) \in Nat
    <2> SUFFICES ASSUME NEW T \in SUBSET S PROVE T \in Q
      OBVIOUS
    <2>1. IsFiniteSet(T)
      BY FS_Subset
    <2>2. \A U \in SUBSET T : U \in Q => \A x \in T \ U : U \cup {x} \in Q
      BY <1>2
    <2> HIDE DEF Q
    <2> QED BY <1>1, <2>1, <2>2, SetInduct
  <1>4. ASSUME NEW x \in S PROVE f[x] <= SumFunctionOnSet(f, S)
    <2>1. SumFunctionOnSet(f, S) = f[x] + SumFunctionOnSet(f, S \ {x})
      BY SumTake
    <2>2. SumFunctionOnSet(f, S \ {x}) \in Nat /\ f[x] \in Nat
      BY <1>3
    <2> QED BY <2>1, <2>2
  <1> QED BY <1>3, <1>4

(* The numbers of a partition add up to the number of all.                 *)
Part(R, key, k) == {i \in R : key[i] = k}
LEMMA SumOfParts ==
  ASSUME NEW R, IsFiniteSet(R), NEW key, NEW K, IsFiniteSet(K), \A i \in R : key[i] \in K,
         NEW f, \A k \in K : f[k] = Cardinality(Part(R, key, k))
  PROVE  SumFunctionOnSet(f, K) = Cardinality(R)
  <1> DEFINE Q == {T \in SUBSET K : SumFunctionOnSet(f, T) = Cardinality({i \in R : key[i] \in T})}
  <1> USE DEF Part
  <1>0. \A U \in SUBSET R : IsFiniteSet(U) /\ Cardinality(U) \in Nat
    BY FS_Subset, FS_CardinalityType
  <1>1. {} \in Q
    <2>1. {i \in R : key[i] \in {}} = {}
      OBVIOUS
    <2> QED BY <2>1, SumOfNone, FS_EmptySet
  <1>2. ASSUME NEW T \in SUBSET K, T \in Q, NEW x \in K \ T PROVE T \cup {x} \in Q
    <2> DEFINE A == {i \in R : key[i] \in T}
               B == {i \in R : key[i] = x}
    <2>0. ASSUME NEW y \in K PROVE f[y] \in Int
      <3>1. {i \in R : key[i] = y} \in SUBSET R
        OBVIOUS
      <3>2. f[y] \in Nat
        BY <1>0, <3>1
      <3> QED BY <3>2
    <2>1. IsFiniteSet(T) /\ \A y \in K : f[y] \in Int
      BY <2>0, FS_Subset
    <2>2. SumFunctionOnSet(f, T \cup {x}) = SumFunctionOnSet(f, T) + f[x]
      BY <2>1, SumAdd
    <2>3. {i \in R : key[i] \in T \cup {x}} = A \cup B /\ A \cap B = {}
      OBVIOUS
    <2>4. IsFiniteSet(A) /\ IsFiniteSet(B) /\ Cardinality(A) \in Nat /\ Cardinality(B) \in Nat
      BY <1>0
    <2>5. Cardinality(A \cup B) = Cardinality(A) + Cardinality(B)
      <3> HIDE DEF A, B
      <3>1. Cardinality(A \cup B) = Cardinality(A) + Cardinality(B) - Cardinality(A \cap B)
        BY <2>4, FS_Union
      <3> QED BY <2>3, <2>4, <3>1, FS_EmptySet
    <2> QED BY <1>2, <2>2, <2>3, <2>5
  <1>3. K \in Q
    <2> HIDE DEF Q
    <2> QED BY <1>1, <1>2, SetInduct
  <1>4. {i \in R : key[i] \in K} = R
    OBVIOUS
  <1> QED BY <1>3, <1>4

-----------------------------------------------------------------------------
(* How many of the events are in a set.                                    *)
Tally(evs, E) == Cardinality({i \in DOMAIN evs : evs[i] \in E})

LEMMA TallyIs ==
  ASSUME NEW evs, NEW S, evs \in Seq(S), NEW E
  PROVE  IsFiniteSet({i \in DOMAIN evs : evs[i] \in E}) /\ Tally(evs, E) \in Nat /\ IsFiniteSet(DOMAIN evs)
  <1>1. IsFiniteSet(DOMAIN evs)
    <2>1. DOMAIN evs = 1..Len(evs) /\ Len(evs) \in Nat
      OBVIOUS
    <2> QED BY <2>1, FS_Interval
  <1>2. {i \in DOMAIN evs : evs[i] \in E} \in SUBSET DOMAIN evs
    OBVIOUS
  <1> QED BY <1>1, <1>2, FS_Subset, FS_CardinalityType DEF Tally

One(e, E) == IF e \in E THEN 1 ELSE 0

LEMMA TallyAppend ==
  ASSUME NEW S, NEW evs \in Seq(S), NEW e \in S, NEW E
  PROVE  Tally(Append(evs, e), E) = Tally(evs, E) + One(e, E)
  <1> DEFINE A == {i \in DOMAIN evs : evs[i] \in E}
             B == {i \in DOMAIN Append(evs, e) : Append(evs, e)[i] \in E}
             n == Len(evs) + 1
  <1>1. /\ DOMAIN evs = 1..Len(evs) /\ DOMAIN Append(evs, e) = 1..n /\ Append(evs, e)[n] = e
        /\ \A i \in 1..Len(evs) : Append(evs, e)[i] = evs[i]
        /\ n \notin A /\ Len(evs) \in Nat
    OBVIOUS
  <1>2. IsFiniteSet(A) /\ Cardinality(A) \in Nat
    BY TallyIs DEF Tally
  <1>3. CASE e \in E
    <2>1. B = A \cup {n}
      BY <1>1, <1>3
    <2> HIDE DEF A, B, n
    <2>2. Cardinality(B) = Cardinality(A) + 1
      BY <1>1, <1>2, <2>1, FS_AddElement
    <2> QED BY <1>3, <2>2 DEF Tally, One, A, B
  <1>4. CASE e \notin E
    <2>1. B = A
      BY <1>1, <1>4
    <2> HIDE DEF A, B
    <2>2. Cardinality(B) = Cardinality(A) + 0
      BY <1>2, <2>1
    <2> QED BY <1>4, <2>2 DEF Tally, One, A, B
  <1> QED BY <1>3, <1>4

LEMMA TallyOfNone == ASSUME NEW E PROVE Tally(<<>>, E) = 0
  <1>1. {i \in DOMAIN <<>> : <<>>[i] \in E} = {}
    OBVIOUS
  <1> QED BY <1>1, FS_EmptySet DEF Tally

LEMMA TallyTail ==
  ASSUME NEW S, NEW evs \in Seq(S), evs # <<>>, NEW E
  PROVE  Tally(evs, E) = One(evs[1], E) + Tally(Tail(evs), E)
  <1> DEFINE n == Len(evs)
             A == {i \in DOMAIN evs : evs[i] \in E}
             C == {i \in DOMAIN Tail(evs) : Tail(evs)[i] \in E}
             D == A \ {1}
             f == [i \in C |-> i + 1]
  <1>1. /\ n \in Nat \ {0} /\ DOMAIN evs = 1..n /\ Len(Tail(evs)) = n - 1 /\ DOMAIN Tail(evs) = 1..(n - 1)
        /\ \A i \in 1..(n - 1) : Tail(evs)[i] = evs[i + 1]
        /\ Tail(evs) \in Seq(S)
    OBVIOUS
  <1>2. IsFiniteSet(A) /\ IsFiniteSet(C) /\ Cardinality(A) \in Nat /\ Cardinality(C) \in Nat
    BY <1>1, TallyIs DEF Tally
  <1>3. f \in Bijection(C, D)
    <2>1. \A i \in C : i \in Nat /\ i + 1 \in D
      BY <1>1
    <2>2. \A j \in D : j - 1 \in C /\ (j - 1) + 1 = j
      <3> SUFFICES ASSUME NEW j \in D PROVE j - 1 \in C /\ (j - 1) + 1 = j
        OBVIOUS
      <3>1. j \in 1..n /\ j # 1 /\ evs[j] \in E
        BY <1>1
      <3>2. j - 1 \in 1..(n - 1) /\ (j - 1) + 1 = j
        BY <1>1, <3>1
      <3> QED BY <1>1, <3>1, <3>2
    <2>3. f \in [C -> D]
      BY <2>1
    <2> HIDE DEF C, D
    <2>4. IsInjective(f)
      BY <2>1 DEF IsInjective
    <2>5. \A j \in D : \E i \in C : f[i] = j
      BY <2>2
    <2> QED BY <2>3, <2>4, <2>5 DEF Bijection, Injection, Surjection
  <1>4. Cardinality(D) = Cardinality(C)
    <2> HIDE DEF C, D, f
    <2> QED BY <1>2, <1>3, FS_Bijection DEF ExistsBijection
  <1>5. Cardinality(A) = One(evs[1], E) + Cardinality(D)
    <2>1. 1 \in A <=> evs[1] \in E
      BY <1>1
    <2>2. IsFiniteSet(D) /\ Cardinality(D) = IF 1 \in A THEN Cardinality(A) - 1 ELSE Cardinality(A)
      <3> HIDE DEF A
      <3> QED BY <1>2, FS_RemoveElement
    <2> HIDE DEF A, D
    <2> QED BY <1>2, <2>1, <2>2 DEF One
  <1> QED BY <1>4, <1>5 DEF Tally

-----------------------------------------------------------------------------
(* The events of the engine.                                               *)
Words == {None, "speak", "shout", "whisper", "pay", "trade", "give", "attack", "starvation"}
Mental == {"MentalNote", "ReasoningTrace"}
Said ==
  {e \in [kind : {"ActionAccepted", "Speech", "Whisper", "GoldTransferred", "ItemTransferred",
                  "DamageDealt", "EntityDied"} \cup Mental,
          who : Actors \cup {None}, whom : Actors \cup {None}, word : Words, amount : Nat] :
     /\ e.kind = "Speech" => e.who \in Actors /\ e.word \in {"speak", "shout"}
     /\ e.kind \in Mental => e.who \in Actors}

LEMMA TallyOfFew ==
  ASSUME NEW E, NEW x \in Said, NEW y \in Said, NEW z \in Said
  PROVE  /\ Tally(<<x>>, E) = One(x, E)
         /\ Tally(<<x, y>>, E) = One(x, E) + One(y, E)
         /\ Tally(<<x, y, z>>, E) = One(x, E) + One(y, E) + One(z, E)
  <1>1. <<>> \in Seq(Said) /\ <<x>> \in Seq(Said) /\ <<x, y>> \in Seq(Said)
    BY EmptySeq
  <1>2. <<x>> = Append(<<>>, x) /\ <<x, y>> = Append(<<x>>, y) /\ <<x, y, z>> = Append(<<x, y>>, z)
    OBVIOUS
  <1>3. Tally(<<x>>, E) = Tally(<<>>, E) + One(x, E)
    <2>1. Tally(Append(<<>>, x), E) = Tally(<<>>, E) + One(x, E)
      BY <1>1, TallyAppend
    <2> QED BY <1>2, <2>1, Zenon
  <1>4. Tally(<<x, y>>, E) = Tally(<<x>>, E) + One(y, E)
    <2>1. Tally(Append(<<x>>, y), E) = Tally(<<x>>, E) + One(y, E)
      BY <1>1, TallyAppend
    <2> QED BY <1>2, <2>1, Zenon
  <1>5. Tally(<<x, y, z>>, E) = Tally(<<x, y>>, E) + One(z, E)
    <2>1. Tally(Append(<<x, y>>, z), E) = Tally(<<x, y>>, E) + One(z, E)
      BY <1>1, TallyAppend
    <2> QED BY <1>2, <2>1, Zenon
  <1>6. Tally(<<>>, E) = 0 /\ One(x, E) \in Nat
    BY TallyOfNone DEF One
  <1> HIDE DEF Tally
  <1>7. Tally(<<x>>, E) = One(x, E)
    BY <1>3, <1>6
  <1> QED BY <1>4, <1>5, <1>7

LEMMA Joined ==
  ASSUME NEW x \in Said, NEW y \in Said, NEW z \in Said
  PROVE  <<x>> \o <<y>> = <<x, y>> /\ <<x>> \o <<y, z>> = <<x, y, z>> /\ <<x, y>> \o <<z>> = <<x, y, z>>
  <1>1. <<x>> \in Seq(Said) /\ <<y>> \in Seq(Said) /\ <<z>> \in Seq(Said) /\ <<x, y>> \in Seq(Said)
    OBVIOUS
  <1>2. <<x, y>> = Append(<<x>>, y) /\ <<y, z>> = Append(<<y>>, z) /\ <<x, y, z>> = Append(<<x, y>>, z)
    <2>1. <<x, y>> = Append(<<x>>, y)
      OBVIOUS
    <2>2. <<y, z>> = Append(<<y>>, z)
      OBVIOUS
    <2>3. <<x, y, z>> = Append(<<x, y>>, z)
      OBVIOUS
    <2> QED BY <2>1, <2>2, <2>3
  <1>4. /\ Append(<<x>>, y) = <<x>> \o <<y>>
        /\ Append(<<y>>, z) = <<y>> \o <<z>>
        /\ Append(<<x, y>>, z) = <<x, y>> \o <<z>>
    BY <1>1, AppendIsConcat
  <1>5. (<<x>> \o <<y>>) \o <<z>> = <<x>> \o (<<y>> \o <<z>>)
    BY <1>1, ConcatAssociative
  <1> QED BY <1>2, <1>4, <1>5, Zenon

(* What is counted, and of which deeds it is the number.                   *)
Tallies == {"kills", "deaths", "hurts", "payers", "items", "golds", "paid", "spoken", "shouted",
            "whispered", "notes", "traces"}
Of(k) == {e \in Said :
  \/ k = "kills" /\ e.kind = "EntityDied" /\ e.who # None
  \/ k = "deaths" /\ e.kind = "EntityDied"
  \/ k = "hurts" /\ e.kind = "DamageDealt"
  \/ k = "payers" /\ e.kind = "ActionAccepted" /\ e.word = "pay"
  \/ k = "items" /\ e.kind = "ItemTransferred"
  \/ k = "golds" /\ e.kind = "GoldTransferred"
  \/ k = "paid" /\ e.kind = "GoldTransferred" /\ e.word = "pay"
  \/ k = "spoken" /\ e.kind = "Speech" /\ e.word # "shout"
  \/ k = "shouted" /\ e.kind = "Speech" /\ e.word = "shout"
  \/ k = "whispered" /\ e.kind = "Whisper"
  \/ k = "notes" /\ e.kind = "MentalNote"
  \/ k = "traces" /\ e.kind \in Mental}
Due(k) ==
  CASE k = "kills" -> did["murder"]
    [] k = "deaths" -> did["murder"] + did["starve"]
    [] k = "hurts" -> did["attack"] + did["starve"]
    [] k \in {"payers", "paid"} -> did["pay"]
    [] k = "items" -> did["give"] + did["trade"]
    [] k = "golds" -> did["pay"] + did["trade"]
    [] k = "spoken" -> did["speak"]
    [] k = "shouted" -> did["shout"]
    [] k = "whispered" -> did["whisper"]
    [] k = "notes" -> did["note"]
    [] k = "traces" -> did["note"] + did["reason"]

(* The payments and the kills of a bus that is drained: a payment is queued*)
(* right before its verb, and a kill after its damage.                     *)
BusInOrder ==
  /\ \A j \in DOMAIN bus : bus[j] \in Of("payers") => j = Len(bus)
  /\ \A j \in DOMAIN bus : bus[j] \in Of("paid") => j = 1 /\ Len(bus) = 2 /\ bus[2] \in Of("payers")
  /\ \A j \in DOMAIN bus : bus[j] \in Of("kills") =>
       \/ <<bus[j].who, bus[j].whom>> \in AttackPairs(file)
       \/ j = 2 /\ bus[1].kind = "DamageDealt" /\ bus[1].who = bus[2].who /\ bus[1].whom = bus[2].whom

CountsTypes ==
  /\ file \in Seq(Said) /\ bus \in Seq(Said)
  /\ purse \in [Actors -> Nat] /\ hp \in [Actors -> 0..Health] /\ did \in [Deeds -> 0..MaxDeeds]

Tallied == \A k \in Tallies : Tally(file, Of(k)) + Tally(bus, Of(k)) = Due(k)

KillsHurt == \A i \in KillPairs(file) : <<file[i].who, file[i].whom>> \in AttackPairs(file)

CInv == CountsTypes /\ Tallied /\ BusInOrder /\ KillsHurt

LEMMA DeedsAreFinite == IsFiniteSet(Deeds)
  <1> DEFINE A == {"speak", "shout", "whisper", "pay"}
             B == {"trade", "give", "attack", "murder"}
             C == {"starve", "hush", "note", "reason"}
  <1>1. ASSUME NEW a, NEW b, NEW c, NEW d PROVE IsFiniteSet({a, b, c, d})
    <2>1. IsFiniteSet({a}) /\ IsFiniteSet({b}) /\ IsFiniteSet({c}) /\ IsFiniteSet({d})
      BY FS_Singleton
    <2>2. IsFiniteSet({a} \cup {b}) /\ IsFiniteSet({c} \cup {d})
      BY <2>1, FS_Union
    <2>3. IsFiniteSet(({a} \cup {b}) \cup ({c} \cup {d}))
      BY <2>2, FS_Union
    <2>4. ({a} \cup {b}) \cup ({c} \cup {d}) = {a, b, c, d}
      OBVIOUS
    <2> QED BY <2>3, <2>4
  <1>2. IsFiniteSet(A) /\ IsFiniteSet(B) /\ IsFiniteSet(C)
    BY <1>1
  <1> HIDE DEF A, B, C
  <1>3. IsFiniteSet((A \cup B) \cup C)
    BY <1>2, FS_Union
  <1> QED BY <1>3 DEF A, B, C, Deeds

(* A deed is done if there is room for it.                                 *)
LEMMA DidFew ==
  ASSUME CountsTypes, Done < MaxDeeds, NEW deeds \in SUBSET Deeds
  PROVE  [d \in Deeds |-> IF d \in deeds THEN did[d] + 1 ELSE did[d]] \in [Deeds -> 0..MaxDeeds]
  <1>1. MaxDeeds \in Nat /\ \A d \in Deeds : did[d] \in Nat
    BY CountsConstants DEF CountsTypes, CountsConstants
  <1>2. Done \in Nat /\ \A d \in Deeds : did[d] <= Done
    BY <1>1, DeedsAreFinite, SumBounds DEF Done
  <1>3. \A d \in Deeds : did[d] \in 0..MaxDeeds /\ did[d] + 1 \in 0..MaxDeeds
    BY <1>1, <1>2
  <1> QED BY <1>3

LEMMA DrainKeeps ==
  ASSUME CInv, Drain
  PROVE  CInv'
  <1>0. /\ bus # <<>> /\ file' = Append(file, bus[1]) /\ bus' = Tail(bus) /\ UNCHANGED <<purse, hp, did>>
        /\ file \in Seq(Said) /\ bus \in Seq(Said)
    BY DEF Drain, CInv, CountsTypes
  <1>1. /\ bus[1] \in Said /\ Len(bus) \in Nat \ {0} /\ Len(bus') = Len(bus) - 1
        /\ DOMAIN bus = 1..Len(bus) /\ DOMAIN bus' = 1..(Len(bus) - 1)
        /\ \A j \in DOMAIN bus' : bus'[j] = bus[j + 1] /\ j + 1 \in DOMAIN bus
    BY <1>0
  <1>2. /\ DOMAIN file = 1..Len(file) /\ DOMAIN file' = 1..(Len(file) + 1) /\ Len(file) \in Nat
        /\ file'[Len(file) + 1] = bus[1] /\ \A i \in DOMAIN file : file'[i] = file[i]
    BY <1>0, <1>1
  <1>3. CountsTypes'
    BY <1>0, <1>1 DEF CInv, CountsTypes
  <1>4. Tallied'
    <2> SUFFICES ASSUME NEW k \in Tallies
                 PROVE  Tally(file', Of(k)) + Tally(bus', Of(k)) = Due(k)'
      BY DEF Tallied, Of
    <2>1. Due(k)' = Due(k)
      BY <1>0 DEF Due
    <2>2. Tally(file', Of(k)) = Tally(file, Of(k)) + One(bus[1], Of(k))
      BY <1>0, <1>1, TallyAppend
    <2>3. Tally(bus, Of(k)) = One(bus[1], Of(k)) + Tally(bus', Of(k))
      BY <1>0, TallyTail
    <2>4. Tally(file, Of(k)) \in Nat /\ Tally(bus', Of(k)) \in Nat /\ One(bus[1], Of(k)) \in Nat
      BY <1>0, <1>3, TallyIs DEF CountsTypes, One
    <2>5. Tally(file, Of(k)) + Tally(bus, Of(k)) = Due(k)
      BY DEF CInv, Tallied
    <2> QED BY <2>1, <2>2, <2>3, <2>4, <2>5
  <1>5. AttackPairs(file) \subseteq AttackPairs(file')
    BY <1>2 DEF AttackPairs, Rows
  <1>6. bus[1].kind = "DamageDealt" /\ bus[1].who # None => <<bus[1].who, bus[1].whom>> \in AttackPairs(file')
    BY <1>2 DEF AttackPairs, Rows
  <1>7. BusInOrder'
    <2>1. \A j \in DOMAIN bus' : bus'[j] \in Of("payers") => j = Len(bus')
      BY <1>1 DEF CInv, BusInOrder
    <2>2. \A j \in DOMAIN bus' : bus'[j] \notin Of("paid")
      BY <1>1 DEF CInv, BusInOrder
    <2>3. \A j \in DOMAIN bus' : bus'[j] \in Of("kills") => <<bus'[j].who, bus'[j].whom>> \in AttackPairs(file')
      BY <1>1, <1>5, <1>6 DEF CInv, BusInOrder, Of
    <2> QED BY <2>1, <2>2, <2>3 DEF BusInOrder, Of
  <1>8. KillsHurt'
    <2> SUFFICES ASSUME NEW i \in KillPairs(file') PROVE <<file'[i].who, file'[i].whom>> \in AttackPairs(file')
      BY DEF KillsHurt
    <2>1. CASE i \in DOMAIN file
      BY <1>2, <1>5, <2>1 DEF CInv, KillsHurt, KillPairs, Rows
    <2>2. CASE i \notin DOMAIN file
      <3>1. file'[i] = bus[1] /\ bus[1] \in Of("kills")
        BY <1>1, <1>2, <2>2 DEF KillPairs, Rows, Of
      <3>2. <<bus[1].who, bus[1].whom>> \in AttackPairs(file)
        BY <1>1, <3>1 DEF CInv, BusInOrder
      <3> QED BY <1>5, <3>1, <3>2
    <2> QED BY <2>1, <2>2
  <1> QED BY <1>3, <1>4, <1>7, <1>8 DEF CInv

(* What a deed adds, count by count.                                       *)
Added(k, deeds) ==
  CASE k = "kills" -> IF "murder" \in deeds THEN 1 ELSE 0
    [] k = "deaths" -> IF deeds \cap {"murder", "starve"} # {} THEN 1 ELSE 0
    [] k = "hurts" -> IF deeds \cap {"attack", "starve"} # {} THEN 1 ELSE 0
    [] k \in {"payers", "paid"} -> IF "pay" \in deeds THEN 1 ELSE 0
    [] k = "items" -> IF deeds \cap {"give", "trade"} # {} THEN 1 ELSE 0
    [] k = "golds" -> IF deeds \cap {"pay", "trade"} # {} THEN 1 ELSE 0
    [] k = "spoken" -> IF "speak" \in deeds THEN 1 ELSE 0
    [] k = "shouted" -> IF "shout" \in deeds THEN 1 ELSE 0
    [] k = "whispered" -> IF "whisper" \in deeds THEN 1 ELSE 0
    [] k = "notes" -> IF "note" \in deeds THEN 1 ELSE 0
    [] k = "traces" -> IF deeds \cap {"note", "reason"} # {} THEN 1 ELSE 0

LEMMA DueGrows ==
  ASSUME CountsTypes, NEW deeds \in {{d} : d \in Deeds} \cup {{"attack", "murder"}}, NEW k \in Tallies,
         did' = [d \in Deeds |-> IF d \in deeds THEN did[d] + 1 ELSE did[d]]
  PROVE  Due(k)' = Due(k) + Added(k, deeds)
  <1>1. \A d \in Deeds : did[d] \in Nat /\ did'[d] = IF d \in deeds THEN did[d] + 1 ELSE did[d]
    BY CountsConstants DEF CountsTypes, CountsConstants
  <1>2. {"speak", "shout", "whisper", "pay", "trade", "give", "attack", "murder", "starve",
         "note", "reason"} \subseteq Deeds
    BY DEF Deeds
  <1>3. ~ {"murder", "starve"} \subseteq deeds /\ ~ {"attack", "starve"} \subseteq deeds
        /\ ~ {"give", "trade"} \subseteq deeds /\ ~ {"pay", "trade"} \subseteq deeds
        /\ ~ {"note", "reason"} \subseteq deeds
    OBVIOUS
  <1> QED BY <1>1, <1>2, <1>3 DEF Tallies, Due, Added

(* What a verb queues is what it adds to the counts.                       *)
LEMMA DoesKeeps ==
  ASSUME CInv, NEW deeds \in {{d} : d \in Deeds} \cup {{"attack", "murder"}},
         NEW events \in Seq(Said), Does(deeds, events),
         purse' \in [Actors -> Nat], hp' \in [Actors -> 0..Health], BusInOrder',
         \A k \in Tallies : Tally(events, Of(k)) = Added(k, deeds)
  PROVE  CInv'
  <1>1. /\ bus = <<>> /\ bus' = events /\ file' = file /\ Done < MaxDeeds
        /\ did' = [d \in Deeds |-> IF d \in deeds THEN did[d] + 1 ELSE did[d]]
    BY DEF Does
  <1>2. CountsTypes'
    <2>1. deeds \in SUBSET Deeds
      BY DEF Deeds
    <2>2. did' \in [Deeds -> 0..MaxDeeds]
      BY <1>1, <2>1, DidFew DEF CInv
    <2> QED BY <1>1, <2>2 DEF CInv, CountsTypes
  <1>3. Tallied'
    <2> SUFFICES ASSUME NEW k \in Tallies
                 PROVE  Tally(file', Of(k)) + Tally(bus', Of(k)) = Due(k)'
      BY DEF Tallied, Of
    <2>1. Tally(file, Of(k)) + Tally(bus, Of(k)) = Due(k) /\ Tally(bus, Of(k)) = 0
      BY <1>1, TallyOfNone DEF CInv, Tallied
    <2>2. Tally(file, Of(k)) \in Nat /\ Tally(events, Of(k)) \in Nat
      BY TallyIs DEF CInv, CountsTypes
    <2>3. Due(k)' = Due(k) + Tally(events, Of(k))
      BY <1>1, DueGrows DEF CInv
    <2> QED BY <1>1, <2>1, <2>2, <2>3
  <1>4. KillsHurt'
    BY <1>1 DEF CInv, KillsHurt, KillPairs, AttackPairs, Rows
  <1> QED BY <1>2, <1>3, <1>4 DEF CInv

LEMMA OneQueued ==
  ASSUME CInv, NEW deeds \in {{d} : d \in Deeds}, NEW x \in Said, Does(deeds, <<x>>),
         UNCHANGED <<purse, hp>>, x \notin Of("paid"), x \notin Of("kills"),
         \A k \in Tallies : One(x, Of(k)) = Added(k, deeds)
  PROVE  CInv'
  <1>1. \A k \in Tallies : Tally(<<x>>, Of(k)) = Added(k, deeds)
    BY TallyOfFew
  <1>2. BusInOrder'
    BY DEF BusInOrder, Of, Does
  <1>3. <<x>> \in Seq(Said) /\ purse' \in [Actors -> Nat] /\ hp' \in [Actors -> 0..Health]
    BY DEF CInv, CountsTypes
  <1> QED BY <1>1, <1>2, <1>3, DoesKeeps

LEMMA TwoQueued ==
  ASSUME CInv, NEW deeds \in {{d} : d \in Deeds}, NEW x \in Said, NEW y \in Said, Does(deeds, <<x, y>>),
         purse' \in [Actors -> Nat], hp' \in [Actors -> 0..Health],
         x \notin Of("payers") /\ (x \in Of("paid") => y \in Of("payers")) /\ y \notin Of("paid"),
         x \notin Of("kills") /\ y \notin Of("kills"),
         \A k \in Tallies : One(x, Of(k)) + One(y, Of(k)) = Added(k, deeds)
  PROVE  CInv'
  <1>1. ASSUME NEW k \in Tallies PROVE Tally(<<x, y>>, Of(k)) = Added(k, deeds)
    <2>1. Tally(<<x, y>>, Of(k)) = One(x, Of(k)) + One(y, Of(k))
      BY TallyOfFew
    <2> QED BY <2>1
  <1>2. BusInOrder'
    BY DEF BusInOrder, Of, Does
  <1>3. <<x, y>> \in Seq(Said)
    OBVIOUS
  <1> QED BY <1>1, <1>2, <1>3, DoesKeeps

LEMMA TalksKeeps ==
  ASSUME CInv, NEW a \in Actors, NEW b \in Actors, Talks(a, b)
  PROVE  CInv'
  <1>0. UNCHANGED <<purse, hp>> /\ purse' \in [Actors -> Nat] /\ hp' \in [Actors -> 0..Health]
    BY DEF Talks, CInv, CountsTypes
  <1>1. ASSUME NEW mode \in {"speak", "shout"},
               Does({mode}, <<Accepted(a, mode), Event("Speech", a, None, mode, 0)>>)
        PROVE  CInv'
    <2> DEFINE x == Accepted(a, mode)
               y == Event("Speech", a, None, mode, 0)
    <2>1. x \in Said /\ y \in Said /\ {mode} \in {{d} : d \in Deeds}
      BY DEF Said, Words, Mental, Accepted, Event, Deeds
    <2>2. \A k \in Tallies : One(x, Of(k)) + One(y, Of(k)) = Added(k, {mode})
      BY <2>1 DEF Tallies, Of, Added, One, Accepted, Event, Mental
    <2>3. \A k \in {"paid", "kills", "payers"} : x \notin Of(k) /\ y \notin Of(k)
      BY DEF Of, Accepted, Event
    <2>4. Does({mode}, <<x, y>>)
      BY <1>1
    <2> HIDE DEF x, y
    <2> QED BY <1>0, <2>1, <2>2, <2>3, <2>4, TwoQueued
  <1>2. ASSUME Does({"whisper"}, <<Accepted(a, "whisper"), Event("Whisper", a, b, None, 0)>>)
        PROVE  CInv'
    <2> DEFINE x == Accepted(a, "whisper")
               y == Event("Whisper", a, b, None, 0)
    <2>1. x \in Said /\ y \in Said /\ {"whisper"} \in {{d} : d \in Deeds}
      BY DEF Said, Words, Mental, Accepted, Event, Deeds
    <2>2. \A k \in Tallies : One(x, Of(k)) + One(y, Of(k)) = Added(k, {"whisper"})
      BY <2>1 DEF Tallies, Of, Added, One, Accepted, Event, Mental
    <2>3. \A k \in {"paid", "kills", "payers"} : x \notin Of(k) /\ y \notin Of(k)
      BY DEF Of, Accepted, Event
    <2>4. Does({"whisper"}, <<x, y>>)
      BY <1>2
    <2> HIDE DEF x, y
    <2> QED BY <1>0, <2>1, <2>2, <2>3, <2>4, TwoQueued
  <1>3. ASSUME Does({"hush"}, <<Accepted(a, "speak")>>)
        PROVE  CInv'
    <2> DEFINE x == Accepted(a, "speak")
    <2>1. x \in Said /\ {"hush"} \in {{d} : d \in Deeds}
      BY DEF Said, Words, Mental, Accepted, Event, Deeds
    <2>2. \A k \in Tallies : One(x, Of(k)) = Added(k, {"hush"})
      BY <2>1 DEF Tallies, Of, Added, One, Accepted, Event, Mental
    <2>3. x \notin Of("paid") /\ x \notin Of("kills")
      BY DEF Of, Accepted, Event
    <2>4. Does({"hush"}, <<x>>)
      BY <1>3
    <2> HIDE DEF x
    <2> QED BY <1>0, <2>1, <2>2, <2>3, <2>4, OneQueued
  <1> QED BY <1>1, <1>2, <1>3 DEF Talks

LEMMA Paid ==
  ASSUME NEW a \in Actors, NEW b \in Actors, purse \in [Actors -> Nat], purse[a] > 0, a # b,
         purse' = [purse EXCEPT ![a] = @ - 1, ![b] = @ + 1]
  PROVE  purse' \in [Actors -> Nat]
  <1>1. purse[a] - 1 \in Nat /\ purse[b] + 1 \in Nat
    OBVIOUS
  <1> QED BY <1>1

LEMMA PaysKeep ==
  ASSUME CInv, NEW a \in Actors, NEW b \in Actors, a # b, Pay(a, b) \/ Trade(a, b)
  PROVE  CInv'
  <1>0. hp \in [Actors -> 0..Health] /\ purse \in [Actors -> Nat]
    BY DEF CInv, CountsTypes
  <1>1. CASE Pay(a, b)
    <2> DEFINE x == Event("GoldTransferred", a, b, "pay", 1)
               y == Accepted(a, "pay")
    <2>1. x \in Said /\ y \in Said /\ {"pay"} \in {{d} : d \in Deeds}
      BY DEF Said, Words, Mental, Accepted, Event, Deeds
    <2>2. \A k \in Tallies : One(x, Of(k)) + One(y, Of(k)) = Added(k, {"pay"})
      BY <2>1 DEF Tallies, Of, Added, One, Accepted, Event, Mental
    <2>3. /\ x \notin Of("payers") /\ y \in Of("payers") /\ y \notin Of("paid")
          /\ x \notin Of("kills") /\ y \notin Of("kills")
      BY <2>1 DEF Of, Accepted, Event
    <2>4. Does({"pay"}, <<x, y>>)
      <3>1. Does({"pay"}, <<x>> \o <<y>>)
        BY <1>1 DEF Pay, Pays
      <3>2. <<x>> \o <<y>> = <<x, y>>
        BY <2>1, Joined
      <3> QED BY <3>1, <3>2
    <2>5. purse' \in [Actors -> Nat] /\ hp' \in [Actors -> 0..Health]
      BY <1>0, <1>1, Paid DEF Pay, Pays
    <2> HIDE DEF x, y
    <2> QED BY <2>1, <2>2, <2>3, <2>4, <2>5, TwoQueued
  <1>2. CASE Trade(a, b)
    <2> DEFINE x == Event("GoldTransferred", b, a, "trade", 1)
               y == Event("ItemTransferred", a, b, None, 0)
               z == Accepted(a, "trade")
    <2>1. x \in Said /\ y \in Said /\ z \in Said /\ {"trade"} \in {{d} : d \in Deeds}
      BY DEF Said, Words, Mental, Accepted, Event, Deeds
    <2>2. \A k \in Tallies : One(x, Of(k)) + One(y, Of(k)) + One(z, Of(k)) = Added(k, {"trade"})
      BY <2>1 DEF Tallies, Of, Added, One, Accepted, Event, Mental
    <2>3. \A k \in {"payers", "paid", "kills"} : x \notin Of(k) /\ y \notin Of(k) /\ z \notin Of(k)
      BY <2>1 DEF Of, Accepted, Event
    <2>4. Does({"trade"}, <<x, y, z>>)
      <3>1. Does({"trade"}, <<x>> \o <<y, z>>)
        BY <1>2 DEF Trade, Pays
      <3>2. <<x>> \o <<y, z>> = <<x, y, z>>
        BY <2>1, Joined
      <3> QED BY <3>1, <3>2
    <2>5. purse' \in [Actors -> Nat] /\ hp' \in [Actors -> 0..Health]
      BY <1>0, <1>2, Paid DEF Trade, Pays
    <2> HIDE DEF x, y, z
    <2>6. ASSUME NEW k \in Tallies PROVE Tally(<<x, y, z>>, Of(k)) = Added(k, {"trade"})
      <3>1. Tally(<<x, y, z>>, Of(k)) = One(x, Of(k)) + One(y, Of(k)) + One(z, Of(k))
        BY <2>1, TallyOfFew
      <3> QED BY <2>2, <3>1
    <2>7. BusInOrder'
      BY <2>3, <2>4 DEF BusInOrder, Of, Does
    <2>8. <<x, y, z>> \in Seq(Said)
      BY <2>1
    <2> QED BY <2>1, <2>4, <2>5, <2>6, <2>7, <2>8, DoesKeeps
  <1> QED BY <1>1, <1>2

LEMMA GiveItemKeeps ==
  ASSUME CInv, NEW a \in Actors, NEW b \in Actors, GiveItem(a, b)
  PROVE  CInv'
  <1> DEFINE x == Event("ItemTransferred", a, b, None, 0)
             y == Accepted(a, "give")
  <1>1. x \in Said /\ y \in Said /\ {"give"} \in {{d} : d \in Deeds}
    BY DEF Said, Words, Mental, Accepted, Event, Deeds
  <1>2. \A k \in Tallies : One(x, Of(k)) + One(y, Of(k)) = Added(k, {"give"})
    BY <1>1 DEF Tallies, Of, Added, One, Accepted, Event, Mental
  <1>3. \A k \in {"payers", "paid", "kills"} : x \notin Of(k) /\ y \notin Of(k)
    BY DEF Of, Accepted, Event
  <1>4. Does({"give"}, <<x, y>>) /\ purse' \in [Actors -> Nat] /\ hp' \in [Actors -> 0..Health]
    BY DEF GiveItem, CInv, CountsTypes
  <1> HIDE DEF x, y
  <1> QED BY <1>1, <1>2, <1>3, <1>4, TwoQueued

LEMMA HurtsAre ==
  ASSUME CountsTypes, NEW b \in Actors, NEW n \in 1..Health, hp[b] > 0, Injured(b, n)
  PROVE  purse' \in [Actors -> Nat] /\ hp' \in [Actors -> 0..Health]
  <1>1. purse \in [Actors -> Nat] /\ hp \in [Actors -> 0..Health] /\ Health \in Nat
    BY CountsConstants DEF CountsTypes, CountsConstants
  <1>2. (IF n < hp[b] THEN hp[b] - n ELSE 0) \in 0..Health
    BY <1>1
  <1>3. hp' = [hp EXCEPT ![b] = IF n < hp[b] THEN hp[b] - n ELSE 0]
    BY DEF Injured
  <1>4. hp' \in [Actors -> 0..Health]
    BY <1>1, <1>2, <1>3
  <1>5. purse' \in [Actors -> Nat]
    BY <1>1 DEF Injured
  <1> QED BY <1>4, <1>5

LEMMA AttackOnKeeps ==
  ASSUME CInv, NEW a \in Actors, NEW b \in Actors, hp[b] > 0, AttackOn(a, b)
  PROVE  CInv'
  <1>0. a # None /\ b # None
    BY CountsConstants DEF CountsConstants
  <1>1. PICK n \in 1..Health :
          /\ Injured(b, n)
          /\ Does({"attack"} \cup IF n < hp[b] THEN {} ELSE {"murder"},
                  Hurt(a, b, n, "attack") \o <<Accepted(a, "attack")>>)
    BY DEF AttackOn
  <1>2. purse' \in [Actors -> Nat] /\ hp' \in [Actors -> 0..Health] /\ n \in Nat
    BY <1>1, HurtsAre, CountsConstants DEF CInv, CountsConstants
  <1> DEFINE x == Event("DamageDealt", a, b, "attack", n)
             y == Event("EntityDied", a, b, "attack", 0)
             z == Accepted(a, "attack")
  <1>3. x \in Said /\ y \in Said /\ z \in Said
    BY <1>2 DEF Said, Words, Mental, Accepted, Event
  <1>4. CASE n < hp[b]
    <2>1. Does({"attack"}, <<x, z>>)
      <3>1. Does({"attack"} \cup {}, <<x>> \o <<z>>)
        BY <1>1, <1>4 DEF Hurt
      <3>2. <<x>> \o <<z>> = <<x, z>>
        BY <1>3, Joined
      <3>3. {"attack"} \cup {} = {"attack"}
        OBVIOUS
      <3> QED BY <3>1, <3>2, <3>3
    <2>2. \A k \in Tallies : One(x, Of(k)) + One(z, Of(k)) = Added(k, {"attack"})
      BY <1>3 DEF Tallies, Of, Added, One, Accepted, Event, Mental
    <2>3. \A k \in {"payers", "paid", "kills"} : x \notin Of(k) /\ z \notin Of(k)
      BY DEF Of, Accepted, Event
    <2>4. {"attack"} \in {{d} : d \in Deeds}
      BY DEF Deeds
    <2> HIDE DEF x, z
    <2> QED BY <1>2, <1>3, <2>1, <2>2, <2>3, <2>4, TwoQueued
  <1>5. CASE ~ n < hp[b]
    <2>1. Does({"attack", "murder"}, <<x, y, z>>)
      <3>1. Does({"attack"} \cup {"murder"}, <<x, y>> \o <<z>>)
        BY <1>1, <1>5 DEF Hurt
      <3>2. <<x, y>> \o <<z>> = <<x, y, z>>
        BY <1>3, Joined
      <3>3. {"attack"} \cup {"murder"} = {"attack", "murder"}
        OBVIOUS
      <3> QED BY <3>1, <3>2, <3>3
    <2>2. \A k \in Tallies : One(x, Of(k)) + One(y, Of(k)) + One(z, Of(k)) = Added(k, {"attack", "murder"})
      BY <1>0, <1>3 DEF Tallies, Of, Added, One, Accepted, Event, Mental
    <2>3. /\ \A k \in {"payers", "paid"} : x \notin Of(k) /\ y \notin Of(k) /\ z \notin Of(k)
          /\ x \notin Of("kills") /\ z \notin Of("kills")
      BY DEF Of, Accepted, Event
    <2>4. x.kind = "DamageDealt" /\ x.who = y.who /\ x.whom = y.whom
      BY DEF Event
    <2> HIDE DEF x, y, z
    <2>5. ASSUME NEW k \in Tallies PROVE Tally(<<x, y, z>>, Of(k)) = Added(k, {"attack", "murder"})
      <3>1. Tally(<<x, y, z>>, Of(k)) = One(x, Of(k)) + One(y, Of(k)) + One(z, Of(k))
        BY <1>3, TallyOfFew
      <3> QED BY <2>2, <3>1
    <2>6. BusInOrder'
      BY <2>1, <2>3, <2>4 DEF BusInOrder, Of, Does
    <2>7. <<x, y, z>> \in Seq(Said)
      BY <1>3
    <2> QED BY <1>2, <2>1, <2>5, <2>6, <2>7, DoesKeeps
  <1> QED BY <1>4, <1>5

LEMMA StarveKeeps ==
  ASSUME CInv, NEW b \in Actors, hp[b] > 0, Starve(b)
  PROVE  CInv'
  <1>1. hp[b] \in 1..Health
    BY CountsConstants DEF CInv, CountsTypes, CountsConstants
  <1> DEFINE x == Event("DamageDealt", None, b, "starvation", hp[b])
             y == Event("EntityDied", None, b, "starvation", 0)
  <1>2. x \in Said /\ y \in Said
    BY <1>1, CountsConstants DEF Said, Words, Mental, Event, CountsConstants
  <1>3. Does({"starve"}, <<x, y>>) /\ {"starve"} \in {{d} : d \in Deeds}
    <2>1. ~ hp[b] < hp[b]
      BY <1>1
    <2> QED BY <2>1 DEF Starve, Hurt, Deeds
  <1>4. purse' \in [Actors -> Nat] /\ hp' \in [Actors -> 0..Health]
    BY <1>1, HurtsAre DEF CInv, Starve
  <1>5. \A k \in Tallies : One(x, Of(k)) + One(y, Of(k)) = Added(k, {"starve"})
    BY <1>2 DEF Tallies, Of, Added, One, Event, Mental
  <1>6. \A k \in {"payers", "paid", "kills"} : x \notin Of(k) /\ y \notin Of(k)
    BY DEF Of, Event
  <1> HIDE DEF x, y
  <1> QED BY <1>2, <1>3, <1>4, <1>5, <1>6, TwoQueued

(* A thought passes the bus by.                                            *)
LEMMA ThinksKeeps ==
  ASSUME CInv, NEW a \in Actors, Thinks(a)
  PROVE  CInv'
  <1>1. PICK d \in {"note", "reason"} :
          /\ Done < MaxDeeds /\ did' = [did EXCEPT ![d] = @ + 1]
          /\ file' = Append(file, Event(IF d = "note" THEN "MentalNote" ELSE "ReasoningTrace", a, None, None, 0))
          /\ UNCHANGED <<bus, purse, hp>>
    BY DEF Thinks
  <1> DEFINE x == Event(IF d = "note" THEN "MentalNote" ELSE "ReasoningTrace", a, None, None, 0)
  <1>2. x \in Said /\ {d} \in {{e} : e \in Deeds} /\ {d} \in SUBSET Deeds
    BY DEF Said, Words, Mental, Event, Deeds
  <1>3. \A k \in Tallies : One(x, Of(k)) = Added(k, {d})
    <2>1. CASE d = "note"
      <3>1. x.kind = "MentalNote"
        BY <2>1 DEF Event
      <3>2. \A k \in Tallies : x \in Of(k) <=> k \in {"notes", "traces"}
        BY <1>2, <3>1 DEF Tallies, Of, Mental
      <3>3. \A k \in Tallies : Added(k, {"note"}) = IF k \in {"notes", "traces"} THEN 1 ELSE 0
        BY DEF Tallies, Added
      <3> QED BY <2>1, <3>2, <3>3 DEF One
    <2>2. CASE d = "reason"
      <3>1. x.kind = "ReasoningTrace"
        BY <2>2 DEF Event
      <3>2. \A k \in Tallies : x \in Of(k) <=> k = "traces"
        BY <1>2, <3>1 DEF Tallies, Of, Mental
      <3>3. \A k \in Tallies : Added(k, {"reason"}) = IF k = "traces" THEN 1 ELSE 0
        BY DEF Tallies, Added
      <3> QED BY <2>2, <3>2, <3>3 DEF One
    <2> QED BY <2>1, <2>2
  <1>4. x.kind \in Mental /\ file' = Append(file, x)
    BY <1>1 DEF Event, Mental
  <1> HIDE DEF x
  <1>5. did' = [e \in Deeds |-> IF e \in {d} THEN did[e] + 1 ELSE did[e]]
    BY <1>1 DEF CInv, CountsTypes
  <1>6. file \in Seq(Said) /\ bus \in Seq(Said) /\ CountsTypes
    BY DEF CInv, CountsTypes
  <1>7. CountsTypes'
    <2>1. did' \in [Deeds -> 0..MaxDeeds]
      BY <1>1, <1>2, <1>5, <1>6, DidFew
    <2> QED BY <1>1, <1>2, <1>4, <1>6, <2>1 DEF CountsTypes
  <1>8. Tallied'
    <2> SUFFICES ASSUME NEW k \in Tallies
                 PROVE  Tally(file', Of(k)) + Tally(bus', Of(k)) = Due(k)'
      BY DEF Tallied, Of
    <2>1. Tally(file, Of(k)) + Tally(bus, Of(k)) = Due(k)
      BY DEF CInv, Tallied
    <2>2. Tally(file', Of(k)) = Tally(file, Of(k)) + One(x, Of(k))
      BY <1>2, <1>4, <1>6, TallyAppend
    <2>3. Due(k)' = Due(k) + Added(k, {d})
      BY <1>2, <1>5, <1>6, DueGrows
    <2>4. Tally(file, Of(k)) \in Nat /\ Tally(bus, Of(k)) \in Nat /\ One(x, Of(k)) \in Nat
      BY <1>6, TallyIs DEF One
    <2>5. bus' = bus /\ One(x, Of(k)) = Added(k, {d})
      BY <1>1, <1>3
    <2> QED BY <2>1, <2>2, <2>3, <2>4, <2>5
  <1>9. /\ DOMAIN file = 1..Len(file) /\ DOMAIN file' = 1..(Len(file) + 1) /\ Len(file) \in Nat
        /\ file'[Len(file) + 1] = x /\ \A i \in DOMAIN file : file'[i] = file[i]
    BY <1>2, <1>4, <1>6
  <1>10. AttackPairs(file) \subseteq AttackPairs(file')
    BY <1>9 DEF AttackPairs, Rows
  <1>11. BusInOrder'
    BY <1>1, <1>10 DEF CInv, BusInOrder, Of
  <1>12. KillsHurt'
    <2> SUFFICES ASSUME NEW i \in KillPairs(file') PROVE <<file'[i].who, file'[i].whom>> \in AttackPairs(file')
      BY DEF KillsHurt
    <2>1. i \in DOMAIN file
      BY <1>4, <1>9 DEF KillPairs, Rows, Mental
    <2> QED BY <1>9, <1>10, <2>1 DEF CInv, KillsHurt, KillPairs, Rows
  <1> QED BY <1>7, <1>8, <1>11, <1>12 DEF CInv

LEMMA CountsStep ==
  ASSUME CInv, [CountsNext]_countVars
  PROVE  CInv'
  <1>0. \A a \in Alive : a \in Actors /\ hp[a] > 0
    BY DEF Alive
  <1>1. CASE Drain
    BY <1>1, DrainKeeps
  <1>2. ASSUME NEW a \in Alive, Thinks(a) \/ Starve(a) PROVE CInv'
    BY <1>0, <1>2, ThinksKeeps, StarveKeeps
  <1>3. ASSUME NEW a \in Alive, NEW b \in Alive \ {a},
               Talks(a, b) \/ Pay(a, b) \/ Trade(a, b) \/ GiveItem(a, b) \/ AttackOn(a, b)
        PROVE  CInv'
    BY <1>0, <1>3, TalksKeeps, PaysKeep, GiveItemKeeps, AttackOnKeeps
  <1>4. CASE UNCHANGED countVars
    <2>1. UNCHANGED <<bus, file, purse, hp, did>>
      BY <1>4 DEF countVars
    <2>2. Tallied'
      <3>1. \A k \in Tallies : Due(k)' = Due(k)
        BY <2>1 DEF Due
      <3> QED BY <2>1, <3>1 DEF CInv, Tallied
    <2> QED BY <2>1, <2>2 DEF CInv, CountsTypes, BusInOrder, KillsHurt, KillPairs, AttackPairs, Rows, Of
  <1> QED BY <1>1, <1>2, <1>3, <1>4 DEF CountsNext

LEMMA CountsStart == CountsInit => CInv
  <1> SUFFICES ASSUME CountsInit PROVE CInv
    OBVIOUS
  <1>1. /\ bus = <<>> /\ file = <<>> /\ purse = Endowment
        /\ hp = [a \in Actors |-> Health] /\ did = [d \in Deeds |-> 0]
    BY DEF CountsInit
  <1>2. CountsTypes
    BY <1>1, CountsConstants, EmptySeq DEF CountsTypes, CountsConstants
  <1>3. Tallied
    <2>1. \A k \in Tallies : Due(k) = 0
      BY <1>1 DEF Tallies, Due, Deeds
    <2> QED BY <1>1, <2>1, TallyOfNone DEF Tallied
  <1>4. BusInOrder /\ KillsHurt
    BY <1>1 DEF BusInOrder, KillsHurt, KillPairs, Rows
  <1> QED BY <1>2, <1>3, <1>4 DEF CInv

-----------------------------------------------------------------------------
(* The counters count rows of the file.                                    *)
LEMMA RowsAre ==
  ASSUME file \in Seq(Said)
  PROVE  /\ Scalar(KillPairs(file)) = Tally(file, Of("kills"))
         /\ Scalar(Rows(file, "EntityDied")) = Tally(file, Of("deaths"))
         /\ Scalar(Rows(file, "DamageDealt")) = Tally(file, Of("hurts"))
         /\ Scalar(PayTransfers(file)) = Tally(file, Of("payers"))
         /\ Scalar(Rows(file, "ItemTransferred")) = Tally(file, Of("items"))
         /\ Scalar(Rows(file, "GoldTransferred")) = Tally(file, Of("golds"))
         /\ Scalar(Rows(file, "Whisper")) = Tally(file, Of("whispered"))
         /\ Scalar(Rows(file, "MentalNote")) = Tally(file, Of("notes"))
         /\ Scalar(Traces(file)) = Tally(file, Of("traces"))
         /\ Scalar(ShoutsByMode(file)) = Tally(file, Of("shouted"))
         /\ Scalar(Rows(file, "Speech") \ ShoutsByMode(file)) = Tally(file, Of("spoken"))
  <1>1. \A i \in DOMAIN file : file[i] \in Said
    OBVIOUS
  <1> USE <1>1 DEF Of, Rows
  <1>2. KillPairs(file) = {i \in DOMAIN file : file[i] \in Of("kills")}
    BY DEF KillPairs
  <1>3. Rows(file, "EntityDied") = {i \in DOMAIN file : file[i] \in Of("deaths")}
    OBVIOUS
  <1>4. Rows(file, "DamageDealt") = {i \in DOMAIN file : file[i] \in Of("hurts")}
    OBVIOUS
  <1>5. PayTransfers(file) = {i \in DOMAIN file : file[i] \in Of("payers")}
    BY DEF PayTransfers
  <1>6. Rows(file, "ItemTransferred") = {i \in DOMAIN file : file[i] \in Of("items")}
    OBVIOUS
  <1>7. Rows(file, "GoldTransferred") = {i \in DOMAIN file : file[i] \in Of("golds")}
    OBVIOUS
  <1>8. Rows(file, "Whisper") = {i \in DOMAIN file : file[i] \in Of("whispered")}
    OBVIOUS
  <1>9. Rows(file, "MentalNote") = {i \in DOMAIN file : file[i] \in Of("notes")}
    OBVIOUS
  <1>10. Traces(file) = {i \in DOMAIN file : file[i] \in Of("traces")}
    BY DEF Traces, Mental
  <1>11. ShoutsByMode(file) = {i \in DOMAIN file : file[i] \in Of("shouted")}
    BY DEF ShoutsByMode
  <1>12. Rows(file, "Speech") \ ShoutsByMode(file) = {i \in DOMAIN file : file[i] \in Of("spoken")}
    BY DEF ShoutsByMode
  <1> QED BY <1>2, <1>3, <1>4, <1>5, <1>6, <1>7, <1>8, <1>9, <1>10, <1>11, <1>12, Zenon DEF Scalar, Tally

(* The score's words of a Speech are those of the catalog.                 *)
LEMMA WordsAre ==
  ASSUME file \in Seq(Said)
  PROVE  /\ {i \in Rows(file, "Speech") : file[i].word \notin {"shout", "whisper"}}
              = Rows(file, "Speech") \ ShoutsByMode(file)
         /\ {i \in Rows(file, "Speech") : file[i].word = "shout"} = ShoutsByMode(file)
         /\ {i \in Rows(file, "Speech") : file[i].word = "whisper"} \cup Rows(file, "Whisper")
              = Rows(file, "Whisper")
  <1>1. \A i \in Rows(file, "Speech") : file[i].word \in {"speak", "shout"}
    <2>1. \A i \in DOMAIN file : file[i] \in Said
      OBVIOUS
    <2> QED BY <2>1 DEF Rows, Said
  <1> QED BY <1>1 DEF ShoutsByMode

LEMMA PaymentsAre ==
  ASSUME file \in Seq(Said)
  PROVE  Ask(PerCause(file), "pay") = Tally(file, Of("paid"))
  <1> DEFINE R == Rows(file, "GoldTransferred")
             key == [i \in R |-> file[i].word]
             P == {i \in R : key[i] = "pay"}
  <1>1. P = {i \in DOMAIN file : file[i] \in Of("paid")}
    <2>1. \A i \in DOMAIN file : file[i] \in Said
      OBVIOUS
    <2> QED BY <2>1 DEF Rows, Of
  <1>2. PerCause(file) = [k \in {key[i] : i \in R} |-> Cardinality({i \in R : key[i] = k})]
    BY DEF PerCause, Grouped, Scalar
  <1> HIDE DEF R, key
  <1>3. CASE P = {}
    <2>1. "pay" \notin DOMAIN PerCause(file)
      BY <1>2, <1>3
    <2>2. Cardinality(P) = 0
      BY <1>3, FS_EmptySet
    <2> HIDE DEF P
    <2> QED BY <1>1, <2>1, <2>2 DEF Ask, Tally
  <1>4. CASE P # {}
    <2>1. "pay" \in DOMAIN PerCause(file) /\ PerCause(file)["pay"] = Cardinality(P)
      BY <1>2, <1>4
    <2> HIDE DEF P
    <2> QED BY <1>1, <2>1 DEF Ask, Tally
  <1> QED BY <1>3, <1>4

LEMMA SpeakersAre ==
  ASSUME file \in Seq(Said)
  PROVE  SumFunction(Summary(file).speakers) = Tally(file, Of("spoken")) + Tally(file, Of("shouted"))
  <1> DEFINE R == Rows(file, "Speech")
             key == [i \in R |-> file[i].who]
             K == {key[i] : i \in R}
             f == [k \in K |-> Cardinality({i \in R : key[i] = k})]
  <1>1. Summary(file).speakers = f
    BY DEF Summary, Grouped, Scalar
  <1>2. K \in SUBSET Actors /\ IsFiniteSet(K)
    <2>1. \A i \in R : file[i].who \in Actors
      <3>1. \A i \in DOMAIN file : file[i] \in Said
        OBVIOUS
      <3> QED BY <3>1 DEF Rows, Said
    <2>2. K \in SUBSET Actors
      BY <2>1
    <2> HIDE DEF K
    <2> QED BY <2>2, FS_Subset, CountsConstants DEF CountsConstants
  <1>3. R \in SUBSET DOMAIN file /\ IsFiniteSet(R)
    BY TallyIs, FS_Subset DEF Rows
  <1>4. SumFunctionOnSet(f, K) = Cardinality(R)
    <2>1. (\A i \in R : key[i] \in K) /\ \A k \in K : f[k] = Cardinality(Part(R, key, k))
      BY DEF Part
    <2> HIDE DEF R, key, K, f
    <2> QED BY <1>2, <1>3, <2>1, SumOfParts
  <1>5. DOMAIN f = K
    OBVIOUS
  <1> DEFINE A == R \ ShoutsByMode(file)
             B == ShoutsByMode(file)
  <1>6. R = A \cup B /\ A \cap B = {}
    BY DEF ShoutsByMode
  <1>7. IsFiniteSet(A) /\ IsFiniteSet(B)
    BY <1>3, FS_Subset DEF ShoutsByMode
  <1>8. Cardinality(R) = Cardinality(A) + Cardinality(B)
    <2> HIDE DEF A, B, R
    <2>1. Cardinality(R) = Cardinality(A) + Cardinality(B) - Cardinality(A \cap B)
      BY <1>6, <1>7, FS_Union
    <2>2. Cardinality(A \cap B) = 0
      BY <1>6, FS_EmptySet
    <2>3. Cardinality(A) \in Nat /\ Cardinality(B) \in Nat
      BY <1>7, FS_CardinalityType
    <2> QED BY <2>1, <2>2, <2>3
  <1>9. Cardinality(A) = Tally(file, Of("spoken")) /\ Cardinality(B) = Tally(file, Of("shouted"))
    BY RowsAre DEF Scalar
  <1> HIDE DEF f, K, A, B, R
  <1> QED BY <1>1, <1>4, <1>5, <1>8, <1>9 DEF SumFunction

LEMMA CountersDoAgree ==
  ASSUME file \in Seq(Said)
  PROVE  CountersAgree
  <1> DEFINE s == RunScored(file)
             c == Catalog(file)
             d == Summary(file)
  <1>1. /\ s.damage_events = Scalar(Rows(file, "DamageDealt"))
        /\ c.damage_dealt_count = Scalar(Rows(file, "DamageDealt"))
        /\ s.item_transfers = d.item_transfers /\ s.mental_notes = d.mental_notes
        /\ d.kills = c.deaths
    BY DEF RunScored, Catalog, Summary
  <1>2. /\ s.speech_count = Tally(file, Of("spoken")) /\ c.speech_count = Tally(file, Of("spoken"))
        /\ s.shout_count = Tally(file, Of("shouted")) /\ c.shout_count = Tally(file, Of("shouted"))
        /\ s.whisper_count = c.whisper_count
    BY RowsAre, WordsAre DEF RunScored, Catalog
  <1>3. SumFunction(d.speakers) = s.speech_count + s.shout_count
    BY <1>2, SpeakersAre
  <1>4. s.kills <= d.kills
    <2>1. s.kills = Cardinality(KillPairs(file)) /\ d.kills = Cardinality(Rows(file, "EntityDied"))
      BY DEF RunScored, Summary, Scalar
    <2>2. KillPairs(file) \in SUBSET Rows(file, "EntityDied") /\ Rows(file, "EntityDied") \in SUBSET DOMAIN file
      BY DEF KillPairs, Rows
    <2>3. IsFiniteSet(Rows(file, "EntityDied"))
      BY <2>2, TallyIs, FS_Subset
    <2> QED BY <2>1, <2>2, <2>3, FS_Subset
  <1> HIDE DEF s, c, d
  <1> QED BY <1>1, <1>2, <1>3, <1>4 DEF CountersAgree, s, c, d

LEMMA CountsDoComplete ==
  ASSUME CInv
  PROVE  CountsAreComplete
  <1> SUFFICES ASSUME bus = <<>> PROVE CountsAreComplete
    BY DEF CountsAreComplete
  <1>0. file \in Seq(Said)
    BY DEF CInv, CountsTypes
  <1>1. ASSUME NEW k \in Tallies PROVE Tally(file, Of(k)) = Due(k)
    <2>1. Tally(file, Of(k)) + Tally(bus, Of(k)) = Due(k) /\ Tally(bus, Of(k)) = 0 /\ Tally(file, Of(k)) \in Nat
      BY <1>0, TallyOfNone, TallyIs DEF CInv, Tallied
    <2> QED BY <2>1
  <1>2. /\ Tally(file, Of("kills")) = did["murder"]
        /\ Tally(file, Of("deaths")) = did["murder"] + did["starve"]
        /\ Tally(file, Of("hurts")) = did["attack"] + did["starve"]
        /\ Tally(file, Of("payers")) = did["pay"]
        /\ Tally(file, Of("paid")) = did["pay"]
        /\ Tally(file, Of("items")) = did["give"] + did["trade"]
        /\ Tally(file, Of("golds")) = did["pay"] + did["trade"]
        /\ Tally(file, Of("spoken")) = did["speak"]
        /\ Tally(file, Of("shouted")) = did["shout"]
        /\ Tally(file, Of("whispered")) = did["whisper"]
        /\ Tally(file, Of("notes")) = did["note"]
        /\ Tally(file, Of("traces")) = did["note"] + did["reason"]
    BY <1>1 DEF Tallies, Due
  <1> DEFINE s == RunScored(file)
             c == Catalog(file)
  <1>3. /\ s.kills = Tally(file, Of("kills")) /\ c.deaths = Tally(file, Of("deaths"))
        /\ s.damage_events = Tally(file, Of("hurts"))
        /\ s.pay_transfers = Tally(file, Of("payers")) /\ s.item_transfers = Tally(file, Of("items"))
        /\ c.transactions = Tally(file, Of("golds"))
        /\ s.mental_notes = Tally(file, Of("notes")) /\ c.reasoning_traces = Tally(file, Of("traces"))
    BY <1>0, RowsAre DEF RunScored, Catalog
  <1>4. /\ s.speech_count = Tally(file, Of("spoken")) /\ s.shout_count = Tally(file, Of("shouted"))
        /\ s.whisper_count = Tally(file, Of("whispered"))
    BY <1>0, RowsAre, WordsAre DEF RunScored
  <1>5. Ask(PerCause(file), "pay") = Tally(file, Of("paid"))
    BY <1>0, PaymentsAre
  <1> HIDE DEF s, c
  <1> QED BY <1>2, <1>3, <1>4, <1>5 DEF CountsAreComplete, s, c

LEMMA NoVerbIsHalf ==
  ASSUME CInv
  PROVE  NoHalfVerb
  <1>0. file \in Seq(Said) /\ bus \in Seq(Said)
    BY DEF CInv, CountsTypes
  <1>1. /\ Tally(file, Of("paid")) + Tally(bus, Of("paid")) = did["pay"]
        /\ Tally(file, Of("payers")) + Tally(bus, Of("payers")) = did["pay"]
    BY DEF CInv, Tallied, Tallies, Due
  <1>2. /\ Tally(file, Of("paid")) \in Nat /\ Tally(bus, Of("paid")) \in Nat
        /\ Tally(file, Of("payers")) \in Nat /\ Tally(bus, Of("payers")) \in Nat
    BY <1>0, TallyIs
  <1> DEFINE G == {i \in DOMAIN bus : bus[i] \in Of("paid")}
             V == {i \in DOMAIN bus : bus[i] \in Of("payers")}
  <1>3. Tally(bus, Of("payers")) - Tally(bus, Of("paid")) \in {0, 1}
    <2>0. DOMAIN bus = 1..Len(bus) /\ Len(bus) \in Nat
      BY <1>0
    <2>1. V = {} \/ V = {Len(bus)}
      BY DEF CInv, BusInOrder
    <2>2. G = {} \/ (G = {1} /\ V = {2})
      <3>1. G # {} => 1 \in G /\ Len(bus) = 2 /\ bus[2] \in Of("payers") /\ G = {1}
        BY DEF CInv, BusInOrder
      <3> QED BY <2>0, <2>1, <3>1
    <2>3. Cardinality({}) = 0 /\ \A x : Cardinality({x}) = 1
      BY FS_EmptySet, FS_Singleton
    <2> HIDE DEF G, V
    <2>4. CASE G = {}
      <3>1. Cardinality(G) = 0 /\ Cardinality(V) \in {0, 1}
        BY <2>1, <2>3, <2>4
      <3> QED BY <3>1 DEF Tally, G, V
    <2>5. CASE G = {1} /\ V = {2}
      <3>1. Cardinality(G) = 1 /\ Cardinality(V) = 1
        BY <2>3, <2>5
      <3> QED BY <3>1 DEF Tally, G, V
    <2> QED BY <2>2, <2>4, <2>5
  <1>4. Ask(PerCause(file), "pay") = Tally(file, Of("paid"))
    BY <1>0, PaymentsAre
  <1>5. RunScored(file).pay_transfers = Tally(file, Of("payers"))
    BY <1>0, RowsAre DEF RunScored
  <1>6. Tally(file, Of("paid")) - Tally(file, Of("payers")) \in {0, 1}
    BY <1>1, <1>2, <1>3
  <1> QED BY <1>4, <1>5, <1>6 DEF CInv, KillsHurt, NoHalfVerb

LEMMA CountsTyped ==
  ASSUME CInv
  PROVE  CountsTypeOK
  <1>0. file \in Seq(Said) /\ \A i \in DOMAIN file : file[i] \in Said
    BY DEF CInv, CountsTypes
  <1>1. ASSUME NEW kind PROVE IsFiniteSet(Rows(file, kind)) /\ Scalar(Rows(file, kind)) \in Nat
    <2>1. Rows(file, kind) \in SUBSET DOMAIN file
      BY DEF Rows
    <2> QED BY <1>0, <2>1, TallyIs, FS_Subset, FS_CardinalityType DEF Scalar
  <1>2. ASSUME NEW kind PROVE Amounts(file, Rows(file, kind)) \in Nat
    <2> DEFINE R == Rows(file, kind)
               f == [i \in R |-> file[i].amount]
    <2>1. \A i \in R : f[i] \in Nat
      BY <1>0 DEF Rows, Said
    <2> HIDE DEF f, R
    <2>2. SumFunctionOnSet(f, R) \in Nat
      BY <1>1, <2>1, SumBounds DEF R
    <2> QED BY <2>2 DEF Amounts, f, R
  <1>3. \A k \in Tallies : Tally(file, Of(k)) \in Nat
    BY <1>0, TallyIs
  <1>4. /\ Scalar(Rows(file, "Speech") \ ShoutsByMode(file)) \in Nat
        /\ Scalar(ShoutsByMode(file)) \in Nat /\ Scalar(Traces(file)) \in Nat
    BY <1>0, <1>3, RowsAre DEF Tallies
  <1>5. Cardinality({file[i].who : i \in Traces(file)}) \in 0..Cardinality(Actors)
    <2>1. {file[i].who : i \in Traces(file)} \in SUBSET Actors
      BY <1>0 DEF Traces, Rows, Said, Mental
    <2> QED BY <2>1, FS_Subset, FS_CardinalityType, CountsConstants DEF CountsConstants
  <1>6. Catalog(file) \in Metrics
    <2>1. Len(file) \in Nat
      BY <1>0
    <2> QED BY <1>1, <1>2, <1>4, <1>5, <2>1 DEF Catalog, Metrics
  <1>7. \A i \in DOMAIN file : file[i].who \in Actors \cup {None}
    BY <1>0 DEF Said
  <1> QED BY <1>6, <1>7 DEF CInv, CountsTypes, CountsTypeOK

-----------------------------------------------------------------------------
Ascending(s, n, x) == \A i, j \in 1..n : i < j => s[i] # s[j] /\ x[s[i]] <= x[s[j]]

Apart(ap, x, S) ==
  \A y, u \in S : ap[<<y, u>>] = IF x[y] < x[u] THEN x[u] - x[y] ELSE x[y] - x[u]

LEMMA MostOf ==
  ASSUME NEW x, NEW S, IsFiniteSet(S), S # {}, \A y \in S : x[y] \in Nat
  PROVE  \E z \in S : \A y \in S : x[y] <= x[z]
  <1> DEFINE Q == {T \in SUBSET S : T # {} => \E z \in T : \A y \in T : x[y] <= x[z]}
  <1>1. {} \in Q
    OBVIOUS
  <1>2. ASSUME NEW T \in SUBSET S, T \in Q, NEW u \in S \ T PROVE T \cup {u} \in Q
    <2>1. CASE T = {}
      <3>1. \A y \in T \cup {u} : x[y] <= x[u]
        BY <2>1
      <3> QED BY <3>1
    <2>2. CASE T # {}
      <3>1. PICK z \in T : \A y \in T : x[y] <= x[z]
        BY <1>2, <2>2
      <3>2. CASE x[u] <= x[z]
        BY <3>1, <3>2
      <3>3. CASE ~ x[u] <= x[z]
        <4>1. \A y \in T \cup {u} : x[y] <= x[u]
          BY <3>1, <3>3
        <4> QED BY <4>1
      <3> QED BY <3>2, <3>3
    <2> QED BY <2>1, <2>2
  <1>3. S \in Q
    <2> HIDE DEF Q
    <2> QED BY <1>1, <1>2, SetInduct
  <1> QED BY <1>3

(* The values can be brought in ascending order.                           *)
LEMMA OrderExists ==
  ASSUME NEW x, NEW S, IsFiniteSet(S), \A y \in S : x[y] \in Nat
  PROVE  \E s \in [1..Cardinality(S) -> S] : Ascending(s, Cardinality(S), x)
  <1> DEFINE Q == {m \in Nat : \A U \in SUBSET S : Cardinality(U) = m =>
                     \E s \in [1..m -> U] : Ascending(s, m, x)}
  <1>0. \A U \in SUBSET S : IsFiniteSet(U) /\ Cardinality(U) \in Nat
    BY FS_Subset, FS_CardinalityType
  <1>1. 0 \in Q
    <2> SUFFICES ASSUME NEW U \in SUBSET S PROVE \E s \in [1..0 -> U] : Ascending(s, 0, x)
      OBVIOUS
    <2> DEFINE s == [i \in 1..0 |-> i]
    <2>1. s \in [1..0 -> U] /\ Ascending(s, 0, x)
      BY DEF Ascending
    <2> QED BY <2>1
  <1>2. ASSUME NEW m \in Nat, m \in Q PROVE m + 1 \in Q
    <2> SUFFICES ASSUME NEW U \in SUBSET S, Cardinality(U) = m + 1
                 PROVE  \E s \in [1..(m + 1) -> U] : Ascending(s, m + 1, x)
      OBVIOUS
    <2>1. U # {} /\ IsFiniteSet(U)
      BY <1>0, FS_EmptySet
    <2>2. PICK z \in U : \A y \in U : x[y] <= x[z]
      BY <2>1, MostOf
    <2>3. Cardinality(U \ {z}) = m
      BY <2>1, Removed
    <2>4. PICK s \in [1..m -> U \ {z}] : Ascending(s, m, x)
      BY <1>2, <2>3
    <2> DEFINE t == [i \in 1..(m + 1) |-> IF i = m + 1 THEN z ELSE s[i]]
    <2>5. \A i \in 1..(m + 1) : i = m + 1 \/ (i \in 1..m /\ i # m + 1)
      OBVIOUS
    <2>6. /\ t[m + 1] = z /\ \A i \in 1..m : t[i] = s[i] /\ s[i] \in U \ {z}
          /\ t \in [1..(m + 1) -> U]
      BY <2>5
    <2> HIDE DEF t
    <2>7. Ascending(t, m + 1, x)
      <3> SUFFICES ASSUME NEW i \in 1..(m + 1), NEW j \in 1..(m + 1), i < j
                   PROVE  t[i] # t[j] /\ x[t[i]] <= x[t[j]]
        BY DEF Ascending
      <3>1. i \in 1..m /\ (j = m + 1 \/ j \in 1..m)
        OBVIOUS
      <3>2. CASE j = m + 1
        BY <2>2, <2>6, <3>1, <3>2
      <3>3. CASE j \in 1..m
        BY <2>4, <2>6, <3>1, <3>3 DEF Ascending
      <3> QED BY <3>1, <3>2, <3>3
    <2> QED BY <2>6, <2>7
  <1>3. Cardinality(S) \in Q
    <2> HIDE DEF Q
    <2> QED BY <1>0, <1>1, <1>2, NatInduct
  <1> QED BY <1>3

(* The pairs that one who has the most adds to the mean difference.        *)
LEMMA MostAdds ==
  ASSUME NEW S, NEW x, NEW ap, \A y \in S : x[y] \in Nat, Apart(ap, x, S),
         NEW T \in SUBSET S, IsFiniteSet(T), NEW z \in S \ T, \A y \in T : x[y] <= x[z]
  PROVE  SumFunctionOnSet(ap, (T \cup {z}) \X (T \cup {z}))
           = SumFunctionOnSet(ap, T \X T) + 2 * (Cardinality(T) * x[z] - SumFunctionOnSet(x, T))
  <1> USE DEF Apart
  <1> DEFINE A(U) == (T \X T) \cup ({z} \X U) \cup (U \X {z})
             Q == {U \in SUBSET T : IsFiniteSet(A(U)) /\
                     SumFunctionOnSet(ap, A(U))
                       = SumFunctionOnSet(ap, T \X T) + 2 * (Cardinality(U) * x[z] - SumFunctionOnSet(x, U))}
  <1>1. IsFiniteSet(T \X T) /\ \A U \in SUBSET T : IsFiniteSet(U) /\ Cardinality(U) \in Nat
    BY FS_Product, FS_Subset, FS_CardinalityType
  <1>2. \A y, u \in S : ap[<<y, u>>] \in Int
    <2> SUFFICES ASSUME NEW y \in S, NEW u \in S PROVE ap[<<y, u>>] \in Int
      OBVIOUS
    <2>1. x[y] \in Nat /\ x[u] \in Nat
      OBVIOUS
    <2>2. (IF x[y] < x[u] THEN x[u] - x[y] ELSE x[y] - x[u]) \in Int
      BY <2>1
    <2> QED BY <2>2
  <1>3. SumFunctionOnSet(ap, T \X T) \in Int
    <2>1. \A p \in T \X T : ap[p] \in Int
      BY <1>2
    <2> QED BY <1>1, <2>1, SumInt
  <1>4. {} \in Q
    <2>1. A({}) = T \X T
      OBVIOUS
    <2>2. Cardinality({}) = 0 /\ SumFunctionOnSet(x, {}) = 0
      BY FS_EmptySet, SumOfNone
    <2>3. 2 * (0 * x[z] - 0) = 0
      <3>1. x[z] \in Nat
        OBVIOUS
      <3> QED BY <3>1
    <2>4. SumFunctionOnSet(ap, T \X T) + 2 * (0 * x[z] - 0) = SumFunctionOnSet(ap, T \X T)
      BY <1>3, <2>3
    <2> HIDE DEF A
    <2> QED BY <1>1, <2>1, <2>2, <2>4
  <1>5. ASSUME NEW U \in SUBSET T, U \in Q, NEW u \in T \ U PROVE U \cup {u} \in Q
    <2> DEFINE B == A(U) \cup {<<z, u>>}
    <2>1. A(U \cup {u}) = B \cup {<<u, z>>} /\ <<z, u>> \notin A(U) /\ <<u, z>> \notin B
      OBVIOUS
    <2>2. \A p \in B \cup {<<u, z>>} : ap[p] \in Int
      BY <1>2
    <2>3. ap[<<z, u>>] = x[z] - x[u] /\ ap[<<u, z>>] = x[z] - x[u] /\ x[z] \in Nat /\ x[u] \in Nat
      OBVIOUS
    <2>4. IsFiniteSet(B) /\ IsFiniteSet(B \cup {<<u, z>>})
      <3>1. IsFiniteSet(A(U))
        BY <1>5
      <3> HIDE DEF A
      <3>2. IsFiniteSet(B)
        BY <3>1, FS_AddElement
      <3> HIDE DEF B
      <3> QED BY <3>2, FS_AddElement
    <2>5. /\ SumFunctionOnSet(ap, B) = SumFunctionOnSet(ap, A(U)) + ap[<<z, u>>]
          /\ SumFunctionOnSet(ap, B \cup {<<u, z>>}) = SumFunctionOnSet(ap, B) + ap[<<u, z>>]
      <3> HIDE DEF A
      <3>1. SumFunctionOnSet(ap, A(U) \cup {<<z, u>>}) = SumFunctionOnSet(ap, A(U)) + ap[<<z, u>>]
        BY <1>5, <2>1, <2>2, SumAdd
      <3> HIDE DEF B
      <3>2. SumFunctionOnSet(ap, B \cup {<<u, z>>}) = SumFunctionOnSet(ap, B) + ap[<<u, z>>]
        BY <2>1, <2>2, <2>4, SumAdd
      <3> QED BY <3>1, <3>2 DEF B
    <2>6. SumFunctionOnSet(x, U \cup {u}) = SumFunctionOnSet(x, U) + x[u] /\ SumFunctionOnSet(x, U) \in Int
      BY <1>1, SumAdd, SumInt
    <2>7. Cardinality(U \cup {u}) = Cardinality(U) + 1 /\ Cardinality(U) \in Nat
      BY <1>1, FS_AddElement
    <2>8. PICK c \in Nat : c = Cardinality(U)
      BY <2>7
    <2>9. PICK m \in Int : m = x[z]
      BY <2>3
    <2>10. (c + 1) * m = c * m + m
      OBVIOUS
    <2>11. SumFunctionOnSet(ap, A(U)) = SumFunctionOnSet(ap, T \X T) + 2 * (c * m - SumFunctionOnSet(x, U))
      BY <1>5, <2>8, <2>9
    <2>12. SumFunctionOnSet(ap, A(U \cup {u}))
             = SumFunctionOnSet(ap, T \X T) + 2 * ((c + 1) * m - SumFunctionOnSet(x, U \cup {u}))
      <3> DEFINE s0 == SumFunctionOnSet(ap, T \X T)
                 s1 == SumFunctionOnSet(ap, A(U))
                 s2 == SumFunctionOnSet(ap, A(U \cup {u}))
                 t0 == SumFunctionOnSet(x, U)
                 t1 == SumFunctionOnSet(x, U \cup {u})
      <3>1. s2 = s1 + (m - x[u]) + (m - x[u]) /\ s1 = s0 + 2 * (c * m - t0) /\ t1 = t0 + x[u]
        <4> HIDE DEF A
        <4> QED BY <2>1, <2>3, <2>5, <2>6, <2>9, <2>11
      <3>2. s0 \in Int /\ t0 \in Int /\ x[u] \in Int
        BY <1>3, <2>3, <2>6
      <3> HIDE DEF s0, s1, s2, t0, t1
      <3>3. PICK q \in Int : q = c * m
        OBVIOUS
      <3>4. s2 = s0 + 2 * ((q + m) - t1)
        BY <3>1, <3>2, <3>3
      <3> QED BY <2>10, <3>3, <3>4 DEF s0, s2, t1
    <2> QED BY <2>1, <2>4, <2>7, <2>8, <2>9, <2>12
  <1>6. T \in Q
    <2> HIDE DEF Q
    <2> QED BY <1>4, <1>5, SetInduct
  <1>7. /\ (T \cup {z}) \X (T \cup {z}) = A(T) \cup {<<z, z>>} /\ <<z, z>> \notin A(T)
        /\ \A p \in A(T) \cup {<<z, z>>} : ap[p] \in Int
    BY <1>2
  <1>8. ap[<<z, z>>] = 0
    OBVIOUS
  <1>9. SumFunctionOnSet(ap, A(T) \cup {<<z, z>>}) = SumFunctionOnSet(ap, A(T)) + ap[<<z, z>>]
    <2>1. IsFiniteSet(A(T))
      BY <1>6
    <2> HIDE DEF A
    <2> QED BY <1>7, <2>1, SumAdd
  <1>10. SumFunctionOnSet(ap, A(T)) \in Int
    <2>1. IsFiniteSet(A(T))
      BY <1>6
    <2> HIDE DEF A
    <2> QED BY <1>7, <2>1, SumInt
  <1>11. SumFunctionOnSet(ap, A(T)) = SumFunctionOnSet(ap, T \X T) + 2 * (Cardinality(T) * x[z] - SumFunctionOnSet(x, T))
    BY <1>6
  <1> HIDE DEF A, Q
  <1>12. SumFunctionOnSet(ap, A(T) \cup {<<z, z>>}) = SumFunctionOnSet(ap, A(T))
    BY <1>8, <1>9, <1>10
  <1> QED BY <1>7, <1>11, <1>12, Zenon

-----------------------------------------------------------------------------
Weighted(w, o, n, x) == \A i \in 1..n : w[o[i]] = i * x[o[i]]

(* The mean difference of a set in ascending order is the sum weighted with*)
(* the places, and every place weighs at most as much as the last.         *)
LEMMA PlacesWeigh ==
  ASSUME NEW S, IsFiniteSet(S), NEW x, NEW ap, \A y \in S : x[y] \in Nat, Apart(ap, x, S),
         NEW o \in [1..Cardinality(S) -> S], Ascending(o, Cardinality(S), x),
         NEW w, Weighted(w, o, Cardinality(S), x)
  PROVE  /\ SumFunctionOnSet(ap, S \X S)
              = 2 * (2 * SumFunctionOnSet(w, S) - (Cardinality(S) + 1) * SumFunctionOnSet(x, S))
         /\ SumFunctionOnSet(w, S) <= Cardinality(S) * SumFunctionOnSet(x, S)
         /\ SumFunctionOnSet(w, S) \in Nat
  <1> USE DEF Weighted
  <1> DEFINE n == Cardinality(S)
             T(k) == {o[i] : i \in 1..k}
             Q == {k \in Nat : k <= n =>
                     /\ IsFiniteSet(T(k)) /\ Cardinality(T(k)) = k
                     /\ SumFunctionOnSet(w, T(k)) \in Nat
                     /\ SumFunctionOnSet(ap, T(k) \X T(k))
                          = 2 * (2 * SumFunctionOnSet(w, T(k)) - (k + 1) * SumFunctionOnSet(x, T(k)))
                     /\ SumFunctionOnSet(w, T(k)) <= k * SumFunctionOnSet(x, T(k))}
  <1>0. n \in Nat
    BY FS_CardinalityType
  <1>1. 0 \in Q
    <2>1. T(0) = {} /\ T(0) \X T(0) = {}
      OBVIOUS
    <2>2. /\ SumFunctionOnSet(w, {}) = 0 /\ SumFunctionOnSet(x, {}) = 0 /\ SumFunctionOnSet(ap, {}) = 0
          /\ IsFiniteSet({}) /\ Cardinality({}) = 0
      BY SumOfNone, FS_EmptySet
    <2> HIDE DEF T, n
    <2>3. /\ IsFiniteSet(T(0)) /\ Cardinality(T(0)) = 0 /\ SumFunctionOnSet(w, T(0)) = 0
          /\ SumFunctionOnSet(x, T(0)) = 0 /\ SumFunctionOnSet(ap, T(0) \X T(0)) = 0
      BY <2>1, <2>2
    <2>4. /\ SumFunctionOnSet(ap, T(0) \X T(0))
                = 2 * (2 * SumFunctionOnSet(w, T(0)) - (0 + 1) * SumFunctionOnSet(x, T(0)))
          /\ SumFunctionOnSet(w, T(0)) <= 0 * SumFunctionOnSet(x, T(0))
      BY <2>3
    <2> QED BY <2>3, <2>4
  <1>2. ASSUME NEW k \in Nat, k \in Q PROVE k + 1 \in Q
    <2> SUFFICES ASSUME k + 1 <= n PROVE k + 1 \in Q
      OBVIOUS
    <2> DEFINE z == o[k + 1]
    <2>1. /\ k + 1 \in 1..n /\ \A i \in 1..k : i \in 1..n /\ i < k + 1
          /\ 1..(k + 1) = (1..k) \cup {k + 1}
      BY <1>0
    <2>2. /\ T(k) \in SUBSET S /\ z \in S \ T(k) /\ \A y \in T(k) : x[y] <= x[z]
          /\ T(k + 1) = T(k) \cup {z}
      BY <2>1 DEF Ascending
    <2> DEFINE c == SumFunctionOnSet(w, T(k))
               t == SumFunctionOnSet(x, T(k))
               v == SumFunctionOnSet(ap, T(k) \X T(k))
    <2>3. /\ IsFiniteSet(T(k)) /\ Cardinality(T(k)) = k /\ c \in Nat
          /\ v = 2 * (2 * c - (k + 1) * t) /\ c <= k * t
      BY <1>2, <1>0
    <2>4. \A y \in T(k) \cup {z} : x[y] \in Nat /\ w[y] \in Nat
      <3>1. \A i \in 1..n : x[o[i]] \in Nat /\ i \in Nat
        OBVIOUS
      <3>2. \A i \in 1..n : i * x[o[i]] \in Nat
        BY <3>1
      <3> QED BY <2>1, <3>1, <3>2
    <2>5. w[z] = (k + 1) * x[z] /\ x[z] \in Nat
      BY <2>1
    <2> HIDE DEF T, n, z
    <2>6. t \in Nat
      BY <2>3, <2>4, SumBounds
    <2>7. /\ SumFunctionOnSet(w, T(k + 1)) = c + w[z]
          /\ SumFunctionOnSet(x, T(k + 1)) = t + x[z]
      BY <2>2, <2>3, <2>4, SumAdd
    <2> HIDE DEF c, t, v
    <2>8. SumFunctionOnSet(ap, T(k + 1) \X T(k + 1)) = v + 2 * (k * x[z] - t)
      <3>1. PICK W : W = T(k)
        OBVIOUS
      <3>2. /\ W \in SUBSET S /\ IsFiniteSet(W) /\ z \in S \ W /\ Cardinality(W) = k
            /\ \A y \in W : x[y] <= x[z]
        BY <2>2, <2>3, <3>1
      <3>3. SumFunctionOnSet(ap, (W \cup {z}) \X (W \cup {z}))
              = SumFunctionOnSet(ap, W \X W) + 2 * (Cardinality(W) * x[z] - SumFunctionOnSet(x, W))
        BY <3>2, MostAdds
      <3> QED BY <2>2, <3>1, <3>2, <3>3 DEF t, v
    <2>9. IsFiniteSet(T(k + 1)) /\ Cardinality(T(k + 1)) = k + 1
      <3>1. PICK W : W = T(k)
        OBVIOUS
      <3>2. IsFiniteSet(W) /\ z \notin W /\ Cardinality(W) = k
        BY <2>2, <2>3, <3>1
      <3>3. IsFiniteSet(W \cup {z}) /\ Cardinality(W \cup {z}) = k + 1
        BY <3>2, FS_AddElement
      <3> QED BY <2>2, <3>1, <3>3
    <2>10. PICK m \in Nat : m = x[z]
      BY <2>5
    <2>11. /\ (k + 1) * m = k * m + m /\ (k + 2) * m = k * m + 2 * m
           /\ (k + 1) * t = k * t + t /\ (k + 2) * t = k * t + 2 * t
           /\ (k + 2) * (t + m) = (k + 2) * t + (k + 2) * m
           /\ (k + 1) * (t + m) = (k + 1) * t + (k + 1) * m
           /\ k * m \in Nat /\ k * t \in Nat
      BY <2>6
    <2>12. PICK p \in Nat, q \in Nat : p = k * m /\ q = k * t
      BY <2>11
    <2>13. SumFunctionOnSet(w, T(k + 1)) = c + p + m
      BY <2>3, <2>5, <2>7, <2>10, <2>11, <2>12
    <2>14. (k + 1) * SumFunctionOnSet(x, T(k + 1)) = q + t + p + m
      <3>1. SumFunctionOnSet(x, T(k + 1)) = t + m
        BY <2>7, <2>10
      <3>2. (k + 1) * (t + m) = q + t + (p + m)
        BY <2>11, <2>12
      <3> QED BY <2>6, <2>10, <2>12, <3>1, <3>2
    <2>15. (k + 1 + 1) * SumFunctionOnSet(x, T(k + 1)) = q + 2 * t + p + 2 * m
      <3>1. k + 1 + 1 = k + 2 /\ SumFunctionOnSet(x, T(k + 1)) = t + m
        BY <2>7, <2>10
      <3>2. (k + 2) * (t + m) = q + 2 * t + (p + 2 * m)
        BY <2>11, <2>12
      <3>3. (k + 1 + 1) * SumFunctionOnSet(x, T(k + 1)) = (k + 2) * (t + m)
        BY <3>1
      <3> DEFINE h == (k + 1 + 1) * SumFunctionOnSet(x, T(k + 1))
                 b == (k + 2) * (t + m)
      <3>4. h = b /\ b = q + 2 * t + (p + 2 * m)
        BY <3>2, <3>3
      <3> HIDE DEF h, b
      <3>5. h = q + 2 * t + p + 2 * m
        BY <2>6, <3>4
      <3> QED BY <3>5 DEF h
    <2>16. v = 2 * (2 * c - (q + t)) /\ c <= q
      BY <2>3, <2>11, <2>12
    <2>17. SumFunctionOnSet(ap, T(k + 1) \X T(k + 1)) = v + 2 * (p - t)
      BY <2>8, <2>10, <2>12
    <2>18. SumFunctionOnSet(ap, T(k + 1) \X T(k + 1))
             = 2 * (2 * SumFunctionOnSet(w, T(k + 1)) - (k + 1 + 1) * SumFunctionOnSet(x, T(k + 1)))
      <3> DEFINE e == SumFunctionOnSet(ap, T(k + 1) \X T(k + 1))
                 f == SumFunctionOnSet(w, T(k + 1))
                 h == (k + 1 + 1) * SumFunctionOnSet(x, T(k + 1))
      <3>1. /\ c \in Nat /\ t \in Nat /\ f = c + p + m /\ h = q + 2 * t + p + 2 * m
            /\ v = 2 * (2 * c - (q + t)) /\ e = v + 2 * (p - t)
        BY <2>3, <2>6, <2>13, <2>15, <2>16, <2>17
      <3>2. e = 2 * (2 * f - h)
        <4> HIDE DEF e, f, h
        <4> QED BY <3>1
      <3> QED BY <3>2
    <2>19. /\ SumFunctionOnSet(w, T(k + 1)) <= (k + 1) * SumFunctionOnSet(x, T(k + 1))
           /\ SumFunctionOnSet(w, T(k + 1)) \in Nat
      BY <2>3, <2>6, <2>13, <2>14, <2>16
    <2> QED BY <2>9, <2>18, <2>19
  <1>3. n \in Q
    <2> HIDE DEF Q
    <2> QED BY <1>0, <1>1, <1>2, NatInduct
  <1>4. T(n) = S
    <2>1. T(n) \in SUBSET S
      OBVIOUS
    <2>2. Cardinality(T(n)) = n
      BY <1>0, <1>3
    <2> HIDE DEF T
    <2> QED BY <2>1, <2>2, FS_Subset
  <1>5. /\ SumFunctionOnSet(w, T(n)) \in Nat
        /\ SumFunctionOnSet(ap, T(n) \X T(n))
             = 2 * (2 * SumFunctionOnSet(w, T(n)) - (n + 1) * SumFunctionOnSet(x, T(n)))
        /\ SumFunctionOnSet(w, T(n)) <= n * SumFunctionOnSet(x, T(n))
    BY <1>0, <1>3
  <1> HIDE DEF T
  <1> QED BY <1>4, <1>5

LEMMA GiniIsTrue ==
  ASSUME CountsTypes
  PROVE  GiniIsMeanDifference
  <1> DEFINE S == Alive
             n == Cardinality(S)
             t == SumFunctionOnSet(purse, S)
             ap == [p \in S \X S |->
                      IF purse[p[1]] < purse[p[2]] THEN purse[p[2]] - purse[p[1]] ELSE purse[p[1]] - purse[p[2]]]
             o == CHOOSE s \in [1..n -> S] :
                    \A i, j \in 1..n : i < j => s[i] # s[j] /\ purse[s[i]] <= purse[s[j]]
             Place(s, a) == CHOOSE i \in 1..n : s[i] = a
             w == [a \in S |-> Place(o, a) * purse[a]]
             c == SumFunctionOnSet(w, S)
             g == Gini(purse, S)
  <1>1. g = IF t = 0 THEN <<0, 1>> ELSE <<2 * c - (n + 1) * t, n * t>>
    BY DEF Gini
  <1>2. S \in SUBSET Actors /\ IsFiniteSet(S) /\ n \in Nat /\ \A y \in S : purse[y] \in Nat
    <2>1. S \in SUBSET Actors /\ \A y \in S : purse[y] \in Nat
      BY DEF Alive, CountsTypes
    <2> HIDE DEF S
    <2> QED BY <2>1, FS_Subset, FS_CardinalityType, CountsConstants DEF CountsConstants
  <1>3. SumFunction(ap) = SumFunctionOnSet(ap, S \X S)
    <2>1. DOMAIN ap = S \X S
      OBVIOUS
    <2> HIDE DEF ap
    <2> QED BY <2>1 DEF SumFunction
  <1>4. Apart(ap, purse, S)
    <2> HIDE DEF S
    <2> QED BY DEF Apart
  <1> HIDE DEF S, ap
  <1>5. o \in [1..n -> S] /\ Ascending(o, n, purse)
    <2>1. \E s \in [1..n -> S] : Ascending(s, n, purse)
      BY <1>2, OrderExists
    <2> HIDE DEF n
    <2> QED BY <2>1 DEF Ascending
  <1> HIDE DEF o
  <1>6. \A i \in 1..n : Place(o, o[i]) = i
    <2> SUFFICES ASSUME NEW i \in 1..n PROVE Place(o, o[i]) = i
      OBVIOUS
    <2>1. \A j \in 1..n : o[j] = o[i] => j = i
      <3> SUFFICES ASSUME NEW j \in 1..n, o[j] = o[i] PROVE j = i
        OBVIOUS
      <3>1. ~ i < j /\ ~ j < i
        BY <1>5 DEF Ascending
      <3> QED BY <1>2, <3>1
    <2> HIDE DEF n
    <2> QED BY <2>1
  <1>7. \A i \in 1..n : w[o[i]] = i * purse[o[i]]
    <2>1. \A i \in 1..n : o[i] \in S
      BY <1>5
    <2> HIDE DEF n, Place
    <2> QED BY <1>6, <2>1
  <1> HIDE DEF w
  <1>8. /\ SumFunctionOnSet(ap, S \X S) = 2 * (2 * c - (n + 1) * t)
        /\ c <= n * t /\ c \in Nat
    <2>1. o \in [1..Cardinality(S) -> S] /\ Ascending(o, Cardinality(S), purse)
      BY <1>5
    <2>2. Weighted(w, o, Cardinality(S), purse)
      BY <1>7 DEF Weighted
    <2>3. IsFiniteSet(S) /\ \A y \in S : purse[y] \in Nat
      BY <1>2
    <2>4. /\ SumFunctionOnSet(ap, S \X S)
                = 2 * (2 * SumFunctionOnSet(w, S) - (Cardinality(S) + 1) * SumFunctionOnSet(purse, S))
          /\ SumFunctionOnSet(w, S) <= Cardinality(S) * SumFunctionOnSet(purse, S)
          /\ SumFunctionOnSet(w, S) \in Nat
      <3> HIDE DEF n, t, c
      <3> QED BY <1>4, <2>1, <2>2, <2>3, PlacesWeigh
    <2> QED BY <2>4
  <1>9. t \in Nat /\ SumFunctionOnSet(ap, S \X S) \in Nat
    <2>1. t \in Nat
      BY <1>2, SumBounds
    <2>2. \A p \in S \X S : ap[p] \in Nat
      <3> SUFFICES ASSUME NEW y \in S, NEW u \in S PROVE ap[<<y, u>>] \in Nat
        OBVIOUS
      <3>1. purse[y] \in Nat /\ purse[u] \in Nat
        BY <1>2
      <3>2. (IF purse[y] < purse[u] THEN purse[u] - purse[y] ELSE purse[y] - purse[u]) \in Nat
        BY <3>1
      <3> QED BY <1>4, <3>2 DEF Apart
    <2>3. IsFiniteSet(S \X S)
      BY <1>2, FS_Product
    <2> QED BY <2>1, <2>2, <2>3, SumBounds
  <1> HIDE DEF c, t, n, g
  <1>10. ASSUME t > 0
         PROVE  g[1] * 2 = SumFunction(ap) /\ 0 <= g[1] /\ g[1] * n <= (n - 1) * g[2]
    <2> DEFINE d == 2 * c - (n + 1) * t
    <2>1. g[1] = d /\ g[2] = n * t
      BY <1>1, <1>9, <1>10
    <2>2. PICK q \in Nat : q = n * t
      BY <1>2, <1>9
    <2>3. (n + 1) * t = q + t /\ (n - 1) * t = q - t
      BY <1>2, <1>9, <2>2
    <2>4. d \in Int /\ d <= q - t /\ d * 2 = 2 * d
      BY <1>8, <1>9, <2>2, <2>3
    <2>5. 0 <= d /\ d * 2 = SumFunction(ap)
      BY <1>3, <1>8, <1>9, <2>4
    <2>6. d * n <= (q - t) * n
      <3> HIDE DEF d
      <3>1. PICK r \in Nat : r = (q - t) - d
        BY <1>9, <2>4
      <3>2. r * n \in Nat /\ (d + r) * n = d * n + r * n /\ q - t = d + r
        BY <1>2, <1>9, <2>4, <3>1
      <3> QED BY <1>2, <2>4, <3>2
    <2>7. (n - 1) * (n * t) = (q - t) * n
      <3>1. (n - 1) * (n * t) = ((n - 1) * t) * n
        BY <1>2, <1>9
      <3> QED BY <2>3, <3>1
    <2> HIDE DEF d
    <2> QED BY <2>1, <2>5, <2>6, <2>7
  <1> QED BY <1>10 DEF GiniIsMeanDifference, n, t, g, ap, S

LEMMA CountsHold == CInv => CountsAreTrue
  <1> SUFFICES ASSUME CInv PROVE CountsAreTrue
    OBVIOUS
  <1>1. file \in Seq(Said) /\ CountsTypes
    BY DEF CInv, CountsTypes
  <1> QED BY <1>1, CountsTyped, CountersDoAgree, CountsDoComplete, NoVerbIsHalf, GiniIsTrue DEF CountsAreTrue

(* Of any number of events, and whenever the file is read, the three       *)
(* counters agree, a drained file tells what was done, a file cut off      *)
(* between the events of a verb shows no kill without its attack, and the  *)
(* sum over ranks is a Gini coefficient (score_run.py: score_events, gini; *)
(* run_demo.py: summarize_events; catalog.py: compute_all).                *)
THEOREM EveryCountIsTrue ==
  CountsInit /\ [][CountsNext]_countVars => []CountsAreTrue
  <1>1. CInv /\ [CountsNext]_countVars => CInv'
    BY CountsStep
  <1> QED BY <1>1, CountsStart, CountsHold, PTL

-----------------------------------------------------------------------------
(* Either run of the module that is checked.                               *)
RunInv == half \in {"contracts", "counts"} /\ SInv /\ CInv

LEMMA RunStep ==
  ASSUME Loaded = {}, RunInv, [(ContractsRun /\ ScoreNext) \/ (CountsRun /\ CountsNext)]_all
  PROVE  RunInv'
  <1>1. ASSUME ContractsRun, ScoreNext PROVE RunInv'
    <2>1. SInv'
      BY <1>1, ScoreStep DEF RunInv
    <2>2. CInv'
      BY <1>1, CountsStep DEF RunInv, ContractsRun
    <2> QED BY <1>1, <2>1, <2>2 DEF RunInv, ContractsRun
  <1>2. ASSUME CountsRun, CountsNext PROVE RunInv'
    <2>1. SInv'
      BY <1>2, ScoreStep DEF RunInv, CountsRun
    <2>2. CInv'
      BY <1>2, CountsStep DEF RunInv
    <2> QED BY <1>2, <2>1, <2>2 DEF RunInv, CountsRun
  <1>3. ASSUME UNCHANGED all PROVE RunInv'
    <2>1. UNCHANGED half /\ UNCHANGED <<ledgerVars, scoreVars>> /\ UNCHANGED countVars
      BY <1>3 DEF all
    <2> QED BY <2>1, ScoreStep, CountsStep DEF RunInv
  <1> QED BY <1>1, <1>2, <1>3

(* All that is scored of a run is what happened in it: the contracts with  *)
(* their betrayals, and the counts (score_run.py, run_demo.py, catalog.py).*)
THEOREM ScoresAreTrue ==
  ASSUME Loaded = {} PROVE RunSpec => []ScoreIsTrue
  <1>1. Start => RunInv
    BY ScoreStarts, CountsStart DEF Start, RunInv
  <1>2. RunInv /\ [(ContractsRun /\ ScoreNext) \/ (CountsRun /\ CountsNext)]_all => RunInv'
    BY RunStep
  <1>3. RunInv => ScoreIsTrue
    BY SInvIsTrue, CountsHold DEF RunInv, ScoreIsTrue
  <1> QED BY <1>1, <1>2, <1>3, PTL DEF RunSpec
=============================================================================
