--------------------------- MODULE ContractLedger ---------------------------
(***************************************************************************)
(* Verbal contracts (engine/internal/systems/verbalquests): each party has *)
(* a ledger of its own with a copy of the contract, both are changed by    *)
(* every verb, and a ledger that is too long loses its oldest closed       *)
(* copies.  With them what a restart does to the ledgers (persist): the    *)
(* bodies of the map file come back with the ledgers of the last save, and *)
(* the counter of the ids starts again.                                    *)
(*                                                                         *)
(* A verb runs under the lock of the overworld and is one step.            *)
(***************************************************************************)
EXTENDS Integers, Sequences, FiniteSets, SequencesExt

CONSTANTS
  Loaded,         \* agent bodies of the map file
  Fresh,          \* names SpawnAgentEntity may give, again after a restart
  MaxContracts,   \* maxContracts
  MaxDeals        \* bound of the model: proposals in all

ASSUME LedgerConstants ==
  /\ Loaded \cap Fresh = {} /\ MaxContracts \in Nat /\ MaxDeals \in Nat

Parties == Loaded \cup Fresh

VARIABLES
  present,     \* the agent bodies in the world
  used,       \* names given since the start of the engine
  led,        \* extras.contracts of each body
  idCounter,
  saved,      \* the ledgers in latest.json
  deals       \* history: proposals in all, which number the contracts

ledgerVars == <<present, used, led, idCounter, saved, deals>>

Closed == {"rejected", "completed"}

(* The id is ct_<proposer>_<n>; deal is history and tells contracts apart. *)
Contract == [proposer : Parties, n : 1..MaxDeals, target : Parties,
             status : {"proposed", "accepted"} \cup Closed, deal : 1..MaxDeals]

LedgerTypeOK ==
  /\ present \subseteq Parties /\ used \subseteq Fresh
  /\ led \in [Parties -> Seq(Contract)] /\ saved \in [Loaded -> Seq(Contract)]
  /\ idCounter \in 0..MaxDeals /\ deals \in 0..MaxDeals
  /\ \A a \in Parties, i \in 1..MaxDeals :
       i \in DOMAIN led[a] => led[a][i].proposer # led[a][i].target

LedgerInit ==
  /\ present = Loaded /\ used = {} /\ idCounter = 0 /\ deals = 0
  /\ led = [a \in Parties |-> <<>>] /\ saved = [a \in Loaded |-> <<>>]

-----------------------------------------------------------------------------
SpawnAgentEntity(a) ==
  /\ a \in Fresh \ used /\ used' = used \cup {a} /\ present' = present \cup {a}
  /\ UNCHANGED <<led, idCounter, saved, deals>>

RemoveEntity(a) ==
  /\ a \in present /\ present' = present \ {a} /\ led' = [led EXCEPT ![a] = <<>>]
  /\ UNCHANGED <<used, idCounter, saved, deals>>

(* Mutant: the oldest copies go, whatever their status.                    *)
PruneOldest(l) ==
  SubSeq(l, IF Len(l) > MaxContracts THEN Len(l) - MaxContracts + 1 ELSE 1, Len(l))

(* As many closed copies as the ledger is too long by, oldest first.       *)
Prune(l) ==
  LET ClosedUpTo(i) == Cardinality({j \in 1..i : l[j].status \in Closed})
      kept == {i \in DOMAIN l :
                 l[i].status \in Closed => ClosedUpTo(i) > Len(l) - MaxContracts}
      nth(k) == CHOOSE i \in kept : Cardinality({j \in kept : j <= i}) = k
  IN  [k \in 1..Cardinality(kept) |-> l[nth(k)]]

(* handlePropose, with appendContract on both parties.                     *)
Propose(p, t) ==
  /\ {p, t} \subseteq present /\ p # t /\ deals < MaxDeals
  /\ idCounter' = idCounter + 1 /\ deals' = deals + 1
  /\ LET c == [proposer |-> p, n |-> idCounter', target |-> t,
               status |-> "proposed", deal |-> deals']
     IN  led' = [a \in Parties |-> IF a \in {p, t} THEN Prune(Append(led[a], c)) ELSE led[a]]
  /\ UNCHANGED <<present, used, saved>>

(* indexContract: the first copy with that id, or 0.                       *)
IndexContract(l, c) ==
  SelectInSeq(l, LAMBDA d : d.proposer = c.proposer /\ d.n = c.n)

(* mutateContract.                                                         *)
Flipped(l, c, to) ==
  IF IndexContract(l, c) = 0 THEN l ELSE [l EXCEPT ![IndexContract(l, c)].status = to]

(* Mutant: the status is not looked at.                                    *)
TransitionAny(a, c, from, to) ==
  /\ led' = [b \in Parties |-> IF b \in {c.proposer, c.target} THEN Flipped(led[b], c, to)
                                                             ELSE led[b]]
  /\ UNCHANGED <<present, used, idCounter, saved, deals>>

(* transitionStatus: the copy of the party that acts is looked at, and the *)
(* copies of both, if they are there, are changed.                         *)
Transition(a, c, from, to) ==
  /\ c.status = from
  /\ led' = [b \in Parties |-> IF b \in {c.proposer, c.target} THEN Flipped(led[b], c, to)
                                                             ELSE led[b]]
  /\ UNCHANGED <<present, used, idCounter, saved, deals>>

(* The copies a verb of a may name: the first of each id in its ledger.    *)
Named(a) == {led[a][i] : i \in {j \in DOMAIN led[a] : IndexContract(led[a], led[a][j]) = j}}

Accept(a) == \E c \in Named(a) : a = c.target /\ Transition(a, c, "proposed", "accepted")
Reject(a) == \E c \in Named(a) : a = c.target /\ Transition(a, c, "proposed", "rejected")
Complete(a) == \E c \in Named(a) : a = c.proposer /\ Transition(a, c, "accepted", "completed")

(* persist.Write: bodies that are gone are not in the file.                *)
Save ==
  /\ saved' = [a \in Loaded |-> led[a]]
  /\ UNCHANGED <<present, used, led, idCounter, deals>>

(* The engine starts again: the map file, then persist.Restore over it.    *)
Restart ==
  /\ present' = Loaded /\ used' = {} /\ idCounter' = 0
  /\ led' = [a \in Parties |-> IF a \in Loaded THEN saved[a] ELSE <<>>]
  /\ UNCHANGED <<saved, deals>>

LedgerNext ==
  \/ \E a \in Parties :
       \/ SpawnAgentEntity(a) \/ RemoveEntity(a)
       \/ Accept(a) \/ Reject(a) \/ Complete(a)
       \/ \E t \in Parties : Propose(a, t)
  \/ Save \/ Restart

LedgerSpec == LedgerInit /\ [][LedgerNext]_ledgerVars

-----------------------------------------------------------------------------
(* Properties *)

Copies(a) == {led[a][i] : i \in DOMAIN led[a]}
PartiesOf(c) == {c.proposer, c.target}

(* "Both sides see the same record": as long as both bodies live, an open  *)
(* contract is in both ledgers, and where both have a copy the two agree,  *)
(* although each is pruned by itself and each flip looks at one copy only. *)
LedgersAgree ==
  \A a \in present : \A c \in Copies(a) : \A b \in PartiesOf(c) \cap present :
    /\ c.status \notin Closed => c \in Copies(b)
    /\ \A d \in Copies(b) : d.deal = c.deal => d = c

(* A contract is accepted before it is completed, and what is rejected or  *)
(* completed stays so, in every copy.                                      *)
StatusAdvances ==
  \A a \in present \cap present' : \A c \in Copies(a), d \in Copies(a)' :
    c.deal = d.deal /\ c # d =>
      <<c.status, d.status>> \in {<<"proposed", "accepted">>,
                                  <<"proposed", "rejected">>,
                                  <<"accepted", "completed">>}

(* A ledger grows beyond its bound by open contracts only (verbalquests.go *)
(* appendContract: "bound the ledger").                                    *)
GrowsByOpenOnly ==
  \A a \in Parties :
    Len(led'[a]) > Len(led[a]) /\ Len(led'[a]) > MaxContracts
      => \A c \in Copies(a)' : c.status \notin Closed

(* What a step may do to a ledger.                                         *)
LedgersOnlyAdvance == [][StatusAdvances /\ GrowsByOpenOnly]_ledgerVars

(* An id names one contract (verbalquests.go: "for unique contract ids").  *)
IdsAreUnique ==
  \A a \in present : \A c, d \in Copies(a) :
    c.proposer = d.proposer /\ c.n = d.n => c.deal = d.deal

(* The copies of a contract agree, and its id is its own.                  *)
LedgerSafe == LedgerTypeOK /\ LedgersAgree /\ IdsAreUnique
=============================================================================
