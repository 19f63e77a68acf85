----------------------------- MODULE BlockTree -----------------------------
(***************************************************************************)
(* The tree of block headers that exist in the network, and the answers    *)
(* that header and block validation give on it.  A header is identified    *)
(* with its hash.  Signatures, proof of work, the merkle root and the      *)
(* transactions of a block are abstracted to the sets below.               *)
(***************************************************************************)
EXTENDS Integers, FiniteSets

CONSTANTS
  Headers,        \* the headers that exist, apart from the genesis header
  Genesis,        \* blockchain.GenesisBlock
  Parent,         \* BlockHeader.PreviousHash
  Height,         \* BlockHeader.Height
  MaxHeight,      \* a bound on it
  TotalWork,      \* BlockHeader.TotalWork, the accumulated work it claims
  Malformed,      \* headers that ValidateHeaderStructure refuses
  Misclaimed,     \* headers whose TotalWork is not parent work + own work
  Bad,            \* blocks whose transactions fail on every ledger
  SpendsGenesis   \* blocks whose transactions need the coins of FirstUser

Hashes == Headers \cup {Genesis}
Heights == 0 .. MaxHeight

(* Headers are numbered from their parent, as NewBlock does it; the node   *)
(* does not check this.  All are of one difficulty period (GetTargetBits   *)
(* changes the difficulty only every 2016 blocks), and the work that they  *)
(* claim, added up rightly or not, grows with height.                      *)
ASSUME TreeAssumption ==
  /\ Genesis \notin Headers
  /\ Parent \in [Headers -> Hashes]
  /\ MaxHeight \in Nat
  /\ Height \in [Hashes -> Heights]
  /\ TotalWork \in [Hashes -> Nat]
  /\ Height[Genesis] = 0
  /\ \A h \in Headers : Height[h] = Height[Parent[h]] + 1
  /\ \A g, h \in Hashes : Height[g] < Height[h] <=> TotalWork[g] < TotalWork[h]
  /\ Bad \subseteq Headers

(* A set of blocks with the parent of each of its blocks.                  *)
Closed(S) == \A b \in S \ {Genesis} : Parent[b] \in S

(* The blocks from b back to genesis, both included.                       *)
Ancestors ==
  [b \in Hashes |->
     {a \in Hashes : \A S \in SUBSET Hashes : b \in S /\ Closed(S) => a \in S}]

(* The proof of work, and that a header of height 0 is the genesis header. *)
ValidateHeaderStructure(h) == h \notin Malformed

(* ValidateHeaderTotalWork against the parent's TotalWork.                 *)
WorkAddsUp(h) == h \notin Misclaimed

(* The ledgers a chain can start from: NewChain leaves AccountStates empty *)
(* and a reorganisation credits FirstUser before it replays the blocks.    *)
Bases == {"empty", "credited"}

(* Mutant: only the balance of the genesis account is checked.             *)
TransactionsUnchecked(b, base) == b \in SpendsGenesis => base = "credited"

(* The transaction part of ValidateBlock, on a ledger grown from base.     *)
TransactionsValid(b, base) ==
  /\ b \notin Bad
  /\ b \in SpendsGenesis => base = "credited"

(* The member of a nonempty set of blocks with the greatest height.        *)
Highest(S) == CHOOSE b \in S : \A a \in S : Height[a] <= Height[b]

(* No block of the branch that ends at b is bad on every ledger.           *)
SoundBranch(b) == Ancestors[b] \cap Bad = {}
=============================================================================
