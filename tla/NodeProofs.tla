----------------------------- MODULE NodeProofs -----------------------------
(***************************************************************************)
(* Proofs about header processing, for every block tree and every bound.   *)
(***************************************************************************)
EXTENDS Node, WellFoundedInduction, TLAPS

(* A leaf is proved by Zenon, unless it names SMT for its arithmetic, its  *)
(* sequences or its records, or PTL.                                       *)
USE Zenon

(***************************************************************************)
(* Branches of the block tree.                                             *)
(***************************************************************************)
(* Heights are natural numbers.                                            *)
LEMMA HeightIsNatural == \A b \in Hashes : Height[b] \in Nat
  BY TreeAssumption, SMT DEF Heights

(* The branch of b is a set of blocks that contains b and is closed under  *)
(* PreviousHash.                                                           *)
LEMMA AncestorsClosed ==
  ASSUME NEW b \in Hashes
  PROVE  Ancestors[b] \subseteq Hashes /\ b \in Ancestors[b] /\ Closed(Ancestors[b])
<1>1. Ancestors[b] = {a \in Hashes : \A S \in SUBSET Hashes : b \in S /\ Closed(S) => a \in S}
  BY DEF Ancestors
<1>2. ASSUME NEW x \in Ancestors[b] \ {Genesis}
      PROVE  Parent[x] \in Ancestors[b]
  <2>1. x \in Headers /\ Parent[x] \in Hashes
    BY <1>1, TreeAssumption DEF Hashes
  <2>2. ASSUME NEW S \in SUBSET Hashes, b \in S, Closed(S)
        PROVE  Parent[x] \in S
    BY <1>1, <2>2, x \in S DEF Closed
  <2> QED
    BY <1>1, <2>1, <2>2
<1> QED
  BY <1>1, <1>2 DEF Closed

(* It is the least such set.                                               *)
LEMMA AncestorsLeast ==
  ASSUME NEW b \in Hashes, NEW S \in SUBSET Hashes, b \in S, Closed(S)
  PROVE  Ancestors[b] \subseteq S
BY DEF Ancestors

(* The branch of a block is the block and the branch of its parent.        *)
LEMMA AncestorsStep ==
  ASSUME NEW h \in Headers
  PROVE  /\ Parent[h] \in Hashes
         /\ Ancestors[h] = {h} \cup Ancestors[Parent[h]]
<1>1. h \in Hashes /\ Parent[h] \in Hashes /\ h # Genesis
  BY TreeAssumption DEF Hashes
<1>2. /\ Ancestors[Parent[h]] \subseteq Hashes
      /\ Parent[h] \in Ancestors[Parent[h]]
      /\ Closed(Ancestors[Parent[h]])
  BY <1>1, AncestorsClosed
<1>3. Ancestors[h] \subseteq Hashes /\ h \in Ancestors[h] /\ Closed(Ancestors[h])
  BY <1>1, AncestorsClosed
<1>4. Ancestors[h] \subseteq {h} \cup Ancestors[Parent[h]]
  <2>1. Closed({h} \cup Ancestors[Parent[h]])
    BY <1>2 DEF Closed
  <2> QED
    BY <1>1, <1>2, <2>1, AncestorsLeast
<1>5. Ancestors[Parent[h]] \subseteq Ancestors[h]
  <2>1. Parent[h] \in Ancestors[h]
    BY <1>1, <1>3 DEF Closed
  <2> QED
    BY <1>1, <1>3, <2>1, AncestorsLeast
<1> QED
  BY <1>1, <1>3, <1>4, <1>5

(* The branch of the genesis block is the block alone.                     *)
LEMMA AncestorsGenesis == Ancestors[Genesis] = {Genesis}
<1>1. Genesis \in Hashes /\ Closed({Genesis})
  BY DEF Hashes, Closed
<1> QED
  BY <1>1, AncestorsLeast, AncestorsClosed

(* A branch contains the branches of its blocks.                           *)
LEMMA AncestorsTransitive ==
  ASSUME NEW b \in Hashes, NEW a \in Ancestors[b]
  PROVE  Ancestors[a] \subseteq Ancestors[b]
BY AncestorsClosed, AncestorsLeast

(* The other blocks of the branch of b are lower than b.                   *)
LEMMA AncestorsLower ==
  ASSUME NEW b \in Hashes, NEW a \in Ancestors[b], a # b
  PROVE  Height[a] < Height[b]
<1> DEFINE S == {b} \cup {x \in Hashes : Height[x] < Height[b]}
<1>1. ASSUME NEW x \in S \ {Genesis} PROVE Parent[x] \in S
  <2>1. x \in Headers /\ Parent[x] \in Hashes /\ Height[x] = Height[Parent[x]] + 1
    BY TreeAssumption DEF Hashes
  <2>2. Height[x] \in Nat /\ Height[Parent[x]] \in Nat /\ Height[b] \in Nat
    BY <2>1, TreeAssumption, SMT DEF Hashes, Heights
  <2> QED
    BY <2>1, <2>2, SMT
<1>2. Closed(S)
  BY <1>1 DEF Closed
<1> QED
  BY <1>2, AncestorsLeast

(* Of two blocks of one branch, the lower is on the branch of the other.   *)
LEMMA AncestorsLinear ==
  ASSUME NEW h \in Hashes, NEW x \in Ancestors[h], NEW y \in Ancestors[h],
         Height[x] < Height[y]
  PROVE  x \in Ancestors[y]
<1> DEFINE S == Ancestors[y] \cup {b \in Hashes : y \in Ancestors[b]}
<1>0. x \in Hashes /\ y \in Hashes
  BY AncestorsClosed
<1>1. S \subseteq Hashes /\ h \in S
  BY <1>0, AncestorsClosed
<1>2. ASSUME NEW b \in S \ {Genesis} PROVE Parent[b] \in S
  <2>1. b \in Headers
    BY <1>1 DEF Hashes
  <2>2. Parent[b] \in Hashes /\ Ancestors[b] = {b} \cup Ancestors[Parent[b]]
    BY <2>1, AncestorsStep
  <2>3. CASE b \in Ancestors[y]
    BY <2>3, <1>0, AncestorsClosed DEF Closed
  <2>4. CASE y \in Ancestors[b] /\ b = y
    BY <2>4, <1>0, AncestorsClosed DEF Closed
  <2>5. CASE y \in Ancestors[b] /\ b # y
    BY <2>2, <2>5
  <2> QED
    BY <2>3, <2>4, <2>5
<1>3. Ancestors[h] \subseteq S
  BY <1>1, <1>2, AncestorsLeast DEF Closed
<1>4. Height[x] \in Nat /\ Height[y] \in Nat
  BY <1>0, TreeAssumption, SMT DEF Heights
<1>5. y \notin Ancestors[x]
  BY <1>0, <1>4, AncestorsLower, SMT
<1> QED
  BY <1>3, <1>5

(* Highest is what its name says.                                          *)
LEMMA HighestIsHighest ==
  ASSUME NEW S \in SUBSET Hashes, S # {}
  PROVE  /\ Highest(S) \in S
         /\ \A a \in S : Height[a] <= Height[Highest(S)]
<1> DEFINE T == {MaxHeight - Height[a] : a \in S}
<1>1. MaxHeight \in Nat /\ \A a \in S : Height[a] \in Nat /\ Height[a] <= MaxHeight
  BY TreeAssumption, SMT DEF Heights
<1>2. T \subseteq Nat /\ T # {}
  BY <1>1, SMT
<1>3. PICK m \in T : \A n \in T : m <= n
  <2> DEFINE Less == {p \in Nat \X Nat : p[1] < p[2]}
  <2> HIDE DEF T
  <2>1. OpToRel(<, Nat) = Less
    BY DEF OpToRel
  <2>2. IsWellFoundedOn(Less, Nat)
    BY <2>1, NatLessThanWellFounded
  <2> HIDE DEF Less
  <2>3. PICK m \in T : \A n \in T : ~ (<<n, m>> \in Less)
    BY <1>2, <2>2, WFMin
  <2>4. ASSUME NEW n \in T PROVE m <= n
    <3>1. m \in Nat /\ n \in Nat /\ ~ (<<n, m>> \in Less)
      BY <1>2, <2>3
    <3> QED
      BY <3>1, SMT DEF Less
  <2> QED
    BY <2>4
<1>4. PICK b \in S : m = MaxHeight - Height[b]
  BY <1>3
<1>5. ASSUME NEW a \in S PROVE Height[a] <= Height[b]
  <2>1. MaxHeight - Height[a] \in T
    OBVIOUS
  <2>2. MaxHeight - Height[b] <= MaxHeight - Height[a]
    BY <1>3, <1>4, <2>1
  <2> HIDE DEF T
  <2> QED
    BY <1>1, <2>2, SMT
<1> QED
  BY <1>5 DEF Highest

(* Blocks that follow each other from genesis include their branches.      *)
LEMMA ClosedRun ==
  ASSUME NEW R \in SUBSET Headers, \A b \in R : Parent[b] \in R \cup {Genesis}
  PROVE  \A b \in R : Ancestors[b] \subseteq R \cup {Genesis}
<1>1. R \cup {Genesis} \in SUBSET Hashes /\ Closed(R \cup {Genesis})
  BY DEF Hashes, Closed
<1> QED
  BY <1>1, AncestorsLeast

(***************************************************************************)
(* Chain objects.                                                          *)
(***************************************************************************)
(* What Chain.AddBlock does to the index, the headers, the ledger and the  *)
(* Tip of a chain object, for a set of blocks.                             *)
LEMMA AddBlocksEffect ==
  ASSUME NEW c \in Chain, NEW S \in SUBSET Hashes
  PROVE  LET d == AddBlocks(c, S) IN
         /\ d \in Chain
         /\ d.BlockIndex = c.BlockIndex \cup S
         /\ d.Headers = c.Headers \cup S
         /\ d.AccountStates = c.AccountStates
         /\ c.Tip # Nil => d.Tip # Nil /\ Height[d.Tip] >= Height[c.Tip]
         /\ \A b \in S : d.Tip # Nil /\ Height[d.Tip] >= Height[b]
<1> DEFINE d == AddBlocks(c, S)
<1>1. CASE S = {}
  <2>1. d = c
    BY <1>1 DEF AddBlocks
  <2>2. c.Tip # Nil => Height[c.Tip] \in Int
    BY TreeAssumption, SMT DEF Chain, Heights
  <2> QED
    BY <1>1, <2>1, <2>2, SMT
<1>2. CASE S # {}
  <2> DEFINE top == Highest(S)
             tip == IF c.Tip = Nil \/ Height[top] > Height[c.Tip] THEN top ELSE c.Tip
             blocks == [n \in Heights |-> IF \E b \in S : Height[b] = n
                                          THEN CHOOSE b \in S : Height[b] = n
                                          ELSE c.Blocks[n]]
  <2>1. d = [c EXCEPT !.BlockIndex = c.BlockIndex \cup S,
                      !.Headers = c.Headers \cup S,
                      !.Tip = tip, !.Blocks = blocks]
    BY <1>2 DEF AddBlocks
  <2>2. top \in S /\ \A a \in S : Height[a] <= Height[top]
    BY <1>2, HighestIsHighest
  <2>3. blocks \in [Heights -> Hashes \cup {Nil}]
    BY DEF Chain
  <2>4. \A a \in Hashes : Height[a] \in Int
    BY TreeAssumption, SMT DEF Heights
  <2>5. tip \in Hashes /\ tip # Nil
    BY <2>2, NodeAssumption DEF Chain
  <2>6. c.Tip # Nil => Height[tip] >= Height[c.Tip]
    BY <2>2, <2>4, SMT DEF Chain
  <2>7. \A b \in S : Height[tip] >= Height[b]
    BY <2>2, <2>4, SMT DEF Chain
  <2> HIDE DEF tip, blocks, top
  <2>8. d \in Chain /\ d.BlockIndex = c.BlockIndex \cup S /\ d.Headers = c.Headers \cup S
        /\ d.AccountStates = c.AccountStates /\ d.Tip = tip
    BY <2>1, <2>3, <2>5 DEF Chain
  <2> QED
    BY <2>5, <2>6, <2>7, <2>8
<1> QED
  BY <1>1, <1>2

(* NewChain makes a chain object.                                          *)
LEMMA NewChainType == NewChain \in Chain
BY DEF NewChain, Chain, Hashes, Bases

(* A chain object stays one when its headers change.                       *)
LEMMA HeadersType ==
  ASSUME NEW c \in Chain, NEW H \in SUBSET Hashes
  PROVE  [c EXCEPT !.Headers = H] \in Chain
BY DEF Chain

(* ApplyBlock makes a chain object of one.                                 *)
LEMMA ApplyBlockType ==
  ASSUME NEW c \in Chain, NEW b \in Hashes
  PROVE  ApplyBlock(b, c) \in Chain
<1>1. [c EXCEPT !.AccountStates.at = b] \in Chain
  BY DEF Chain
<1> QED
  BY <1>1, AddBlocksEffect DEF ApplyBlock

(* So does replaying the blocks of a branch.                               *)
LEMMA ReplayedType ==
  ASSUME NEW c \in Chain, NEW R \in SUBSET Hashes, R # {}
  PROVE  Replayed(c, R) \in Chain
<1>1. AddBlocks(AddBlocks(c, {Genesis}), R) \in Chain
  BY AddBlocksEffect DEF Hashes
<1>2. Highest(R) \in Hashes
  BY HighestIsHighest
<1> QED
  BY <1>1, <1>2 DEF Replayed, Chain, Bases

(* What buildChainFromBlocks builds is a chain object.                     *)
LEMMA BuiltType ==
  ASSUME NEW path \in SUBSET Hashes
  PROVE  buildChainFromBlocks(path) \in Chain
<1>1. AddBlocks(NewChain, path) \in Chain
  BY NewChainType, AddBlocksEffect
<1>2. path # {} => Highest(path) \in Hashes
  BY HighestIsHighest
<1> QED
  BY <1>1, <1>2 DEF buildChainFromBlocks, Chain

(* The headers of a fork, and those still to be fetched, are headers of    *)
(* the tree other than genesis.                                            *)
LEMMA PathType ==
  ASSUME NEW b \in Hashes
  PROVE  /\ ForkPath(b) \subseteq Headers
         /\ \A c \in Chain : HeadersToFetch(b, c) \subseteq Headers
<1>1. Ancestors[b] \subseteq Hashes
  BY AncestorsClosed
<1>2. Genesis \in Hashes
  BY DEF Hashes
<1>3. Height[Genesis] >= Height[Genesis]
  BY TreeAssumption, SMT
<1>4. ForkPath(b) \subseteq Headers
  BY <1>1 DEF ForkPath, Hashes
<1>5. ASSUME NEW c \in Chain PROVE Genesis \notin HeadersToFetch(b, c)
  BY <1>3 DEF HeadersToFetch, Chain
<1> QED
  BY <1>1, <1>4, <1>5 DEF HeadersToFetch, Hashes

(* As long as there is a free chain id, the fresh one is one of them.      *)
LEMMA FreshIdType == FreeIds # {} => FreshId \in Ids /\ FreshId \in FreeIds
BY DEF FreshId, FreeIds

(***************************************************************************)
(* Type correctness.                                                       *)
(***************************************************************************)

(* The retries of orphans are counts of calls.                             *)
LEMMA RetriesType ==
  ASSUME TypeOK, NEW S
  PROVE  tryConnectOrphanChildren(S) \in [Headers \X Origins -> Nat]
BY SMT DEF TypeOK, tryConnectOrphanChildren

(* Returning leaves the loop idle and its messages of their types.         *)
LEMMA ReturnType ==
  ASSUME TypeOK, NEW h \in Headers, NEW from \in Origins, NEW ok, Return(h, from, ok)
  PROVE  /\ proc' = Idle /\ proc' \in Proc
         /\ sent' \subseteq Headers /\ blockFetches' \subseteq Headers
BY NodeAssumption DEF TypeOK, Return, Idle, Proc, Hashes, Origins, NoChain

(* The extension of a chain by a header keeps the types.                   *)
LEMMA ExtensionType ==
  ASSUME TypeOK, proc.pc = "connect", NEW i \in Ids, NEW c \in Chain, NEW S,
         handleChainExtension(proc.header, i, c, S)
  PROVE  TypeOK'
<1> USE DEF TypeOK
<1>1. proc.header \in Headers /\ proc.header \in Hashes /\ Parent[proc.header] \in Hashes
  BY TreeAssumption DEF Hashes
<1>2. [c EXCEPT !.Headers = @ \cup {proc.header}] \in Chain
  <2>1. c.Headers \in SUBSET Hashes
    BY DEF Chain
  <2> QED
    BY <1>1, <2>1, HeadersType
<1>3. calls' \in [Headers \X Origins -> Nat]
  BY RetriesType DEF handleChainExtension
<1>4. proc' \in Proc /\ proc'.pc = "decide" /\ proc'.header = proc.header /\ proc'.chain = i
  BY DEF handleChainExtension, Proc
<1>5. chains' \in [Hashes -> Ids \cup {NoChain}]
  BY <1>1 DEF handleChainExtension
<1>6. orphanHeaders' \in [Headers -> Nat]
  BY <1>1, SMT DEF handleChainExtension
<1> QED
  BY <1>1, <1>2, <1>3, <1>4, <1>5, <1>6
  DEF handleChainExtension, fetchVars, envVars

(* The values with which NewNode starts a process.                         *)
LEMMA InitialValues ==
  /\ GenesisChains \in [Hashes -> Ids \cup {NoChain}]
  /\ GenesisHeap \in [Ids -> Chain]
  /\ NoCalls \in [Headers \X Origins -> Nat]
  /\ NoHeaders \in [Headers -> Nat] /\ NoHeaders \in [Headers -> 0 .. MaxAnnounce]
  /\ Genesis \in Hashes
  /\ Idle \in Proc /\ Idle.pc = "idle"
<1>1. AddBlocks(NewChain, {Genesis}) \in Chain
  BY NewChainType, AddBlocksEffect DEF Hashes
<1>2. GenesisHeap \in [Ids -> Chain]
  BY <1>1, NewChainType DEF GenesisHeap
<1>3. GenesisChains \in [Hashes -> Ids \cup {NoChain}]
  BY NodeAssumption, SMT DEF GenesisChains, Ids
<1>4. NoHeaders \in [Headers -> Nat] /\ NoHeaders \in [Headers -> 0 .. MaxAnnounce]
  BY NodeAssumption, SMT DEF NoHeaders
<1>5. Idle \in Proc /\ Idle.pc = "idle"
  BY DEF Idle, Proc, Hashes, Origins
<1> QED
  BY <1>2, <1>3, <1>4, <1>5 DEF NoCalls, Hashes

(* The initial state has its types.                                        *)
LEMMA TypeInit == Init => TypeOK
<1> SUFFICES ASSUME Init PROVE TypeOK
  OBVIOUS
<1>1. boots \in 1 .. MaxBoots
  BY NodeAssumption, SMT DEF Init
<1> QED
  BY <1>1, InitialValues DEF Init, TypeOK, Hashes

(* One step per action; the objects and records that an action builds have *)
(* their types by the lemmas above.                                        *)
LEMMA TypeStep == TypeOK /\ [Next]_vars => TypeOK'
<1> SUFFICES ASSUME TypeOK, [Next]_vars PROVE TypeOK'
  OBVIOUS
<1> USE DEF TypeOK
<1>0. proc.header \in Hashes /\ proc.from \in Origins /\ proc.want \subseteq Headers
  BY DEF Proc
<1>a. \A h \in Headers : h \in Hashes /\ Parent[h] \in Hashes
  BY TreeAssumption DEF Hashes
<1>1. ASSUME NEW h \in Headers, AnnounceHeader(h) PROVE TypeOK'
  <2>1. announced' \in [Headers -> 0 .. MaxAnnounce]
    BY <1>1, NodeAssumption, SMT DEF AnnounceHeader
  <2> QED
    BY <1>1, <2>1, SMT DEF AnnounceHeader, chainVars, indexVars, fetchVars, Origins
<1>2. ASSUME NEW h \in Headers, SubmitBlock(h) PROVE TypeOK'
  BY <1>2, SMT DEF SubmitBlock, chainVars, fetchVars, envVars, Origins
<1>3. ASSUME NEW h \in Headers, NEW from \in Origins, Begin(h, from) PROVE TypeOK'
  <2>1. calls' \in [Headers \X Origins -> Nat]
    BY <1>3, SMT DEF Begin
  <2>2. CASE ~ValidateHeaderStructure(h) \/ checkHeaderExists(h)
    <3>1. Return(h, from, ValidateHeaderStructure(h))
      BY <1>3, <2>2 DEF Begin
    <3>2. /\ proc' = Idle /\ proc' \in Proc
          /\ sent' \subseteq Headers /\ blockFetches' \subseteq Headers
      BY <3>1, ReturnType
    <3> QED
      BY <1>3, <2>1, <3>2 DEF Begin, chainVars, indexVars, fetchVars, envVars, Idle
  <2>3. CASE ~ (~ValidateHeaderStructure(h) \/ checkHeaderExists(h))
    <3>1. proc' \in Proc /\ proc'.pc = "connect" /\ proc'.header = h
      BY <1>3, <1>a, <2>3 DEF Begin, Idle, Proc
    <3> QED
      BY <1>3, <2>1, <2>3, <3>1 DEF Begin, chainVars, indexVars, fetchVars, envVars
  <2> QED
    BY <2>2, <2>3
<1>4. CASE ExtendTip
  <2>1. chains[Parent[proc.header]] \in Ids /\ At(Parent[proc.header]) \in Chain
    BY <1>4, <1>a DEF ExtendTip, findParentChain, Live, At
  <2> QED
    BY <1>4, <2>1, ExtensionType DEF ExtendTip
<1>5. ASSUME NEW t \in Hashes, FetchForFork(t) PROVE TypeOK'
  <2>1. proc.header \in Headers /\ chains[t] \in Ids
    BY <1>5 DEF FetchForFork, findParentBlock, Live
  <2>2. /\ proc' = Idle /\ proc' \in Proc
        /\ sent' \subseteq Headers /\ blockFetches' \subseteq Headers
    BY <1>0, <1>5, <2>1, ReturnType DEF FetchForFork
  <2>3. forkFetches' \subseteq ForkFetch
    BY <1>5, <1>a, <2>1, PathType, SMT DEF FetchForFork, ForkFetch
  <2> QED
    BY <1>5, <2>2, <2>3 DEF FetchForFork, chainVars, indexVars, envVars, Idle
<1>6. CASE CreateFork
  <2> DEFINE path == ForkPath(Parent[proc.header])
  <2>1. proc.header \in Headers /\ path \subseteq Hashes
    BY <1>6, <1>a, PathType DEF CreateFork, Hashes
  <2>2. CASE Applied(path) = path
    <3>1. FreshId \in Ids /\ buildChainFromBlocks(path) \in Chain
      BY <1>6, <2>1, <2>2, FreshIdType, BuiltType DEF CreateFork
    <3>2. handleChainExtension(proc.header, FreshId, buildChainFromBlocks(path), path)
      BY <1>6, <2>2 DEF CreateFork
    <3> QED
      BY <1>6, <3>1, <3>2, ExtensionType DEF CreateFork
  <2>3. CASE Applied(path) # path
    <3>1. /\ proc' = Idle /\ proc' \in Proc
          /\ sent' \subseteq Headers /\ blockFetches' \subseteq Headers
      BY <1>0, <1>6, <2>1, <2>3, ReturnType DEF CreateFork
    <3>2. calls' \in [Headers \X Origins -> Nat]
      BY <1>6, <2>3, RetriesType, ZenonT(30) DEF CreateFork
    <3> QED
      BY <1>6, <2>3, <3>1, <3>2
      DEF CreateFork, chainVars, indexVars, fetchVars, envVars, Idle
  <2> QED
    BY <2>2, <2>3
<1>7. CASE handleOrphanHeader
  <2>1. proc.header \in Headers
    BY <1>7 DEF handleOrphanHeader
  <2>2. /\ proc' = Idle /\ proc' \in Proc
        /\ sent' \subseteq Headers /\ blockFetches' \subseteq Headers
    BY <1>0, <1>7, <2>1, ReturnType DEF handleOrphanHeader
  <2>3. headerFetches' \subseteq Headers
    BY <1>7, <1>a, <2>1 DEF handleOrphanHeader, Hashes
  <2> QED
    BY <1>7, <2>1, <2>2, <2>3, SMT
    DEF handleOrphanHeader, chainVars, indexVars, envVars, Idle
<1>8. CASE ExtendCurrent
  <2>1. proc' \in Proc /\ proc'.pc \in {"apply", "awaitBlock"}
        /\ proc'.header = proc.header /\ proc'.chain = proc.chain
    BY <1>8 DEF ExtendCurrent, Proc
  <2> QED
    BY <1>8, <2>1
    DEF ExtendCurrent, chainVars, indexVars, fetchVars, envVars
<1>9. CASE ExtendCandidate
  <2>1. proc.header \in Headers /\ heap[proc.chain] \in Chain
    BY <1>9 DEF ExtendCandidate
  <2> DEFINE want == HeadersToFetch(proc.header, heap[proc.chain])
  <2>2. want \subseteq Headers
    BY <1>a, <2>1, PathType
  <2>3. CASE proc' = [proc EXCEPT !.pc = "awaitBranch", !.want = want]
             /\ UNCHANGED <<sent, blockFetches>>
    <3>1. proc' \in Proc /\ proc'.header = proc.header /\ proc'.chain = proc.chain
      BY <2>2, <2>3 DEF Proc
    <3> QED
      BY <1>9, <2>3, <3>1
      DEF ExtendCandidate, chainVars, indexVars, fetchVars, envVars
  <2>4. CASE Return(proc.header, proc.from, TRUE)
    <3>1. /\ proc' = Idle /\ proc' \in Proc
          /\ sent' \subseteq Headers /\ blockFetches' \subseteq Headers
      BY <1>0, <2>1, <2>4, ReturnType
    <3> QED
      BY <1>9, <3>1
      DEF ExtendCandidate, chainVars, indexVars, fetchVars, envVars, Idle
  <2> QED
    BY <1>9, <2>3, <2>4 DEF ExtendCandidate
<1>10. CASE RequestTimesOut
  <2>1. /\ proc' = Idle /\ proc' \in Proc
        /\ sent' \subseteq Headers /\ blockFetches' \subseteq Headers
    BY <1>0, <1>10, ReturnType DEF RequestTimesOut
  <2> QED
    BY <1>10, <2>1
    DEF RequestTimesOut, chainVars, indexVars, fetchVars, envVars, Idle
<1>11. CASE BlockArrives
  <2>1. CASE proc' = [proc EXCEPT !.pc = "apply"] /\ UNCHANGED <<sent, blockFetches>>
    <3>1. proc' \in Proc /\ proc'.header = proc.header /\ proc'.chain = proc.chain
      BY <2>1 DEF Proc
    <3> QED
      BY <1>11, <2>1, <3>1 DEF BlockArrives, chainVars, indexVars, fetchVars, envVars
  <2>2. CASE Return(proc.header, proc.from, TRUE)
    <3>1. /\ proc' = Idle /\ proc' \in Proc
          /\ sent' \subseteq Headers /\ blockFetches' \subseteq Headers
      BY <1>0, <1>11, <2>2, ReturnType DEF BlockArrives
    <3> QED
      BY <1>11, <3>1 DEF BlockArrives, chainVars, indexVars, fetchVars, envVars, Idle
  <2> QED
    BY <1>11, <2>1, <2>2 DEF BlockArrives
<1>12. CASE ApplyToCurrent
  <2>1. proc.header \in Headers /\ proc.chain \in Ids
    BY <1>12 DEF ApplyToCurrent
  <2>2. /\ proc' = Idle /\ proc' \in Proc
        /\ sent' \subseteq Headers /\ blockFetches' \subseteq Headers
    BY <1>0, <1>12, <2>1, ReturnType DEF ApplyToCurrent
  <2>3. ApplyBlock(proc.header, heap[proc.chain]) \in Chain
    BY <1>0, <2>1, ApplyBlockType
  <2>4. heap' \in [Ids -> Chain]
    BY <1>12, <2>1, <2>3 DEF ApplyToCurrent
  <2>5. calls' \in [Headers \X Origins -> Nat]
    BY <1>12, RetriesType DEF ApplyToCurrent
  <2> QED
    BY <1>0, <1>12, <2>1, <2>2, <2>4, <2>5 DEF ApplyToCurrent, fetchVars, envVars, Idle
<1>13. CASE cleanupFailedHeader
  <2>1. proc.header \in Headers /\ proc.chain \in Ids
    BY <1>13 DEF cleanupFailedHeader
  <2>2. /\ proc' = Idle /\ proc' \in Proc
        /\ sent' \subseteq Headers /\ blockFetches' \subseteq Headers
    BY <1>0, <1>13, <2>1, ReturnType DEF cleanupFailedHeader
  <2>3. heap' \in [Ids -> Chain]
    <3>1. heap[proc.chain] \in Chain /\ heap[proc.chain].Headers \in SUBSET Hashes
      BY <2>1 DEF Chain
    <3>2. [heap[proc.chain] EXCEPT !.Headers = @ \ {proc.header}] \in Chain
      BY <3>1, HeadersType
    <3> QED
      BY <1>13, <2>1, <3>2 DEF cleanupFailedHeader
  <2>4. orphanHeaders' \in [Headers -> Nat]
    BY <1>13, <2>1, SMT DEF cleanupFailedHeader
  <2>5. Genesis \in headersMap'
    BY <1>13, <2>1, TreeAssumption DEF cleanupFailedHeader
  <2> QED
    BY <1>0, <1>a, <1>13, <2>1, <2>2, <2>3, <2>4, <2>5
    DEF cleanupFailedHeader, fetchVars, envVars, Idle
<1>14. CASE BranchArrives
  <2>0. proc.header \in Headers /\ proc.chain \in Ids
    BY <1>14 DEF BranchArrives
  <2>1. PICK R \in SUBSET proc.want :
          \/ /\ R = {} /\ crashed' = TRUE
             /\ UNCHANGED <<chainVars, indexVars, orphanHeaders, calls, proc, sent,
                            blockFetches>>
          \/ /\ Return(proc.header, proc.from, TRUE)
             /\ UNCHANGED <<chainVars, indexVars, orphanHeaders, calls, crashed>>
          \/ Adopts(R)
    BY <1>14 DEF BranchArrives, Answers
  <2>2. UNCHANGED <<fetchVars, announced, boots>>
    BY <1>14 DEF BranchArrives
  <2>3. CASE /\ R = {} /\ crashed' = TRUE
             /\ UNCHANGED <<chainVars, indexVars, orphanHeaders, calls, proc, sent,
                            blockFetches>>
    BY <2>2, <2>3 DEF chainVars, indexVars, fetchVars
  <2>4. ASSUME Return(proc.header, proc.from, TRUE)
        PROVE  /\ proc' = Idle /\ proc' \in Proc
               /\ sent' \subseteq Headers /\ blockFetches' \subseteq Headers
    BY <1>0, <2>0, <2>4, ReturnType
  <2>5. CASE /\ Return(proc.header, proc.from, TRUE)
             /\ UNCHANGED <<chainVars, indexVars, orphanHeaders, calls, crashed>>
    BY <2>2, <2>4, <2>5, SMT DEF chainVars, indexVars, fetchVars, Idle
  <2>6. CASE Adopts(R)
    <3>1. R # {} /\ R \subseteq Hashes /\ Highest(R) \in Hashes
      BY <1>0, <2>6, HighestIsHighest DEF Adopts, Hashes
    <3>2. heap' \in [Ids -> Chain]
      BY <2>0, <2>6, <3>1, ReplayedType DEF Adopts
    <3>3. calls' \in [Headers \X Origins -> Nat]
      BY <2>6, RetriesType DEF Adopts
    <3>4. chains' \in [Hashes -> Ids \cup {NoChain}] /\ currentChainTip' \in Hashes
      BY <2>0, <2>6, <3>1, <1>a DEF Adopts
    <3>5. orphanHeaders' \in [Headers -> Nat]
      <4>1. \/ orphanHeaders' = [o \in Headers |-> IF o \in StaleOrphans(chains', heap')
                                                 THEN 0 ELSE orphanHeaders[o]]
            \/ orphanHeaders' = orphanHeaders
        BY <2>6 DEF Adopts
      <4> QED
        BY <4>1, SMT
    <3> QED
      <4>1. /\ headersMap' = headersMap \cup R /\ blocksMap' = blocksMap \cup R
            /\ submittedBlocks' = submittedBlocks /\ crashed' = crashed
            /\ Return(proc.header, proc.from, TRUE)
        BY <2>6 DEF Adopts
      <4>2. /\ headersMap' \subseteq Hashes /\ Genesis \in headersMap'
            /\ blocksMap' \subseteq Hashes /\ Genesis \in blocksMap'
        BY <3>1, <4>1
      <4> QED
        BY <2>2, <2>4, <3>2, <3>3, <3>4, <3>5, <4>1, <4>2, SMT DEF fetchVars, Idle
  <2> QED
    BY <2>1, <2>3, <2>5, <2>6
<1>15. ASSUME NEW p \in Headers, HeaderFetch(p) PROVE TypeOK'
  <2>1. CASE HeaderFetchFails(p)
    BY <2>1 DEF HeaderFetchFails, chainVars, indexVars, envVars
  <2>2. CASE ParentHeaderArrives(p)
    <3>1. calls' \in [Headers \X Origins -> Nat]
      BY <2>2, SMT DEF ParentHeaderArrives, Origins
    <3> QED
      BY <2>2, <3>1 DEF ParentHeaderArrives, chainVars, indexVars, envVars
  <2> QED
    BY <1>15, <2>1, <2>2 DEF HeaderFetch
<1>16. ASSUME NEW p \in Headers, BlockFetch(p) PROVE TypeOK'
  <2>1. heap' \in [Ids -> Chain]
    <3>1. CASE BlockFetchFails(p)
      BY <3>1 DEF BlockFetchFails, chainVars
    <3>2. CASE ParentBlockArrives(p)
      <4>1. \A i \in Ids : AddBlocks(heap[i], {p}) \in Chain
        BY <1>a, AddBlocksEffect
      <4> QED
        BY <3>2, <4>1 DEF ParentBlockArrives
    <3> QED
      BY <1>16, <3>1, <3>2 DEF BlockFetch
  <2> QED
    BY <1>16, <2>1 DEF BlockFetch, ParentBlockArrives, BlockFetchFails, chainVars,
                       indexVars, fetchVars, envVars
<1>17. ASSUME NEW f \in forkFetches, ForkFetchEnds(f) PROVE TypeOK'
  <2>1. f.header \in Headers /\ f.want \subseteq Headers /\ f.chain \in Ids
    BY DEF ForkFetch
  <2>2. heap' \in [Ids -> Chain]
    <3>1. CASE ForkFetchFails(f)
      BY <3>1 DEF ForkFetchFails, chainVars
    <3>2. CASE ForkBlocksArrive(f)
      <4>1. PICK R \in SUBSET f.want : heap' = [heap EXCEPT ![f.chain] = AddBlocks(@, R)]
        BY <3>2 DEF ForkBlocksArrive, Answers
      <4>2. AddBlocks(heap[f.chain], R) \in Chain
        BY <2>1, AddBlocksEffect DEF Hashes
      <4> QED
        BY <2>1, <4>1, <4>2
    <3> QED
      BY <1>17, <3>1, <3>2 DEF ForkFetchEnds
  <2>3. calls' \in [Headers \X Origins -> Nat]
    BY <1>17, <2>1, SMT DEF ForkFetchEnds, ForkBlocksArrive, ForkFetchFails, Origins
  <2> QED
    BY <1>17, <2>2, <2>3 DEF ForkFetchEnds, ForkBlocksArrive, ForkFetchFails, chainVars,
                       indexVars, fetchVars, envVars
<1>18. CASE Restart
  <2>1. boots' \in 1 .. MaxBoots
    BY <1>18, NodeAssumption, SMT DEF Restart
  <2> QED
    BY <1>18, <2>1, InitialValues DEF Restart, Hashes
<1>19. CASE UNCHANGED vars
  BY <1>19 DEF vars, chainVars, indexVars, fetchVars, envVars
<1> QED
  BY <1>1, <1>2, <1>3, <1>4, <1>5, <1>6, <1>7, <1>8, <1>9, <1>10, <1>11, <1>12,
     <1>13, <1>14, <1>15, <1>16, <1>17, <1>18, <1>19
  DEF Next, Connect, Decide, Await, Finish
=============================================================================
