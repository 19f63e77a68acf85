-------------------------------- MODULE Node --------------------------------
(***************************************************************************)
(* Header processing and fork choice of one node (package node).           *)
(*                                                                         *)
(* Headers reach the node from peers, from the submit-block handler and    *)
(* from its own retries.  Each runs ProcessHeader in a goroutine; the      *)
(* mutex headerProcessingMu lets one of them run at a time (proc) while    *)
(* the others wait (calls).  The holder may wait for blocks from peers.    *)
(* Meanwhile two kinds of background goroutine, which do not take the      *)
(* mutex, add fetched blocks to chain objects that the holder also uses.   *)
(***************************************************************************)
EXTENDS BlockTree

CONSTANTS
  Nil,            \* no block
  MaxChains,      \* chain objects alive at once
  Mined,          \* blocks that a miner submits to this node
  Announced,      \* headers that peers announce; others come as parents only
  MaxAnnounce,    \* announcements of one header by peers
  MaxBoots,       \* how often the process is started
  Gap,            \* config.MaxCandidateChainDepthGap
  Faults          \* what may go wrong with a request to peers

ASSUME NodeAssumption ==
  /\ Nil \notin Hashes
  /\ MaxChains \in Nat \ {0} /\ MaxBoots \in Nat \ {0}
  /\ Mined \subseteq Headers /\ Announced \subseteq Headers
  /\ MaxAnnounce \in Nat /\ Gap \in Nat
  /\ Faults \subseteq {"timeout", "empty", "partial"}

VARIABLES
  chains,           \* tip hash -> chain object, NoChain where there is no key
  heap,             \* the chain objects
  currentChainTip,
  headersMap, blocksMap, submittedBlocks,
  orphanHeaders,    \* copies of each header that wait for their parent
  calls,            \* goroutines that wait for headerProcessingMu
  proc,             \* the goroutine that holds it
  headerFetches, blockFetches,   \* fetchParentForOrphan, by the hash it asks for
  forkFetches,      \* fetchMissingBlocksForFork
  announced,        \* announcements received, by header
  sent,             \* headers this node announced to its peers
  crashed,          \* a panic ended the process
  boots

indexVars == <<headersMap, blocksMap, submittedBlocks>>
chainVars == <<chains, heap, currentChainTip>>
fetchVars == <<headerFetches, forkFetches>>
envVars   == <<announced, crashed, boots>>
vars == <<chainVars, indexVars, orphanHeaders, calls, proc, blockFetches,
          fetchVars, sent, envVars>>

NoChain == 0
Ids == 1 .. MaxChains

(* Who called ProcessHeader: a peer's announcement or a retry, the HTTP     *)
(* handler, or fetchParentForOrphan, which goes on to fetch the block.     *)
Origins == {"net", "api", "fetch"}

(***************************************************************************)
(* Chain objects.                                                          *)
(***************************************************************************)
Chain == [BlockIndex : {S \in SUBSET Hashes : Genesis \in S},
          Headers : SUBSET Hashes,
          Tip : Hashes \cup {Nil}, Blocks : [Heights -> Hashes \cup {Nil}],
          AccountStates : [base : Bases, at : Hashes]]

NewChain ==
  [BlockIndex |-> {Genesis}, Headers |-> {Genesis}, Tip |-> Nil,
   Blocks |-> [n \in Heights |-> Nil],
   AccountStates |-> [base |-> "empty", at |-> Genesis]]

(* Chain.AddBlock for each block of S, which lie on one branch.            *)
AddBlocks(c, S) ==
  IF S = {} THEN c ELSE
  [c EXCEPT
     !.BlockIndex = @ \cup S,
     !.Headers = @ \cup S,
     !.Tip = IF @ = Nil \/ Height[Highest(S)] > Height[@] THEN Highest(S) ELSE @,
     !.Blocks = [n \in Heights |->
                   IF \E b \in S : Height[b] = n
                   THEN CHOOSE b \in S : Height[b] = n ELSE @[n]]]

(* ValidateBlock: the structural part in the order of the code, then the   *)
(* transactions.                                                           *)
ValidateBlock(b, c) ==
  IF Parent[b] \notin c.BlockIndex THEN "ErrMissingParent"
  ELSE IF c.Tip \notin {Nil, Parent[b]} THEN "ErrSwitchChain"
  ELSE IF TransactionsValid(b, c.AccountStates.base) THEN "ok" ELSE "invalid"

(* Mutant: the account states are forgotten.                               *)
ApplyBlockKeepsStates(b, c) == AddBlocks(c, {b})

ApplyBlock(b, c) == AddBlocks([c EXCEPT !.AccountStates.at = b], {b})

(***************************************************************************)
(* Look-ups.                                                               *)
(***************************************************************************)
Live == {t \in Hashes : chains[t] # NoChain}
At(t) == heap[chains[t]]
(* Mutant: only blocks that miners submitted are found.                    *)
GetBlockSubmitted(b) == b \in submittedBlocks

GetBlock(b) == b \in submittedBlocks \cup blocksMap

checkHeaderExists(h) == \E t \in Live : h \in At(t).Headers

findParentChain(h) ==
  /\ Parent[h] \in Live
  /\ Parent[h] \in At(Parent[h]).Headers
  /\ WorkAddsUp(h)

findParentBlock(h) == {t \in Live : Parent[h] \in At(t).BlockIndex}

(* The walk of handleForkCreation: back from b over headersMap, up to      *)
(* genesis or to the first header that headersMap does not have.           *)
ForkPath(b) ==
  {a \in Ancestors[b] \ {Genesis} :
     \A x \in Ancestors[b] \ {Genesis} : Height[x] >= Height[a] => x \in headersMap}

(* Mutant: the walk does not stop at a block the chain holds.              *)
HeadersToFetchAll(b, c) ==
  {a \in Ancestors[b] : \A x \in Ancestors[b] : Height[x] > Height[a] => x \in headersMap}

(* The walk of handleCandidateChainExtension: back from b to the first     *)
(* block that chain c holds; a header that is missing ends it, included.   *)
HeadersToFetch(b, c) ==
  {a \in Ancestors[b] :
     /\ \A x \in Ancestors[b] : Height[x] >= Height[a] => x \notin c.BlockIndex
     /\ \A x \in Ancestors[b] : Height[x] > Height[a] => x \in headersMap}

(* Mutant: the first block need not follow genesis.                        *)
AnyRun(S) == \A a, b \in S : Parent[a] = Parent[b] => a = b

(* The blocks of S follow each other from genesis without a gap.           *)
FromGenesis(S) ==
  /\ \A b \in S : Parent[b] \in S \cup {Genesis}
  /\ \A a, b \in S : Parent[a] = Parent[b] => a = b

(* The blocks of a path that buildChainFromBlocks applies before the first *)
(* one that fails.                                                         *)
Applied(path) ==
  IF FromGenesis(path)
  THEN {b \in path : \A a \in path :
          Height[a] <= Height[b] => TransactionsValid(a, "empty")}
  ELSE {}

(* buildChainFromBlocks, when every block of the path is applied.          *)
buildChainFromBlocks(path) ==
  LET c == AddBlocks(NewChain, path)
  IN  IF path = {} THEN c ELSE [c EXCEPT !.AccountStates.at = Highest(path)]

(* Mutant: the waiter is woken before the answer is stored.                *)
AnswersEarly(want) == SUBSET want

(* What a request for some blocks brings when it is answered: all of them, *)
(* or the answer of a peer that has none or only some.                     *)
Answers(want) ==
  {R \in SUBSET want :
     \/ R = want
     \/ R = {} /\ "empty" \in Faults
     \/ R # {} /\ "partial" \in Faults}

(* An object that nothing refers to any more.                              *)
FreeIds == Ids \ ({chains[t] : t \in Hashes} \cup {f.chain : f \in forkFetches})
FreshId == CHOOSE i \in FreeIds : TRUE

(***************************************************************************)
(* State.                                                                  *)
(***************************************************************************)
Idle == [pc |-> "idle", header |-> Genesis, from |-> "net",
         chain |-> NoChain, want |-> {}]

Proc == [pc : {"idle", "connect", "decide", "awaitBlock", "awaitBranch", "apply"},
         header : Hashes, from : Origins, chain : Ids \cup {NoChain},
         want : SUBSET Headers]

ForkFetch == [header : Headers, want : SUBSET Headers, chain : Ids]

(* NewNode: the genesis chain, whose Tip is the genesis block.             *)
GenesisChains == [t \in Hashes |-> IF t = Genesis THEN 1 ELSE NoChain]
GenesisHeap ==
  [i \in Ids |-> IF i = 1 THEN AddBlocks(NewChain, {Genesis}) ELSE NewChain]
NoCalls == [c \in Headers \X Origins |-> 0]
NoHeaders == [h \in Headers |-> 0]

Init ==
  /\ chains = GenesisChains /\ heap = GenesisHeap /\ currentChainTip = Genesis
  /\ headersMap = {Genesis} /\ blocksMap = {Genesis} /\ submittedBlocks = {}
  /\ orphanHeaders = NoHeaders /\ calls = NoCalls /\ proc = Idle
  /\ headerFetches = {} /\ blockFetches = {} /\ forkFetches = {}
  /\ announced = NoHeaders /\ sent = {} /\ crashed = FALSE
  /\ boots = 1

(* Mutant: orphan children are left to wait.                               *)
NoOrphanRetried(S) == calls

(* tryConnectOrphanChildren for each block of S: one goroutine for every   *)
(* orphan copy of a child.                                                 *)
tryConnectOrphanChildren(S) ==
  [c \in Headers \X Origins |->
     IF c[2] = "net" /\ Parent[c[1]] \in S
     THEN calls[c] + orphanHeaders[c[1]] ELSE calls[c]]

(* ProcessHeader returns and the lock is released.  The HTTP handler       *)
(* announces the header if there was no error; fetchParentForOrphan        *)
(* requests the block in any case.                                         *)
Return(h, from, ok) ==
  /\ proc' = Idle
  /\ sent' = IF from = "api" /\ ok THEN sent \cup {h} ELSE sent
  /\ blockFetches' = IF from = "fetch" THEN blockFetches \cup {h} ELSE blockFetches

(***************************************************************************)
(* Inputs.                                                                 *)
(***************************************************************************)
(* onHeaderAnnouncement: a peer announces h.                               *)
AnnounceHeader(h) ==
  /\ ~crashed
  /\ h \in Announced /\ announced[h] < MaxAnnounce
  /\ announced' = [announced EXCEPT ![h] = @ + 1]
  /\ calls' = [calls EXCEPT ![<<h, "net">>] = @ + 1]
  /\ UNCHANGED <<chainVars, indexVars, orphanHeaders, proc, fetchVars,
                 blockFetches, sent, crashed, boots>>

(* handleSubmitBlock: the block of a miner is stored, then its header is   *)
(* processed.  A block is mined, and submitted, once.                      *)
SubmitBlock(b) ==
  /\ ~crashed
  /\ b \in Mined \ submittedBlocks
  /\ submittedBlocks' = submittedBlocks \cup {b}
  /\ calls' = [calls EXCEPT ![<<b, "api">>] = @ + 1]
  /\ UNCHANGED <<chainVars, headersMap, blocksMap, orphanHeaders, proc,
                 fetchVars, blockFetches, sent, envVars>>

(* The process is stopped or has crashed, and is started again.            *)
Restart ==
  /\ boots < MaxBoots
  /\ boots' = boots + 1
  /\ chains' = GenesisChains /\ heap' = GenesisHeap /\ currentChainTip' = Genesis
  /\ headersMap' = {Genesis} /\ blocksMap' = {Genesis} /\ submittedBlocks' = {}
  /\ orphanHeaders' = NoHeaders /\ calls' = NoCalls /\ proc' = Idle
  /\ headerFetches' = {} /\ blockFetches' = {} /\ forkFetches' = {}
  /\ announced' = NoHeaders /\ sent' = {} /\ crashed' = FALSE

(***************************************************************************)
(* ProcessHeader, under headerProcessingMu.                                *)
(***************************************************************************)
(* The lock is taken; a malformed or known header ends the call.           *)
Begin(h, from) ==
  /\ ~crashed
  /\ proc.pc = "idle"
  /\ calls[<<h, from>>] > 0
  /\ calls' = [calls EXCEPT ![<<h, from>>] = @ - 1]
  /\ IF ~ValidateHeaderStructure(h) \/ checkHeaderExists(h)
     THEN Return(h, from, ValidateHeaderStructure(h))
     ELSE /\ proc' = [Idle EXCEPT !.pc = "connect", !.header = h, !.from = from]
          /\ UNCHANGED <<sent, blockFetches>>
  /\ UNCHANGED <<chainVars, indexVars, orphanHeaders, fetchVars, envVars>>

(* handleChainExtension up to the choice of its two cases: the header is   *)
(* added to chain object i, whose content is c, and its hash becomes the   *)
(* key of that chain.  retry: blocks whose orphan children are tried again.*)
handleChainExtension(h, i, c, retry) ==
  /\ heap' = [heap EXCEPT ![i] = [c EXCEPT !.Headers = @ \cup {h}]]
  /\ headersMap' = headersMap \cup {h}
  /\ calls' = tryConnectOrphanChildren(retry \cup {h})
  /\ orphanHeaders' =
       [orphanHeaders EXCEPT ![h] = IF @ > 0 THEN @ - 1 ELSE @]
  /\ chains' = [chains EXCEPT ![Parent[h]] = NoChain, ![h] = i]
  /\ proc' = [proc EXCEPT !.pc = "decide", !.chain = i]
  /\ UNCHANGED <<currentChainTip, blocksMap, submittedBlocks, fetchVars,
                 blockFetches, sent, envVars>>

ExtendTip ==
  LET h == proc.header IN
  /\ ~crashed
  /\ proc.pc = "connect"
  /\ findParentChain(h)
  /\ handleChainExtension(h, chains[Parent[h]], At(Parent[h]), {})

(* handleForkCreation, from chain t that holds the parent's block, when    *)
(* blocks on the way back are neither submitted nor indexed.               *)
FetchForFork(t) ==
  LET h == proc.header
      missing == {b \in ForkPath(Parent[h]) : ~GetBlock(b)}
  IN
  /\ ~crashed
  /\ proc.pc = "connect"
  /\ ~findParentChain(h)
  /\ t \in findParentBlock(h)
  /\ missing # {}
  /\ forkFetches' = forkFetches \cup
                      {[header |-> h, want |-> missing, chain |-> chains[t]]}
  /\ Return(h, proc.from, TRUE)
  /\ UNCHANGED <<chainVars, indexVars, orphanHeaders, calls, headerFetches, envVars>>

(* handleForkCreation with all blocks at hand: a new chain object is built *)
(* from genesis and extended, or a block fails and the header is dropped.  *)
CreateFork ==
  LET h == proc.header
      path == ForkPath(Parent[h])
  IN
  /\ ~crashed
  /\ proc.pc = "connect"
  /\ ~findParentChain(h)
  /\ findParentBlock(h) # {}
  /\ \A b \in path : GetBlock(b)
  /\ \/ /\ Applied(path) = path
        /\ FreeIds # {}
        /\ handleChainExtension(h, FreshId, buildChainFromBlocks(path), path)
     \/ /\ Applied(path) # path
        /\ calls' = tryConnectOrphanChildren(Applied(path))
        /\ Return(h, proc.from, FALSE)
        /\ UNCHANGED <<chainVars, indexVars, orphanHeaders, fetchVars, envVars>>

handleOrphanHeader ==
  LET h == proc.header IN
  /\ ~crashed
  /\ proc.pc = "connect"
  /\ ~findParentChain(h)
  /\ findParentBlock(h) = {}
  /\ orphanHeaders' = [orphanHeaders EXCEPT ![h] = @ + 1]
  /\ headerFetches' = headerFetches \cup ({Parent[h]} \ headersMap)
  /\ Return(h, proc.from, TRUE)
  /\ UNCHANGED <<chainVars, indexVars, calls, forkFetches, envVars>>

(* handleCurrentChainExtension: the block is at hand, or is requested.     *)
ExtendCurrent ==
  LET h == proc.header IN
  /\ ~crashed
  /\ proc.pc = "decide"
  /\ Parent[h] = currentChainTip
  /\ proc' = [proc EXCEPT !.pc = IF GetBlock(h) THEN "apply" ELSE "awaitBlock"]
  /\ UNCHANGED <<chainVars, indexVars, orphanHeaders, calls, fetchVars,
                 blockFetches, sent, envVars>>

(* handleCandidateChainExtension up to the request for the branch.         *)
ExtendCandidate ==
  LET h == proc.header
      want == HeadersToFetch(h, heap[proc.chain])
      worthIt == /\ currentChainTip \in Live
                 /\ At(currentChainTip).Tip # Nil
                 /\ TotalWork[h] > TotalWork[At(currentChainTip).Tip]
                 /\ want # {}
  IN
  /\ ~crashed
  /\ proc.pc = "decide"
  /\ Parent[h] # currentChainTip
  /\ \/ /\ worthIt
        /\ proc' = [proc EXCEPT !.pc = "awaitBranch", !.want = want]
        /\ UNCHANGED <<sent, blockFetches>>
     \/ /\ ~worthIt
        /\ Return(h, proc.from, TRUE)
  /\ UNCHANGED <<chainVars, indexVars, orphanHeaders, calls, fetchVars, envVars>>

(* No peer answers in time; the header stays where it was added.           *)
RequestTimesOut ==
  /\ ~crashed
  /\ proc.pc \in {"awaitBlock", "awaitBranch"}
  /\ "timeout" \in Faults
  /\ Return(proc.header, proc.from, TRUE)
  /\ UNCHANGED <<chainVars, indexVars, orphanHeaders, calls, fetchVars, envVars>>

(* The answer to the request of handleCurrentChainExtension.               *)
BlockArrives ==
  /\ ~crashed
  /\ proc.pc = "awaitBlock"
  /\ \E R \in Answers({proc.header}) :
       \/ /\ R # {}
          /\ proc' = [proc EXCEPT !.pc = "apply"]
          /\ UNCHANGED <<sent, blockFetches>>
       \/ R = {} /\ Return(proc.header, proc.from, TRUE)
  /\ UNCHANGED <<chainVars, indexVars, orphanHeaders, calls, fetchVars, envVars>>

(* handleCurrentChainExtension once it has the block: the block is         *)
(* validated and applied and becomes the head.                             *)
ApplyToCurrent ==
  LET h == proc.header  i == proc.chain IN
  /\ ~crashed
  /\ proc.pc = "apply"
  /\ ValidateBlock(h, heap[i]) = "ok"
  /\ heap' = [heap EXCEPT ![i] = ApplyBlock(h, @)]
  /\ blocksMap' = blocksMap \cup {h}
  /\ chains' = [t \in Hashes |->
                  IF t = h THEN i ELSE IF t = currentChainTip THEN NoChain ELSE chains[t]]
  /\ currentChainTip' = h
  /\ calls' = tryConnectOrphanChildren({h})
  /\ Return(h, proc.from, TRUE)
  /\ UNCHANGED <<headersMap, submittedBlocks, orphanHeaders, fetchVars, envVars>>

(* ... or it fails, and cleanupFailedHeader takes the header out again.    *)
cleanupFailedHeader ==
  LET h == proc.header  i == proc.chain  err == ValidateBlock(h, heap[i]) IN
  /\ ~crashed
  /\ proc.pc = "apply"
  /\ err # "ok"
  /\ heap' = [heap EXCEPT ![i].Headers = @ \ {h}]
  /\ headersMap' = headersMap \ {h}
  /\ chains' = [chains EXCEPT ![h] = NoChain, ![Parent[h]] = i]
  /\ orphanHeaders' = IF err = "ErrSwitchChain" THEN orphanHeaders
                      ELSE [orphanHeaders EXCEPT ![h] = @ + 1]
  /\ Return(h, proc.from, FALSE)
  /\ UNCHANGED <<currentChainTip, blocksMap, submittedBlocks, calls, fetchVars, envVars>>

(* cleanupCandidateChains: the keys it removes, when the chains are chs,   *)
(* the objects hp and the head tip.                                        *)
StaleChains(chs, hp, tip) ==
  LET top == Height[hp[chs[tip]].Tip]
      minHeight == IF top > Gap THEN top - Gap ELSE 0
  IN  {t \in Hashes \ {tip} : /\ chs[t] # NoChain
                              /\ hp[chs[t]].Tip # Nil
                              /\ Height[hp[chs[t]].Tip] < minHeight}

(* cleanupStaleOrphans: orphans lower than the tip of every chain.         *)
StaleOrphans(chs, hp) ==
  {h \in Headers :
     /\ \E t \in Hashes : chs[t] # NoChain /\ hp[chs[t]].Tip # Nil
     /\ \A t \in Hashes : chs[t] # NoChain /\ hp[chs[t]].Tip # Nil
                            => Height[h] < Height[hp[chs[t]].Tip]}

(* The chain object c after the blocks R of its branch were replayed on a  *)
(* scratch chain that starts at genesis with the coins of FirstUser.       *)
Replayed(c, R) ==
  [AddBlocks(AddBlocks(c, {Genesis}), R) EXCEPT
     !.AccountStates = [base |-> "credited", at |-> Highest(R)]]

ReplaySucceeds(R) ==
  FromGenesis(R) /\ \A b \in R : TransactionsValid(b, "credited")

(* The work comparison is repeated, with what has arrived, under chainsMu. *)
ShouldReorg(R) ==
  /\ currentChainTip \in Live
  /\ At(currentChainTip).Tip # Nil
  /\ TotalWork[Highest(R)] > TotalWork[At(currentChainTip).Tip]

(* The replay of the blocks R succeeded: they go to the chain object and   *)
(* the indices, and the branch becomes the head or a longer candidate.     *)
Adopts(R) ==
  LET h == proc.header
      i == proc.chain
      withTip == [chains EXCEPT ![Highest(R)] = i]
  IN
  /\ R # {}
  /\ ReplaySucceeds(R)
  /\ heap' = [heap EXCEPT ![i] = Replayed(@, R)]
  /\ headersMap' = headersMap \cup R
  /\ blocksMap' = blocksMap \cup R
  /\ calls' = tryConnectOrphanChildren(R)
  /\ \/ /\ ShouldReorg(R)
        /\ currentChainTip' = Highest(R)
        /\ chains' = [t \in Hashes |->
                        IF t \in StaleChains(withTip, heap', Highest(R))
                        THEN NoChain ELSE withTip[t]]
        /\ orphanHeaders' = [o \in Headers |->
                               IF o \in StaleOrphans(chains', heap')
                               THEN 0 ELSE orphanHeaders[o]]
     \/ /\ ~ShouldReorg(R)
        /\ chains' = [withTip EXCEPT ![Parent[h]] = NoChain]
        /\ UNCHANGED <<currentChainTip, orphanHeaders>>
  /\ Return(h, proc.from, TRUE)
  /\ UNCHANGED <<submittedBlocks, crashed>>

(* The rest of handleCandidateChainExtension, on the blocks that came.     *)
(* Nothing happens if the replay fails.  With no block at all, the code    *)
(* indexes an empty slice and panics.                                      *)
BranchArrives ==
  /\ ~crashed
  /\ proc.pc = "awaitBranch"
  /\ \E R \in Answers(proc.want) :
       \/ /\ R = {}
          /\ crashed' = TRUE
          /\ UNCHANGED <<chainVars, indexVars, orphanHeaders, calls, proc, sent,
                         blockFetches>>
       \/ /\ R # {} /\ ~ReplaySucceeds(R)
          /\ Return(proc.header, proc.from, TRUE)
          /\ UNCHANGED <<chainVars, indexVars, orphanHeaders, calls, crashed>>
       \/ Adopts(R)
  /\ UNCHANGED <<fetchVars, announced, boots>>

(***************************************************************************)
(* Background goroutines, which do not hold headerProcessingMu.            *)
(***************************************************************************)
(* fetchParentForOrphan gets the header p, and calls ProcessHeader.        *)
ParentHeaderArrives(p) ==
  /\ ~crashed
  /\ p \in headerFetches
  /\ headerFetches' = headerFetches \ {p}
  /\ calls' = [calls EXCEPT ![<<p, "fetch">>] = @ + 1]
  /\ UNCHANGED <<chainVars, indexVars, orphanHeaders, proc, forkFetches,
                 blockFetches, sent, envVars>>

(* It then gets the block p, and adds it to the chains that have its       *)
(* header: the index and the Tip of the object change, its ledger and the  *)
(* block index of the node do not.                                         *)
ParentBlockArrives(p) ==
  LET having == {chains[t] : t \in {u \in Live : p \in At(u).Headers}} IN
  /\ ~crashed
  /\ p \in blockFetches
  /\ blockFetches' = blockFetches \ {p}
  /\ heap' = [i \in Ids |-> IF i \in having THEN AddBlocks(heap[i], {p}) ELSE heap[i]]
  /\ UNCHANGED <<chains, currentChainTip, indexVars, orphanHeaders, calls, proc,
                 fetchVars, sent, envVars>>

(* fetchMissingBlocksForFork adds the blocks to the source chain's object  *)
(* and processes the header again.                                         *)
ForkBlocksArrive(f) ==
  /\ ~crashed
  /\ f \in forkFetches
  /\ forkFetches' = forkFetches \ {f}
  /\ \E R \in Answers(f.want) :
       heap' = [heap EXCEPT ![f.chain] = AddBlocks(@, R)]
  /\ calls' = [calls EXCEPT ![<<f.header, "net">>] = @ + 1]
  /\ UNCHANGED <<chains, currentChainTip, indexVars, orphanHeaders, proc,
                 headerFetches, blockFetches, sent, envVars>>

(* A background request times out, or the first answer holds nothing: the  *)
(* goroutine ends.  (A fork fetch goes on with an empty answer.)           *)
HeaderFetchFails(p) ==
  /\ ~crashed
  /\ {"timeout", "empty"} \cap Faults # {}
  /\ p \in headerFetches
  /\ headerFetches' = headerFetches \ {p}
  /\ UNCHANGED <<chainVars, indexVars, orphanHeaders, calls, proc, forkFetches,
                 blockFetches, sent, envVars>>

BlockFetchFails(p) ==
  /\ ~crashed
  /\ {"timeout", "empty"} \cap Faults # {}
  /\ p \in blockFetches
  /\ blockFetches' = blockFetches \ {p}
  /\ UNCHANGED <<chainVars, indexVars, orphanHeaders, calls, proc, fetchVars,
                 sent, envVars>>

ForkFetchFails(f) ==
  /\ ~crashed
  /\ "timeout" \in Faults
  /\ f \in forkFetches
  /\ forkFetches' = forkFetches \ {f}
  /\ UNCHANGED <<chainVars, indexVars, orphanHeaders, calls, proc, headerFetches,
                 blockFetches, sent, envVars>>

(***************************************************************************)
(* The specification.                                                      *)
(***************************************************************************)
(* The steps of the goroutine that holds headerProcessingMu.               *)
Connect == ExtendTip \/ (\E t \in Hashes : FetchForFork(t)) \/ CreateFork
           \/ handleOrphanHeader
Decide == ExtendCurrent \/ ExtendCandidate
Await == RequestTimesOut \/ BlockArrives \/ BranchArrives
Finish == ApplyToCurrent \/ cleanupFailedHeader

HeaderFetch(p) == ParentHeaderArrives(p) \/ HeaderFetchFails(p)
BlockFetch(p) == ParentBlockArrives(p) \/ BlockFetchFails(p)
ForkFetchEnds(f) == ForkBlocksArrive(f) \/ ForkFetchFails(f)

Next == \/ \E h \in Headers : AnnounceHeader(h) \/ SubmitBlock(h)
        \/ \E h \in Headers, from \in Origins : Begin(h, from)
        \/ Connect \/ Decide \/ Await \/ Finish
        \/ \E p \in Headers : HeaderFetch(p) \/ BlockFetch(p)
        \/ \E f \in forkFetches : ForkFetchEnds(f)
        \/ Restart

Spec == Init /\ [][Next]_vars

(* The Go scheduler runs every runnable goroutine, a request is answered   *)
(* or its timer fires, and sync.Mutex, which hands the lock over in order  *)
(* after a millisecond of waiting, starves no caller.                      *)
Fairness ==
  /\ WF_vars(Connect \/ Decide \/ Await \/ Finish)
  /\ \A h \in Headers : SF_vars(\E from \in Origins : Begin(h, from))
  /\ \A p \in Headers : WF_vars(HeaderFetch(p)) /\ WF_vars(BlockFetch(p))
  /\ \A h \in Headers :
       WF_vars(\E f \in forkFetches : f.header = h /\ ForkFetchEnds(f))

FairSpec == Spec /\ Fairness

(***************************************************************************)
(* Properties.                                                             *)
(***************************************************************************)
TypeOK ==
  /\ chains \in [Hashes -> Ids \cup {NoChain}]
  /\ heap \in [Ids -> Chain]
  /\ currentChainTip \in Hashes
  /\ headersMap \subseteq Hashes /\ Genesis \in headersMap
  /\ blocksMap \subseteq Hashes /\ Genesis \in blocksMap
  /\ submittedBlocks \subseteq Mined
  /\ orphanHeaders \in [Headers -> Nat]
  /\ calls \in [Headers \X Origins -> Nat]
  /\ proc \in Proc
  /\ proc.pc # "idle" => proc.header \in Headers
  /\ proc.pc \in {"decide", "awaitBlock", "awaitBranch", "apply"} => proc.chain \in Ids
  /\ headerFetches \subseteq Headers /\ blockFetches \subseteq Headers
  /\ forkFetches \subseteq ForkFetch
  /\ announced \in [Headers -> 0 .. MaxAnnounce]
  /\ sent \subseteq Headers
  /\ crashed \in BOOLEAN
  /\ boots \in 1 .. MaxBoots

(* The ledger of the current chain is the one of its head: the account     *)
(* states that transactions are checked against are those after applying   *)
(* exactly the blocks up to currentChainTip, although background fetches   *)
(* move the Tip of the same object and a reorganisation may leave two keys *)
(* for one object.                                                         *)
LedgerAtHead ==
  currentChainTip \in Live => At(currentChainTip).AccountStates.at = currentChainTip

(* The current chain object holds every block from its head to genesis.    *)
HeadOnItsChain ==
  currentChainTip \in Live =>
    Ancestors[currentChainTip] \subseteq At(currentChainTip).BlockIndex

(* Whatever head the node adopted, it can serve all blocks and headers of  *)
(* that branch from its global indices to a peer that synchronises.        *)
HeadServable ==
  Ancestors[currentChainTip] \subseteq blocksMap \cap headersMap

(* The head never moves to a block without more work, nor to a branch with *)
(* a block that fails validation: header processing implements ForkChoice. *)
HeadChoice == INSTANCE ForkChoice WITH head <- currentChainTip
HeadSpec == HeadChoice!Spec

(* getters.go: GetBlockAtHeight "retrieves a block at a specific height    *)
(* from the current chain".  But Chain.AddBlock overwrites the slot of a   *)
(* height with whatever block came last, and an object with two keys has   *)
(* headers of two branches, whose blocks a parent fetch may bring late.    *)
HeightIndexOnBranch ==
  currentChainTip \in Live =>
    \A b \in Ancestors[currentChainTip] \ {Genesis} :
      At(currentChainTip).Blocks[Height[b]] = b

(* node.go: currentChainTip "points to which chain is current".  Between   *)
(* two calls of ProcessHeader the head is the key of a chain, so that      *)
(* GetChainHead and later work comparisons find it.                        *)
HeadPresent == proc.pc = "idle" => currentChainTip \in Live

(* No answer of the peers makes a goroutine of the node panic.             *)
NoPanic == ~crashed

(* Retries end: after the last input the node comes to rest, with no call  *)
(* of ProcessHeader waiting, although orphans, fork fetches and parent     *)
(* fetches all call it again.                                              *)
ComesToRest ==
  <>[](crashed \/ (proc.pc = "idle" /\ \A c \in DOMAIN calls : calls[c] = 0))

(* All headers are announced, or their blocks submitted, in some order.    *)
SyncSpec ==
  FairSpec /\ \A h \in Headers : WF_vars(AnnounceHeader(h)) /\ WF_vars(SubmitBlock(h))

(* A node that has heard of every header ends with a head of most work.    *)
Synced == <>[](\A h \in Headers : TotalWork[h] <= TotalWork[currentChainTip])

(***************************************************************************)
(* The inductive invariant behind them.                                    *)
(***************************************************************************)
(* Object i is a chain on which the head can stand.                        *)
CarriesHead(i) ==
  /\ Ancestors[currentChainTip] \subseteq heap[i].BlockIndex
  /\ currentChainTip \in heap[i].Headers
  /\ heap[i].Tip = Nil => currentChainTip = Genesis
  /\ heap[i].Tip # Nil => Height[heap[i].Tip] >= Height[currentChainTip]
  /\ heap[i].AccountStates.at = currentChainTip

Extending == proc.pc \in {"decide", "awaitBlock", "apply"}

(* The holder of the lock works on the object under its header's key; when *)
(* it extends the head, that object carries the head.                      *)
ProcInv ==
  /\ proc.pc # "idle" => proc.header # currentChainTip
  /\ proc.pc = "connect" => chains[proc.header] = NoChain
  /\ proc.pc \notin {"idle", "connect"} => chains[proc.header] = proc.chain
  /\ Extending /\ Parent[proc.header] = currentChainTip => CarriesHead(proc.chain)
  /\ proc.pc \in {"awaitBlock", "apply"} => Parent[proc.header] = currentChainTip
  /\ proc.pc = "awaitBranch" => /\ Parent[proc.header] # currentChainTip
                                /\ currentChainTip \in Live
                                /\ proc.want \subseteq Ancestors[proc.header]

(* The key of a chain without the header that is being added to it.        *)
SettledKey(t) == IF Extending /\ t = proc.header THEN Parent[t] ELSE t

(* Two keys of one chain object both lie above a block it holds, other     *)
(* than genesis: such an object is never replayed from genesis again.      *)
AliasInv ==
  \A t, u \in Live : t # u /\ chains[t] = chains[u] =>
    (Ancestors[SettledKey(t)] \ {Genesis}) \cap At(t).BlockIndex # {}

(* So a branch requested for the object of the head is without its root.   *)
WantInv ==
  proc.pc = "awaitBranch" /\ chains[currentChainTip] = proc.chain =>
    \E x \in Ancestors[proc.header] \ {Genesis} :
      \A a \in proc.want : Height[x] < Height[a]

(* The head's block, its branch and its chain object fit together; the     *)
(* head's header is always under the key of some chain.                    *)
HeadInv ==
  /\ currentChainTip \in Live => CarriesHead(chains[currentChainTip])
  /\ \E t \in Live : currentChainTip \in Ancestors[t] /\ currentChainTip \in At(t).Headers
  /\ \A t \in Live : t \in At(t).Headers /\ t \in headersMap
  /\ HeadServable
  /\ SoundBranch(currentChainTip)

Inv == HeadInv /\ ProcInv /\ AliasInv /\ WantInv
IInv == TypeOK /\ Inv

(* With answers to all requests: only the header that is being added to    *)
(* the head's chain takes the head's key, and gives it back or replaces it.*)
KeyInv ==
  \/ currentChainTip \in Live
  \/ Extending /\ Parent[proc.header] = currentChainTip

(* A branch is requested only if a block of it is missing.                 *)
RequestInv == ~crashed /\ (proc.pc = "awaitBranch" => proc.want # {})
=============================================================================
