-------------------------- MODULE NodeSafetyProofs --------------------------
(***************************************************************************)
(* The safety of header processing: IInv is inductive.                     *)
(***************************************************************************)
EXTENDS NodeProofs

(* A leaf is proved by Zenon, unless it names SMT for its arithmetic, its  *)
(* sequences or its records, or PTL.                                       *)
USE Zenon

(***************************************************************************)
(* Steps that leave chains, their objects, the head and the indices alone. *)
(***************************************************************************)
(* The settled key of a chain is its key or that key's parent.             *)
LEMMA SettledBelow ==
  ASSUME TypeOK, NEW t \in Hashes
  PROVE  SettledKey(t) \in Hashes /\ Ancestors[SettledKey(t)] \subseteq Ancestors[t]
<1>1. CASE Extending /\ t = proc.header
  <2>1. t \in Headers
    BY <1>1 DEF TypeOK, Extending
  <2> QED
    BY <1>1, <2>1, AncestorsStep DEF SettledKey
<1>2. CASE ~ (Extending /\ t = proc.header)
  BY <1>2 DEF SettledKey
<1> QED
  BY <1>1, <1>2

(* What does not depend on the holder of the lock stays.                   *)
LEMMA HeadInvStays ==
  ASSUME HeadInv, UNCHANGED <<chains, heap, currentChainTip, headersMap, blocksMap>>
  PROVE  HeadInv'
BY DEF HeadInv, Live, At, CarriesHead, HeadServable, SoundBranch

(* The holder is not touched either.                                       *)
LEMMA HolderStays ==
  ASSUME Inv, UNCHANGED <<chains, heap, currentChainTip, headersMap, blocksMap, proc>>
  PROVE  Inv'
<1>1. HeadInv'
  BY HeadInvStays DEF Inv
<1>2. ProcInv'
  BY DEF Inv, ProcInv, Live, CarriesHead, Extending
<1>3. AliasInv'
  BY DEF Inv, AliasInv, Live, At, SettledKey, Extending
<1>4. WantInv'
  BY DEF Inv, WantInv
<1> QED
  BY <1>1, <1>2, <1>3, <1>4 DEF Inv

(* Aliased objects stay above a common block when no header is being added *)
(* after the step.                                                         *)
LEMMA AliasSettles ==
  ASSUME TypeOK, AliasInv, UNCHANGED <<chains, heap>>, ~ Extending'
  PROVE  AliasInv'
<1> SUFFICES ASSUME NEW t \in Live', NEW u \in Live', t # u, chains'[t] = chains'[u]
             PROVE  (Ancestors[SettledKey(t)'] \ {Genesis}) \cap (At(t)').BlockIndex # {}
  BY DEF AliasInv
<1>1. t \in Hashes /\ t \in Live /\ u \in Live /\ SettledKey(t)' = t
  BY DEF Live, SettledKey
<1>2. (Ancestors[SettledKey(t)] \ {Genesis}) \cap At(t).BlockIndex # {}
  BY <1>1 DEF AliasInv
<1>3. At(t)' = At(t)
  BY DEF At
<1> QED
  BY <1>1, <1>2, <1>3, SettledBelow

(* ProcessHeader returns without a change.                                 *)
LEMMA HolderReturns ==
  ASSUME IInv, UNCHANGED <<chains, heap, currentChainTip, headersMap, blocksMap>>,
         proc' = Idle
  PROVE  Inv'
<1>0. proc'.pc = "idle"
  BY InitialValues
<1>1. HeadInv'
  BY HeadInvStays DEF IInv, Inv
<1>2. ~ Extending' /\ ProcInv' /\ WantInv'
  BY <1>0 DEF Extending, ProcInv, WantInv
<1>3. AliasInv'
  BY <1>2, AliasSettles DEF IInv, Inv
<1> QED
  BY <1>1, <1>2, <1>3 DEF Inv

(* Background fetches add blocks to chain objects.                         *)
LEMMA ObjectsGrow ==
  ASSUME IInv, heap' \in [Ids -> Chain],
         UNCHANGED <<chains, currentChainTip, headersMap, blocksMap, proc>>,
         \A i \in Ids : \E S \in SUBSET Hashes : heap'[i] = AddBlocks(heap[i], S)
  PROVE  Inv'
<1> USE DEF IInv, Inv
<1>1. ASSUME NEW i \in Ids
      PROVE  /\ heap[i].BlockIndex \subseteq heap'[i].BlockIndex
             /\ heap[i].Headers \subseteq heap'[i].Headers
             /\ CarriesHead(i) => CarriesHead(i)'
  <2>0. heap[i] \in Chain /\ currentChainTip \in Hashes
    BY DEF TypeOK
  <2>1. PICK S \in SUBSET Hashes : heap'[i] = AddBlocks(heap[i], S)
    OBVIOUS
  <2> DEFINE c == heap[i]  d == heap'[i]
  <2>2. /\ d \in Chain
        /\ d.BlockIndex = c.BlockIndex \cup S
        /\ d.Headers = c.Headers \cup S
        /\ d.AccountStates = c.AccountStates
        /\ c.Tip # Nil => d.Tip # Nil /\ Height[d.Tip] >= Height[c.Tip]
    BY <2>0, <2>1, AddBlocksEffect, SMT
  <2>3. /\ c.Tip # Nil => Height[c.Tip] \in Nat
        /\ d.Tip # Nil => Height[d.Tip] \in Nat
        /\ Height[currentChainTip] \in Nat /\ Height[Genesis] = 0
    BY <2>0, <2>2, TreeAssumption, SMT DEF Chain, Heights
  <2> QED
    BY <2>2, <2>3, SMT DEF CarriesHead
<1>2. \A t \in Live : t \in Hashes /\ chains[t] \in Ids
  BY DEF Live, TypeOK
<1>3. HeadInv'
  BY <1>1, <1>2 DEF HeadInv, Live, At, HeadServable, SoundBranch
<1>4. ProcInv'
  <2>1. Extending => proc.chain \in Ids
    BY DEF TypeOK, Extending
  <2> QED
    BY <1>1, <2>1 DEF ProcInv, Live, Extending
<1>5. AliasInv'
  BY <1>1, <1>2, SMT DEF AliasInv, Live, At, SettledKey, Extending
<1>6. WantInv'
  BY DEF WantInv
<1> QED
  BY <1>3, <1>4, <1>5, <1>6

(***************************************************************************)
(* A header is added to a chain object.                                    *)
(***************************************************************************)
(* The chain that buildChainFromBlocks makes for the parent p of a header. *)
LEMMA BuiltChain ==
  ASSUME IInv, NEW p \in Hashes, Applied(ForkPath(p)) = ForkPath(p)
  PROVE  LET c == buildChainFromBlocks(ForkPath(p)) IN
         /\ p \in Live /\ currentChainTip \in Ancestors[p] => currentChainTip \in c.Headers
         /\ p = currentChainTip =>
              /\ Ancestors[p] \subseteq c.BlockIndex
              /\ p \in c.Headers
              /\ c.Tip = Nil => p = Genesis
              /\ c.Tip # Nil => Height[c.Tip] >= Height[p]
              /\ c.AccountStates.at = p
<1> USE DEF IInv, Inv
<1> DEFINE path == ForkPath(p)
           d == AddBlocks(NewChain, path)
           c == buildChainFromBlocks(path)
<1>0. Ancestors[p] \subseteq Hashes /\ p \in Ancestors[p]
  BY AncestorsClosed
<1>1. path \subseteq Headers /\ path \subseteq Hashes /\ path \subseteq Ancestors[p]
  BY PathType DEF Hashes, ForkPath
<1>2. \A a \in Hashes : Height[a] \in Nat
  BY TreeAssumption, SMT DEF Heights
<1>3. /\ d \in Chain
      /\ d.BlockIndex = {Genesis} \cup path
      /\ d.Headers = {Genesis} \cup path
      /\ d.AccountStates.at = Genesis
      /\ \A b \in path : d.Tip # Nil /\ Height[d.Tip] >= Height[b]
  <2>1. /\ NewChain.BlockIndex = {Genesis} /\ NewChain.Headers = {Genesis}
        /\ NewChain.AccountStates.at = Genesis
    BY DEF NewChain
  <2> QED
    BY <1>1, <2>1, NewChainType, AddBlocksEffect
<1>4. /\ c.BlockIndex = d.BlockIndex /\ c.Headers = d.Headers /\ c.Tip = d.Tip
      /\ path = {} => c = d
      /\ path # {} => c.AccountStates.at = Highest(path)
  BY <1>3 DEF buildChainFromBlocks, Chain
<1>5. ASSUME p \in headersMap, p # Genesis PROVE p \in path
  <2>1. ASSUME NEW x \in Ancestors[p] \ {Genesis}, Height[x] >= Height[p]
        PROVE  x \in headersMap
    BY <1>0, <1>2, <1>5, <2>1, AncestorsLower, SMT
  <2> QED
    BY <1>0, <1>5, <2>1 DEF ForkPath
<1>6. ASSUME p \in Live, currentChainTip \in Ancestors[p] PROVE currentChainTip \in c.Headers
  <2>1. CASE p = Genesis
    BY <1>3, <1>4, <1>6, <2>1, AncestorsGenesis
  <2>2. CASE p # Genesis
    <3>1. p \in path
      BY <1>5, <1>6, <2>2 DEF HeadInv
    <3>2. FromGenesis(path)
      BY <3>1 DEF Applied
    <3>3. Ancestors[p] \subseteq path \cup {Genesis}
      BY <1>1, <3>1, <3>2, ClosedRun DEF FromGenesis
    <3> QED
      BY <1>3, <1>4, <1>6, <3>3
  <2> QED
    BY <2>1, <2>2
<1>7. ASSUME p = currentChainTip
      PROVE  /\ Ancestors[p] \subseteq c.BlockIndex
             /\ p \in c.Headers
             /\ c.Tip = Nil => p = Genesis
             /\ c.Tip # Nil => Height[c.Tip] >= Height[p]
             /\ c.AccountStates.at = p
  <2>1. Ancestors[p] \subseteq headersMap
    BY <1>7 DEF HeadInv, HeadServable
  <2>2. path = Ancestors[p] \ {Genesis}
    BY <2>1 DEF ForkPath
  <2>3. CASE p = Genesis
    <3>1. path = {}
      BY <2>2, <2>3, AncestorsGenesis
    <3>2. d = NewChain
      BY <3>1 DEF AddBlocks
    <3> QED
      BY <1>3, <1>4, <2>3, <3>1, <3>2, AncestorsGenesis, SMT DEF NewChain
  <2>4. CASE p # Genesis
    <3>1. p \in path
      BY <1>0, <2>2, <2>4
    <3>2. Highest(path) \in path /\ Height[p] <= Height[Highest(path)]
      BY <1>1, <3>1, HighestIsHighest
    <3>3. Highest(path) = p
      <4>1. Height[Highest(path)] \in Nat /\ Height[p] \in Nat /\ Highest(path) \in Ancestors[p]
        BY <1>1, <1>2, <3>2
      <4>2. Highest(path) # p => Height[Highest(path)] < Height[p]
        BY <4>1, AncestorsLower
      <4> QED
        BY <3>2, <4>1, <4>2, SMT
    <3> QED
      BY <1>3, <1>4, <2>2, <3>1, <3>3
  <2> QED
    BY <2>3, <2>4
<1> QED
  BY <1>6, <1>7

(* The header's chain is the one under its parent, or a new object that    *)
(* stands in for it.                                                       *)
LEMMA HeaderAdded ==
  ASSUME IInv, proc.pc = "connect", NEW i \in Ids, NEW c \in Chain, NEW S,
         handleChainExtension(proc.header, i, c, S),
         \/ chains[Parent[proc.header]] = i /\ c = heap[i]
         \/ /\ \A t \in Hashes : chains[t] # i
            /\ LET p == Parent[proc.header] IN
               /\ p \in Live /\ currentChainTip \in Ancestors[p] =>
                    currentChainTip \in c.Headers
               /\ p = currentChainTip =>
                    /\ Ancestors[p] \subseteq c.BlockIndex
                    /\ p \in c.Headers
                    /\ c.Tip = Nil => p = Genesis
                    /\ c.Tip # Nil => Height[c.Tip] >= Height[p]
                    /\ c.AccountStates.at = p
  PROVE  Inv'
<1> USE DEF IInv, Inv
<1> DEFINE h == proc.header  p == Parent[h]  cur == currentChainTip
           e == [c EXCEPT !.Headers = @ \cup {h}]
<1>0. h \in Headers /\ h \in Hashes /\ p \in Hashes /\ h # p /\ cur \in Hashes /\ i # NoChain
  BY TreeAssumption, AncestorsStep, SMT DEF TypeOK, Hashes, Ids, NoChain, Heights
<1>1. /\ chains' = [chains EXCEPT ![p] = NoChain, ![h] = i]
      /\ heap' = [heap EXCEPT ![i] = e]
      /\ headersMap' = headersMap \cup {h} /\ blocksMap' = blocksMap
      /\ currentChainTip' = cur
      /\ proc' = [proc EXCEPT !.pc = "decide", !.chain = i]
  BY DEF handleChainExtension
<1>2. /\ e.BlockIndex = c.BlockIndex /\ e.Headers = c.Headers \cup {h}
      /\ e.Tip = c.Tip /\ e.AccountStates = c.AccountStates
  BY DEF Chain
<1>3. /\ \A t \in Hashes : chains'[t] = IF t = h THEN i ELSE IF t = p THEN NoChain ELSE chains[t]
      /\ \A j \in Ids : heap'[j] = IF j = i THEN e ELSE heap[j]
  BY <1>0, <1>1 DEF TypeOK
<1>4. cur # h /\ chains[h] = NoChain
  BY DEF ProcInv
<1>5. /\ proc'.pc = "decide" /\ proc'.header = h /\ proc'.chain = i
      /\ Extending' /\ ~ Extending
  BY <1>1 DEF TypeOK, Proc, Extending
<1> HIDE DEF h, p, e
<1>6. ASSUME NEW t \in Live', t # h
      PROVE  /\ t \in Live /\ t \in Hashes /\ t # p
             /\ chains'[t] = chains[t] /\ chains[t] \in Ids
             /\ heap'[chains[t]].BlockIndex = heap[chains[t]].BlockIndex
             /\ heap[chains[t]].Headers \subseteq heap'[chains[t]].Headers
             /\ heap'[chains[t]].Tip = heap[chains[t]].Tip
             /\ heap'[chains[t]].AccountStates = heap[chains[t]].AccountStates
             /\ chains[t] = i => chains[p] = i
  <2>1. t \in Hashes /\ chains'[t] # NoChain
    BY DEF Live
  <2>2. t # p /\ chains'[t] = chains[t]
    BY <1>3, <1>6, <2>1
  <2>3. t \in Live /\ chains[t] \in Ids
    BY <2>1, <2>2 DEF Live, TypeOK
  <2>4. chains[t] = i => c = heap[i] /\ chains[p] = i
    BY <2>1 DEF h, p
  <2> QED
    BY <1>2, <1>3, <2>1, <2>2, <2>3, <2>4
<1>7. h \in Live' /\ chains'[h] = i /\ heap'[i] = e
  BY <1>0, <1>3 DEF Live
<1>8. HeadInv'
  <2>1. ASSUME cur \in Live' PROVE CarriesHead(chains[currentChainTip])'
    <3>1. CarriesHead(chains[cur])
      BY <1>4, <1>6, <2>1 DEF HeadInv
    <3>2. PICK j \in Ids : j = chains[cur] /\ chains'[cur] = j
      BY <1>4, <1>6, <2>1
    <3>3. /\ heap'[j].BlockIndex = heap[j].BlockIndex
          /\ heap[j].Headers \subseteq heap'[j].Headers
          /\ heap'[j].Tip = heap[j].Tip
          /\ heap'[j].AccountStates = heap[j].AccountStates
      BY <1>4, <1>6, <2>1, <3>2, SMT
    <3>4. currentChainTip' = currentChainTip
      BY <1>1
    <3> QED
      BY <3>1, <3>2, <3>3, <3>4 DEF CarriesHead
  <2>2. \E t \in Live' : cur \in Ancestors[t] /\ cur \in heap'[chains'[t]].Headers
    <3>1. PICK t \in Live : cur \in Ancestors[t] /\ cur \in At(t).Headers
      BY DEF HeadInv
    <3>2. t \in Hashes /\ t # h /\ chains[t] # NoChain
      BY <1>4, <3>1 DEF Live
    <3>3. CASE t # p
      <4>1. t \in Live'
        BY <1>3, <3>2, <3>3 DEF Live
      <4> QED
        BY <1>6, <3>1, <3>2, <4>1 DEF At
    <3>4. CASE t = p
      <4>1. cur \in Ancestors[h]
        BY <1>0, <3>1, <3>4, AncestorsStep DEF p
      <4>2. cur \in c.Headers
        BY <3>1, <3>4 DEF At, p, h
      <4> QED
        BY <1>2, <1>7, <4>1, <4>2
    <3> QED
      BY <3>3, <3>4
  <2>3. ASSUME NEW t \in Live' PROVE t \in heap'[chains'[t]].Headers /\ t \in headersMap'
    <3>1. CASE t = h
      BY <1>1, <1>2, <1>7, <3>1
    <3>2. CASE t # h
      BY <1>1, <1>6, <3>2 DEF HeadInv, At
    <3> QED
      BY <3>1, <3>2
  <2>4. HeadServable' /\ SoundBranch(currentChainTip)'
    BY <1>1 DEF HeadInv, HeadServable, SoundBranch
  <2> QED
    BY <1>1, <2>1, <2>2, <2>3, <2>4 DEF HeadInv, At
<1>9. ProcInv'
  <2>1. ASSUME p = cur PROVE CarriesHead(i)'
    <3>1. CASE chains[p] = i /\ c = heap[i]
      <4>1. CarriesHead(i)
        BY <1>0, <2>1, <3>1 DEF HeadInv, Live
      <4> QED
        BY <1>1, <1>2, <1>7, <3>1, <4>1 DEF CarriesHead
    <3>2. CASE ~ (chains[p] = i /\ c = heap[i])
      BY <1>1, <1>2, <1>7, <2>1, <3>2 DEF CarriesHead, p, h
    <3> QED
      BY <3>1, <3>2
  <2> QED
    BY <1>1, <1>4, <1>5, <1>7, <2>1 DEF ProcInv, p
<1>10. AliasInv'
  <2> SUFFICES ASSUME NEW t \in Live', NEW u \in Live', t # u, chains'[t] = chains'[u]
               PROVE  (Ancestors[SettledKey(t)'] \ {Genesis}) \cap heap'[chains'[t]].BlockIndex # {}
    BY DEF AliasInv, At
  <2>1. \A x : SettledKey(x)' = IF x = h THEN p ELSE x
    BY <1>5 DEF SettledKey, p
  <2>2. \A x : SettledKey(x) = x
    BY <1>5 DEF SettledKey
  <2>3. CASE t = h
    <3>1. u \in Live /\ chains[u] = i /\ u # p /\ chains[p] = i
      BY <1>6, <1>7, <2>3
    <3>2. p \in Live /\ c = heap[i]
      <4>1. p \in Live
        BY <1>0, <3>1 DEF Live
      <4> QED
        BY <1>0, <3>1, <4>1 DEF p, h
    <3>3. (Ancestors[p] \ {Genesis}) \cap heap[i].BlockIndex # {}
      BY <2>2, <3>1, <3>2 DEF AliasInv, At
    <3> QED
      BY <1>2, <1>7, <2>1, <2>3, <3>2, <3>3
  <2>4. CASE t # h /\ u = h
    <3>1. t \in Live /\ chains[t] = i /\ t # p /\ chains[p] = i
      BY <1>6, <1>7, <2>4
    <3>2. p \in Live
      BY <1>0, <3>1 DEF Live
    <3>3. (Ancestors[t] \ {Genesis}) \cap heap[i].BlockIndex # {}
      BY <2>2, <3>1, <3>2 DEF AliasInv, At
    <3> QED
      BY <1>6, <2>1, <2>4, <3>1, <3>3
  <2>5. CASE t # h /\ u # h
    <3>1. t \in Live /\ u \in Live /\ chains[t] = chains[u]
      BY <1>6, <2>5
    <3>2. AliasInv
      BY DEF IInv, Inv
    <3>3. (Ancestors[SettledKey(t)] \ {Genesis}) \cap heap[chains[t]].BlockIndex # {}
      BY <3>1, <3>2 DEF AliasInv, At
    <3>4. (Ancestors[t] \ {Genesis}) \cap heap[chains[t]].BlockIndex # {}
      BY <2>2, <3>3
    <3>5. SettledKey(t)' = t
      BY <2>1, <2>5
    <3>6. chains'[t] = chains[t] /\ heap'[chains[t]].BlockIndex = heap[chains[t]].BlockIndex
      BY <1>6, <2>5
    <3> HIDE DEF IInv, Inv
    <3> QED
      BY <3>4, <3>5, <3>6, ZenonT(30)
  <2> QED
    BY <2>3, <2>4, <2>5
<1>11. WantInv'
  BY <1>5 DEF WantInv
<1> QED
  BY <1>8, <1>9, <1>10, <1>11

(***************************************************************************)
(* The block of a header that extends the head.                            *)
(***************************************************************************)
LEMMA HeadExtended ==
  ASSUME IInv, ApplyToCurrent
  PROVE  Inv'
<1> USE DEF IInv, Inv
<1> DEFINE h == proc.header  i == proc.chain  p == currentChainTip
           b == [heap[i] EXCEPT !.AccountStates.at = h]
<1>0. h \in Headers /\ h \in Hashes /\ i \in Ids /\ p \in Hashes /\ i # NoChain
  BY SMT DEF TypeOK, ApplyToCurrent, Hashes, Ids, NoChain
<1>1. Parent[h] = p /\ h # p /\ chains[h] = i /\ CarriesHead(i) /\ h \in Live
  BY <1>0 DEF ProcInv, Extending, ApplyToCurrent, Live
<1>2. h \notin Bad
  BY DEF ApplyToCurrent, ValidateBlock, TransactionsValid
<1>3. /\ currentChainTip' = h /\ headersMap' = headersMap /\ blocksMap' = blocksMap \cup {h}
      /\ proc'.pc = "idle" /\ heap' = [heap EXCEPT ![i] = ApplyBlock(h, heap[i])]
  BY InitialValues DEF ApplyToCurrent, Return
<1>4. \A t \in Hashes : chains'[t] = IF t = h THEN i ELSE IF t = p THEN NoChain ELSE chains[t]
  BY DEF ApplyToCurrent
<1>5. \A j \in Ids : heap'[j] = IF j = i THEN AddBlocks(b, {h}) ELSE heap[j]
  BY <1>0, <1>3 DEF TypeOK, ApplyBlock
<1>6. /\ b \in Chain /\ b.BlockIndex = heap[i].BlockIndex /\ b.Headers = heap[i].Headers
      /\ b.AccountStates.at = h
  <2>1. heap[i] \in Chain /\ h \in Hashes
    BY <1>0 DEF TypeOK
  <2> HIDE DEF IInv, Inv, i, h
  <2> QED
    BY <2>1 DEF Chain
<1> HIDE DEF b, h, i
<1>7. /\ heap'[i].BlockIndex = heap[i].BlockIndex \cup {h}
      /\ heap'[i].Headers = heap[i].Headers \cup {h}
      /\ heap'[i].AccountStates.at = h
      /\ heap'[i].Tip # Nil /\ Height[heap'[i].Tip] >= Height[h]
  BY <1>0, <1>5, <1>6, AddBlocksEffect, SMT
<1>8. Ancestors[h] = {h} \cup Ancestors[p]
  BY <1>0, <1>1, AncestorsStep
<1>9. ASSUME NEW t \in Live'
      PROVE  /\ t \in Live /\ t \in Hashes /\ chains'[t] = chains[t] /\ chains[t] \in Ids
             /\ heap[chains[t]].BlockIndex \subseteq heap'[chains[t]].BlockIndex
             /\ heap[chains[t]].Headers \subseteq heap'[chains[t]].Headers
  <2>1. t \in Hashes /\ chains'[t] # NoChain
    BY DEF Live
  <2>2. chains'[t] = chains[t] /\ t \in Live
    BY <1>1, <1>4, <2>1 DEF Live
  <2> QED
    BY <1>5, <1>7, <2>1, <2>2 DEF TypeOK, Live
<1>10. HeadInv'
  <2>1. CarriesHead(i)
    BY <1>1
  <2>2. chains'[currentChainTip'] = i /\ h \in Live' /\ h \in Ancestors[h]
    BY <1>0, <1>3, <1>4, AncestorsClosed DEF Live
  <2>3. CarriesHead(chains[currentChainTip])'
    BY <1>3, <1>7, <1>8, <2>1, <2>2 DEF CarriesHead
  <2>4. \E t \in Live' : h \in Ancestors[t] /\ h \in heap'[chains'[t]].Headers
    BY <1>3, <1>7, <2>2
  <2>5. \A t \in Live' : t \in heap'[chains'[t]].Headers /\ t \in headersMap'
    BY <1>3, <1>9 DEF HeadInv, At
  <2>6. HeadServable'
    BY <1>1, <1>3, <1>8 DEF HeadInv, HeadServable
  <2>7. SoundBranch(currentChainTip)'
    BY <1>2, <1>3, <1>8 DEF HeadInv, SoundBranch
  <2> QED
    BY <1>3, <2>3, <2>4, <2>5, <2>6, <2>7 DEF HeadInv, At
<1>11. ProcInv' /\ WantInv' /\ ~ Extending'
  BY <1>3 DEF ProcInv, WantInv, Extending
<1>12. AliasInv'
  <2> SUFFICES ASSUME NEW t \in Live', NEW u \in Live', t # u, chains'[t] = chains'[u]
               PROVE  (Ancestors[SettledKey(t)'] \ {Genesis}) \cap heap'[chains'[t]].BlockIndex # {}
    BY DEF AliasInv, At
  <2>1. SettledKey(t)' = t
    BY <1>11 DEF SettledKey
  <2>2. (Ancestors[SettledKey(t)] \ {Genesis}) \cap heap[chains[t]].BlockIndex # {}
    BY <1>9 DEF AliasInv, At
  <2>3. Ancestors[SettledKey(t)] \subseteq Ancestors[t]
    BY <1>9, SettledBelow
  <2> QED
    BY <1>9, <2>1, <2>2, <2>3
<1> QED
  BY <1>10, <1>11, <1>12

(* The block fails validation, and cleanupFailedHeader gives the chain     *)
(* back to the key it had before.                                          *)
LEMMA HeaderDropped ==
  ASSUME IInv, cleanupFailedHeader
  PROVE  Inv'
<1> USE DEF IInv, Inv
<1> DEFINE h == proc.header  i == proc.chain  p == currentChainTip
           b == [heap[i] EXCEPT !.Headers = @ \ {h}]
<1>0. h \in Headers /\ h \in Hashes /\ i \in Ids /\ p \in Hashes /\ i # NoChain
  BY SMT DEF TypeOK, cleanupFailedHeader, Hashes, Ids, NoChain
<1>1. Parent[h] = p /\ h # p /\ chains[h] = i /\ CarriesHead(i) /\ h \in Live
  BY <1>0 DEF ProcInv, Extending, cleanupFailedHeader, Live
<1>2. /\ currentChainTip' = p /\ headersMap' = headersMap \ {h} /\ blocksMap' = blocksMap
      /\ proc'.pc = "idle" /\ heap' = [heap EXCEPT ![i] = b]
      /\ chains' = [chains EXCEPT ![h] = NoChain, ![p] = i]
  BY <1>1, InitialValues DEF cleanupFailedHeader, Return
<1>3. \A t \in Hashes : chains'[t] = IF t = p THEN i ELSE IF t = h THEN NoChain ELSE chains[t]
  BY <1>0, <1>2 DEF TypeOK
<1>4. \A j \in Ids : heap'[j] = IF j = i THEN b ELSE heap[j]
  BY <1>0, <1>2 DEF TypeOK
<1>5. /\ b.BlockIndex = heap[i].BlockIndex /\ b.Headers = heap[i].Headers \ {h}
      /\ b.Tip = heap[i].Tip /\ b.AccountStates = heap[i].AccountStates
  BY <1>0 DEF TypeOK, Chain
<1>6. Extending /\ SettledKey(h) = p /\ \A x : x # h => SettledKey(x) = x
  BY <1>1 DEF cleanupFailedHeader, Extending, SettledKey
<1> HIDE DEF b, h, i
<1>7. ASSUME NEW t \in Live', t # p
      PROVE  /\ t \in Live /\ t \in Hashes /\ t # h /\ chains'[t] = chains[t] /\ chains[t] \in Ids
             /\ heap'[chains[t]].BlockIndex = heap[chains[t]].BlockIndex
             /\ heap[chains[t]].Headers \ {h} \subseteq heap'[chains[t]].Headers
  <2>1. t \in Hashes /\ chains'[t] # NoChain
    BY DEF Live
  <2>2. chains'[t] = chains[t] /\ t \in Live /\ t # h
    BY <1>3, <1>7, <2>1 DEF Live
  <2> QED
    BY <1>4, <1>5, <2>1, <2>2 DEF TypeOK, Live
<1>8. p \in Live' /\ chains'[p] = i /\ heap'[i] = b
  BY <1>0, <1>3, <1>4 DEF Live
<1>9. HeadInv'
  <2>1. CarriesHead(chains[currentChainTip])'
    BY <1>1, <1>2, <1>5, <1>8 DEF CarriesHead
  <2>2. p \in Ancestors[p] /\ h \notin Ancestors[p]
    <3>1. Height[h] \in Nat /\ Height[p] \in Nat /\ Height[h] = Height[p] + 1
      BY <1>0, <1>1, TreeAssumption, SMT DEF Heights
    <3> QED
      BY <1>0, <1>1, <3>1, AncestorsClosed, AncestorsLower, SMT
  <2>3. p \in heap'[i].Headers
    BY <1>1, <1>5, <1>8 DEF CarriesHead
  <2>4. HeadServable'
    BY <1>2, <2>2 DEF HeadInv, HeadServable
  <2>5. \A t \in Live' : t \in heap'[chains'[t]].Headers /\ t \in headersMap'
    <3>1. p \in headersMap'
      BY <1>2, <2>2, <2>4 DEF HeadServable
    <3> QED
      BY <1>2, <1>7, <1>8, <2>3, <3>1 DEF HeadInv, At
  <2>6. SoundBranch(currentChainTip)'
    BY <1>2 DEF HeadInv, SoundBranch
  <2> QED
    BY <1>2, <1>8, <2>1, <2>2, <2>3, <2>4, <2>5, <2>6 DEF HeadInv, At
<1>10. ProcInv' /\ WantInv' /\ ~ Extending'
  BY <1>2 DEF ProcInv, WantInv, Extending
<1>11. AliasInv'
  <2> SUFFICES ASSUME NEW t \in Live', NEW u \in Live', t # u, chains'[t] = chains'[u]
               PROVE  (Ancestors[SettledKey(t)'] \ {Genesis}) \cap heap'[chains'[t]].BlockIndex # {}
    BY DEF AliasInv, At
  <2>1. SettledKey(t)' = t
    BY <1>10 DEF SettledKey
  <2>2. CASE t = p
    <3>1. u \in Live /\ chains[u] = i /\ u # h
      BY <1>7, <1>8, <2>2
    <3>2. (Ancestors[p] \ {Genesis}) \cap heap[i].BlockIndex # {}
      BY <1>1, <1>6, <3>1 DEF AliasInv, At
    <3> QED
      BY <1>5, <1>8, <2>1, <2>2, <3>2
  <2>3. CASE t # p
    <3>1. \E v \in Live : v # t /\ chains[v] = chains[t]
      BY <1>1, <1>7, <1>8, <2>3
    <3>2. (Ancestors[t] \ {Genesis}) \cap heap[chains[t]].BlockIndex # {}
      BY <1>6, <1>7, <2>3, <3>1 DEF AliasInv, At
    <3> QED
      BY <1>7, <2>1, <2>3, <3>2
  <2> QED
    BY <2>2, <2>3
<1> QED
  BY <1>9, <1>10, <1>11

(***************************************************************************)
(* A branch is replayed.                                                   *)
(***************************************************************************)
(* The blocks R that were replayed, their highest one, and the object.     *)
LEMMA ReplayedBranch ==
  ASSUME IInv, proc.pc = "awaitBranch", NEW R \in SUBSET proc.want, R # {}, ReplaySucceeds(R)
  PROVE  LET last == Highest(R)  i == proc.chain  d == Replayed(heap[i], R) IN
         /\ last \in R /\ last \in Headers /\ last \in Hashes
         /\ last \in Ancestors[proc.header]
         /\ Ancestors[last] \subseteq R \cup {Genesis}
         /\ SoundBranch(last)
         /\ heap[i].BlockIndex \subseteq d.BlockIndex
         /\ heap[i].Headers \subseteq d.Headers
         /\ Ancestors[last] \subseteq d.BlockIndex
         /\ last \in d.BlockIndex /\ last \in d.Headers
         /\ d.Tip # Nil /\ Height[d.Tip] >= Height[last]
         /\ d.AccountStates.at = last
         /\ chains[currentChainTip] # i
<1> USE DEF IInv, Inv
<1> DEFINE last == Highest(R)  i == proc.chain  d == Replayed(heap[i], R)
           b == AddBlocks(heap[i], {Genesis})
<1>0. /\ R \subseteq Headers /\ R \subseteq Hashes /\ R \subseteq Ancestors[proc.header]
      /\ i \in Ids /\ heap[i] \in Chain /\ Genesis \in Hashes /\ proc.header \in Hashes
  BY DEF TypeOK, Proc, Hashes, ProcInv
<1>1. last \in R /\ last \in Headers /\ last \in Hashes /\ last \in Ancestors[proc.header]
  BY <1>0, HighestIsHighest
<1>2. Ancestors[last] \subseteq R \cup {Genesis}
  BY <1>0, <1>1, ClosedRun DEF ReplaySucceeds, FromGenesis
<1>3. SoundBranch(last)
  BY <1>0, <1>2, TreeAssumption DEF SoundBranch, ReplaySucceeds, TransactionsValid
<1>4. /\ b \in Chain /\ b.BlockIndex = heap[i].BlockIndex \cup {Genesis}
      /\ heap[i].Headers \subseteq b.Headers
  <2>1. heap[i] \in Chain /\ {Genesis} \in SUBSET Hashes
    BY <1>0
  <2> HIDE DEF IInv, Inv, i
  <2> QED
    BY <2>1, AddBlocksEffect, ZenonT(60)
<1> HIDE DEF b
<1>5. /\ AddBlocks(b, R) \in Chain
      /\ AddBlocks(b, R).BlockIndex = b.BlockIndex \cup R
      /\ AddBlocks(b, R).Headers = b.Headers \cup R
      /\ AddBlocks(b, R).Tip # Nil /\ Height[AddBlocks(b, R).Tip] >= Height[last]
  BY <1>0, <1>1, <1>4, AddBlocksEffect, SMT
<1>6. /\ d.BlockIndex = AddBlocks(b, R).BlockIndex /\ d.Headers = AddBlocks(b, R).Headers
      /\ d.Tip = AddBlocks(b, R).Tip /\ d.AccountStates.at = last
  BY <1>5 DEF Replayed, Chain, b
<1>7. chains[currentChainTip] # i
  <2> SUFFICES ASSUME chains[currentChainTip] = i PROVE FALSE
    OBVIOUS
  <2>1. PICK x \in Ancestors[proc.header] \ {Genesis} :
          \A a \in proc.want : Height[x] < Height[a]
    BY DEF WantInv
  <2>2. x \in Ancestors[last]
    BY <1>0, <1>1, <2>1, AncestorsLinear
  <2>3. x \in proc.want /\ x \in Hashes
    BY <1>0, <1>2, <2>1, <2>2
  <2>4. Height[x] \in Nat
    BY <2>3, TreeAssumption, SMT DEF Heights
  <2> QED
    BY <2>1, <2>3, <2>4, SMT
<1> QED
  BY <1>1, <1>2, <1>3, <1>4, <1>5, <1>6, <1>7

(* The object's keys afterwards are the highest block and keys it had, so  *)
(* what holds per key holds again; the head is that block, or stays where  *)
(* its own object is not touched.                                          *)
LEMMA BranchAdopted ==
  ASSUME IInv, proc.pc = "awaitBranch", NEW R \in SUBSET proc.want, Adopts(R)
  PROVE  Inv'
<1> USE DEF IInv, Inv
<1> DEFINE h == proc.header  i == proc.chain  last == Highest(R)  cur == currentChainTip
           d == Replayed(heap[i], R)
<1>0. /\ h \in Headers /\ h \in Hashes /\ i \in Ids /\ i # NoChain /\ cur \in Hashes
      /\ Parent[h] \in Hashes /\ chains[h] = i /\ h \in Live /\ cur \in Live
      /\ Parent[h] # cur /\ h # cur
  <2>1. h \in Headers /\ i \in Ids /\ cur \in Hashes
    BY DEF TypeOK
  <2>2. h # cur /\ Parent[h] # cur /\ cur \in Live /\ chains[h] = i
    BY DEF ProcInv
  <2> HIDE DEF IInv, Inv, h, i, cur
  <2>3. h \in Hashes /\ Parent[h] \in Hashes /\ i # NoChain
    BY <2>1, TreeAssumption, SMT DEF Hashes, Ids, NoChain
  <2> QED
    BY <2>1, <2>2, <2>3 DEF Live
<1>1. /\ last \in R /\ last \in Headers /\ last \in Hashes /\ last \in Ancestors[h]
      /\ Ancestors[last] \subseteq R \cup {Genesis}
      /\ SoundBranch(last)
      /\ heap[i].BlockIndex \subseteq d.BlockIndex /\ heap[i].Headers \subseteq d.Headers
      /\ Ancestors[last] \subseteq d.BlockIndex
      /\ last \in d.BlockIndex /\ last \in d.Headers
      /\ d.Tip # Nil /\ Height[d.Tip] >= Height[last]
      /\ d.AccountStates.at = last
      /\ chains[cur] # i
  BY ReplayedBranch DEF Adopts
<1>2. /\ headersMap' = headersMap \cup R /\ blocksMap' = blocksMap \cup R
      /\ heap' = [heap EXCEPT ![i] = d]
      /\ proc'.pc = "idle"
  BY InitialValues DEF Adopts, Return
<1>3. \A j \in Ids : heap'[j] = IF j = i THEN d ELSE heap[j]
  BY <1>0, <1>2 DEF TypeOK
<1>4. \A t \in Hashes : chains'[t] # NoChain =>
                          chains'[t] = IF t = last THEN i ELSE chains[t]
  BY <1>0, <1>1 DEF Adopts, TypeOK
<1>5. \/ currentChainTip' = last /\ chains'[last] = i
      \/ currentChainTip' = cur /\ chains'[cur] = IF cur = last THEN i ELSE chains[cur]
  <2>1. CASE ShouldReorg(R)
    <3>1. last \notin StaleChains([chains EXCEPT ![last] = i], heap', last)
      BY DEF StaleChains
    <3> QED
      BY <1>1, <2>1, <3>1 DEF Adopts, TypeOK
  <2>2. CASE ~ ShouldReorg(R)
    BY <1>0, <1>1, <2>2 DEF Adopts, TypeOK
  <2> QED
    BY <2>1, <2>2
<1> HIDE DEF d, h, i, last
<1>6. ASSUME NEW t \in Live', t # last
      PROVE  /\ t \in Live /\ t \in Hashes /\ chains'[t] = chains[t] /\ chains[t] \in Ids
             /\ heap[chains[t]].BlockIndex \subseteq heap'[chains[t]].BlockIndex
             /\ heap[chains[t]].Headers \subseteq heap'[chains[t]].Headers
  <2>1. t \in Hashes /\ chains'[t] # NoChain
    BY DEF Live
  <2>2. chains'[t] = chains[t] /\ t \in Live
    BY <1>4, <1>6, <2>1 DEF Live
  <2> QED
    BY <1>1, <1>3, <2>1, <2>2 DEF TypeOK, Live
<1>7. last \in Live' => chains'[last] = i
  BY <1>1, <1>4 DEF Live
<1>8. heap'[i] = d
  BY <1>0, <1>3
<1>9. \A t \in Live' : t \in heap'[chains'[t]].Headers /\ t \in headersMap'
  <2> SUFFICES ASSUME NEW t \in Live'
               PROVE  t \in heap'[chains'[t]].Headers /\ t \in headersMap'
    OBVIOUS
  <2>1. CASE t = last
    BY <1>1, <1>2, <1>7, <1>8, <2>1
  <2>2. CASE t # last
    BY <1>2, <1>6, <2>2 DEF HeadInv, At
  <2> QED
    BY <2>1, <2>2
<1>10. HeadInv'
  <2>1. CASE currentChainTip' = last /\ chains'[last] = i
    <3>1. last \in Live' /\ last \in Ancestors[last]
      BY <1>0, <1>1, <2>1, AncestorsClosed DEF Live
    <3>2. CarriesHead(chains[currentChainTip])'
      BY <1>1, <1>8, <2>1 DEF CarriesHead
    <3>3. HeadServable' /\ SoundBranch(currentChainTip)'
      BY <1>1, <1>2, <2>1 DEF HeadServable, SoundBranch, TypeOK
    <3> QED
      BY <1>9, <2>1, <3>1, <3>2, <3>3 DEF HeadInv, At
  <2>2. CASE /\ currentChainTip' = cur
             /\ chains'[cur] = IF cur = last THEN i ELSE chains[cur]
    <3>1. cur \in Live' /\ cur \in Ancestors[cur]
      BY <1>0, <2>2, AncestorsClosed DEF Live
    <3>2. CarriesHead(chains[currentChainTip])'
      <4>1. CASE cur = last
        BY <1>1, <1>8, <2>2, <4>1 DEF CarriesHead
      <4>2. CASE cur # last
        <5>1. CarriesHead(chains[cur])
          BY <1>0 DEF HeadInv
        <5>2. heap'[chains[cur]] = heap[chains[cur]]
          BY <1>1, <1>3, <1>6, <3>1, <4>2
        <5> QED
          BY <2>2, <4>2, <5>1, <5>2 DEF CarriesHead
      <4> QED
        BY <4>1, <4>2
    <3>3. HeadServable' /\ SoundBranch(currentChainTip)'
      BY <1>2, <2>2 DEF HeadInv, HeadServable, SoundBranch
    <3> QED
      BY <1>9, <2>2, <3>1, <3>2, <3>3 DEF HeadInv, At
  <2> QED
    BY <1>5, <2>1, <2>2
<1>11. ProcInv' /\ WantInv' /\ ~ Extending'
  BY <1>2 DEF ProcInv, WantInv, Extending
<1>12. AliasInv'
  <2> SUFFICES ASSUME NEW t \in Live', NEW u \in Live', t # u, chains'[t] = chains'[u]
               PROVE  (Ancestors[SettledKey(t)'] \ {Genesis}) \cap heap'[chains'[t]].BlockIndex # {}
    BY DEF AliasInv, At
  <2>1. SettledKey(t)' = t /\ \A x : SettledKey(x) = x
    BY <1>11 DEF SettledKey, Extending
  <2>2. last # Genesis /\ last \in Ancestors[last]
    BY <1>1, TreeAssumption, AncestorsClosed
  <2>3. CASE t = last
    BY <1>1, <1>7, <1>8, <2>1, <2>2, <2>3
  <2>4. CASE t # last /\ t = h
    <3>1. chains'[t] = i
      BY <1>0, <1>6, <2>4
    <3> QED
      BY <1>1, <1>8, <2>1, <2>2, <2>4, <3>1
  <2>5. CASE t # last /\ t # h
    <3>1. \E v \in Live : v # t /\ chains[v] = chains[t]
      BY <1>0, <1>6, <1>7, <2>5
    <3>2. (Ancestors[t] \ {Genesis}) \cap heap[chains[t]].BlockIndex # {}
      BY <1>6, <2>1, <2>5, <3>1 DEF AliasInv, At
    <3> QED
      BY <1>6, <2>1, <2>5, <3>2
  <2> QED
    BY <2>3, <2>4, <2>5
<1> QED
  BY <1>10, <1>11, <1>12

(***************************************************************************)
(* The invariant.                                                          *)
(***************************************************************************)
(* A node that has just started, which Init and Restart both describe.     *)
Fresh ==
  /\ chains = GenesisChains /\ heap = GenesisHeap /\ currentChainTip = Genesis
  /\ headersMap = {Genesis} /\ blocksMap = {Genesis} /\ proc = Idle

(* A node that has just started satisfies the invariant.                   *)
LEMMA FreshInv == Fresh => Inv
<1> SUFFICES ASSUME Fresh PROVE Inv
  OBVIOUS
<1> DEFINE c == AddBlocks(NewChain, {Genesis})
<1>1. 1 \in Ids /\ 1 # NoChain /\ Genesis \in Hashes /\ proc.pc = "idle"
  BY NodeAssumption, InitialValues, SMT DEF Ids, NoChain, Fresh
<1>2. /\ NewChain.BlockIndex = {Genesis} /\ NewChain.Headers = {Genesis}
      /\ NewChain.AccountStates.at = Genesis
  BY DEF NewChain
<1>3. /\ c.BlockIndex = {Genesis} /\ c.Headers = {Genesis} /\ c.AccountStates.at = Genesis
      /\ c.Tip # Nil /\ Height[c.Tip] >= Height[Genesis]
  BY <1>1, <1>2, NewChainType, AddBlocksEffect
<1> HIDE DEF c
<1>4. heap[1] = c /\ chains[Genesis] = 1
  BY <1>1 DEF GenesisHeap, GenesisChains, c, Fresh
<1>5. Live = {Genesis}
  BY <1>1 DEF Live, GenesisChains, Fresh
<1>6. HeadInv
  <2>1. CarriesHead(1)
    BY <1>3, <1>4, AncestorsGenesis DEF CarriesHead, Fresh
  <2>2. HeadServable /\ SoundBranch(currentChainTip)
    BY AncestorsGenesis, TreeAssumption DEF HeadServable, SoundBranch, Fresh
  <2> QED
    BY <1>3, <1>4, <1>5, <2>1, <2>2, AncestorsGenesis DEF HeadInv, At, Fresh
<1>7. ProcInv /\ WantInv
  BY <1>1 DEF ProcInv, WantInv, Extending
<1>8. AliasInv
  BY <1>5 DEF AliasInv
<1> QED
  BY <1>6, <1>7, <1>8 DEF Inv

(* One step per action, as for the types.                                  *)
LEMMA InvStep == IInv /\ [Next]_vars => Inv'
<1> SUFFICES ASSUME IInv, [Next]_vars PROVE Inv'
  OBVIOUS
<1> USE DEF IInv
<1>0. TypeOK'
  BY TypeStep
<1>1. ASSUME NEW h \in Headers, AnnounceHeader(h) \/ SubmitBlock(h) PROVE Inv'
  BY <1>1, HolderStays DEF AnnounceHeader, SubmitBlock, chainVars, indexVars
<1>2. ASSUME NEW h \in Headers, NEW from \in Origins, Begin(h, from) PROVE Inv'
  <2>1. UNCHANGED <<chains, heap, currentChainTip, headersMap, blocksMap>>
    BY <1>2 DEF Begin, chainVars, indexVars
  <2>2. CASE ~ValidateHeaderStructure(h) \/ checkHeaderExists(h)
    BY <1>2, <2>1, <2>2, HolderReturns DEF Begin, Return
  <2>3. CASE ~ (~ValidateHeaderStructure(h) \/ checkHeaderExists(h))
    <3>1. proc'.pc = "connect" /\ proc'.header = h /\ ~ Extending'
      BY <1>2, <2>3 DEF Begin, Idle, Extending
    <3>2. h # currentChainTip /\ chains[h] = NoChain
      BY <2>3 DEF checkHeaderExists, Inv, HeadInv, Live, Hashes
    <3>3. HeadInv' /\ AliasInv'
      BY <2>1, <3>1, HeadInvStays, AliasSettles DEF Inv
    <3> QED
      BY <2>1, <3>1, <3>2, <3>3 DEF Inv, ProcInv, WantInv
  <2> QED
    BY <2>2, <2>3
<1>3. CASE ExtendTip
  <2>1. Parent[proc.header] \in Live /\ proc.header \in Headers /\ proc.pc = "connect"
    BY <1>3 DEF ExtendTip, findParentChain, TypeOK
  <2>2. chains[Parent[proc.header]] \in Ids /\ heap[chains[Parent[proc.header]]] \in Chain
    BY <2>1 DEF Live, TypeOK
  <2> QED
    BY <1>3, <2>1, <2>2, HeaderAdded DEF ExtendTip, At
<1>4. ASSUME NEW t \in Hashes, FetchForFork(t) PROVE Inv'
  BY <1>4, HolderReturns DEF FetchForFork, Return, chainVars, indexVars
<1>5. CASE CreateFork
  <2> DEFINE path == ForkPath(Parent[proc.header])
  <2>1. /\ proc.header \in Headers /\ proc.pc = "connect" /\ Parent[proc.header] \in Hashes
        /\ path \subseteq Hashes
    BY <1>5, PathType, TreeAssumption DEF CreateFork, TypeOK, Hashes
  <2>2. CASE Applied(path) = path
    <3>1. FreshId \in Ids /\ FreshId \in FreeIds /\ buildChainFromBlocks(path) \in Chain
      BY <1>5, <2>1, <2>2, FreshIdType, BuiltType DEF CreateFork
    <3>2. handleChainExtension(proc.header, FreshId, buildChainFromBlocks(path), path)
      BY <1>5, <2>2 DEF CreateFork
    <3>3. \A t \in Hashes : chains[t] # FreshId
      BY <3>1 DEF FreeIds
    <3> QED
      BY <2>1, <2>2, <3>1, <3>2, <3>3, BuiltChain, HeaderAdded
  <2>3. CASE Applied(path) # path
    BY <1>5, <2>3, HolderReturns DEF CreateFork, Return, chainVars, indexVars
  <2> QED
    BY <2>2, <2>3
<1>6. CASE handleOrphanHeader
  BY <1>6, HolderReturns DEF handleOrphanHeader, Return, chainVars, indexVars
<1>7. ASSUME UNCHANGED <<chains, heap, currentChainTip, headersMap, blocksMap>>,
             Extending, proc'.pc \in {"awaitBlock", "apply"},
             proc'.header = proc.header, proc'.chain = proc.chain,
             Parent[proc.header] = currentChainTip
      PROVE  Inv'
  <2>1. Extending' /\ proc.pc \notin {"idle", "connect"}
    BY <1>7 DEF Extending
  <2>2. HeadInv'
    BY <1>7, HeadInvStays DEF Inv
  <2>3. ProcInv' /\ WantInv'
    BY <1>7, <2>1 DEF Inv, ProcInv, WantInv, CarriesHead
  <2>4. AliasInv'
    BY <1>7, <2>1 DEF Inv, AliasInv, SettledKey, Live, At
  <2> QED
    BY <2>2, <2>3, <2>4 DEF Inv
<1>8. CASE ExtendCurrent
  <2>1. proc'.pc \in {"awaitBlock", "apply"} /\ proc'.header = proc.header
        /\ proc'.chain = proc.chain
    BY <1>8 DEF ExtendCurrent, TypeOK, Proc
  <2> QED
    BY <1>7, <1>8, <2>1 DEF ExtendCurrent, Extending, chainVars, indexVars
<1>9. CASE ExtendCandidate
  <2> DEFINE h == proc.header  i == proc.chain  want == HeadersToFetch(h, heap[i])
  <2>0. UNCHANGED <<chains, heap, currentChainTip, headersMap, blocksMap>>
    BY <1>9 DEF ExtendCandidate, chainVars, indexVars
  <2>1. CASE Return(h, proc.from, TRUE)
    BY <2>0, <2>1, HolderReturns DEF Return
  <2>2. CASE ~ Return(h, proc.from, TRUE)
    <3>1. proc' = [proc EXCEPT !.pc = "awaitBranch", !.want = want]
          /\ currentChainTip \in Live /\ proc.pc = "decide" /\ Parent[h] # currentChainTip
      BY <1>9, <2>2 DEF ExtendCandidate
    <3>2. /\ proc'.pc = "awaitBranch" /\ proc'.header = h /\ proc'.chain = i
          /\ proc'.want = want /\ ~ Extending'
      BY <3>1 DEF TypeOK, Proc, Extending
    <3>3. /\ h \in Headers /\ h \in Hashes /\ i \in Ids /\ i # NoChain /\ h # currentChainTip
          /\ chains[h] = i /\ h \in Live
      BY <3>1, SMT DEF TypeOK, Inv, ProcInv, Hashes, Live, Ids, NoChain
    <3>4. HeadInv' /\ AliasInv'
      BY <2>0, <3>2, HeadInvStays, AliasSettles DEF Inv
    <3>5. ProcInv'
      BY <2>0, <3>1, <3>2, <3>3 DEF ProcInv, HeadersToFetch, Live
    <3>6. ASSUME chains[currentChainTip] = i
          PROVE  \E x \in Ancestors[h] \ {Genesis} : \A a \in want : Height[x] < Height[a]
      <4>1. SettledKey(h) = Parent[h]
        BY <3>1 DEF SettledKey, Extending
      <4>2. PICK x \in Ancestors[Parent[h]] \ {Genesis} : x \in heap[i].BlockIndex
        BY <3>1, <3>3, <3>6, <4>1 DEF Inv, AliasInv, At
      <4>3. x \in Ancestors[h]
        BY <3>3, <4>2, AncestorsStep
      <4>4. ASSUME NEW a \in want PROVE Height[x] < Height[a]
        <5>1. a \in Hashes /\ x \in Hashes
          BY <3>3, <4>3, AncestorsClosed DEF HeadersToFetch
        <5>2. Height[a] \in Nat /\ Height[x] \in Nat
          BY <5>1, HeightIsNatural
        <5>3. ~ (Height[x] >= Height[a])
          BY <4>2, <4>3 DEF HeadersToFetch
        <5> QED
          BY <5>2, <5>3, SMT
      <4> QED
        BY <4>2, <4>3, <4>4
    <3>7. WantInv'
      BY <2>0, <3>2, <3>6 DEF WantInv
    <3> QED
      BY <3>4, <3>5, <3>7 DEF Inv
  <2> QED
    BY <2>1, <2>2
<1>10. CASE RequestTimesOut
  BY <1>10, HolderReturns DEF RequestTimesOut, Return, chainVars, indexVars
<1>11. CASE BlockArrives
  <2>1. UNCHANGED <<chains, heap, currentChainTip, headersMap, blocksMap>>
        /\ proc.pc = "awaitBlock"
    BY <1>11 DEF BlockArrives, chainVars, indexVars
  <2>2. CASE proc' = [proc EXCEPT !.pc = "apply"]
    <3>1. proc'.pc = "apply" /\ proc'.header = proc.header /\ proc'.chain = proc.chain
      BY <2>2 DEF TypeOK, Proc
    <3>2. Parent[proc.header] = currentChainTip /\ Extending
      BY <2>1 DEF Inv, ProcInv, Extending
    <3> QED
      BY <1>7, <2>1, <3>1, <3>2
  <2>3. CASE Return(proc.header, proc.from, TRUE)
    BY <2>1, <2>3, HolderReturns DEF Return
  <2> QED
    BY <1>11, <2>2, <2>3 DEF BlockArrives
<1>12. CASE ApplyToCurrent
  BY <1>12, HeadExtended
<1>13. CASE cleanupFailedHeader
  BY <1>13, HeaderDropped
<1>14. CASE BranchArrives
  <2>1. PICK R \in SUBSET proc.want :
          \/ UNCHANGED <<chainVars, indexVars, proc>>
          \/ Return(proc.header, proc.from, TRUE) /\ UNCHANGED <<chainVars, indexVars>>
          \/ Adopts(R)
    BY <1>14 DEF BranchArrives, Answers
  <2>2. CASE UNCHANGED <<chainVars, indexVars, proc>>
    BY <2>2, HolderStays DEF chainVars, indexVars
  <2>3. CASE Return(proc.header, proc.from, TRUE) /\ UNCHANGED <<chainVars, indexVars>>
    BY <2>3, HolderReturns DEF Return, chainVars, indexVars
  <2>4. CASE Adopts(R)
    BY <1>14, <2>4, BranchAdopted DEF BranchArrives
  <2> QED
    BY <2>1, <2>2, <2>3, <2>4
<1>15. ASSUME NEW p \in Headers, HeaderFetch(p) PROVE Inv'
  BY <1>15, HolderStays
  DEF HeaderFetch, ParentHeaderArrives, HeaderFetchFails, chainVars, indexVars
<1>16. ASSUME NEW p \in Headers, BlockFetch(p) PROVE Inv'
  <2>1. CASE BlockFetchFails(p)
    BY <2>1, HolderStays DEF BlockFetchFails, chainVars, indexVars
  <2>2. CASE ParentBlockArrives(p)
    <3>1. ASSUME NEW i \in Ids
          PROVE  \E S \in SUBSET Hashes : heap'[i] = AddBlocks(heap[i], S)
      <4>1. heap'[i] = AddBlocks(heap[i], {p}) \/ heap'[i] = AddBlocks(heap[i], {})
        BY <2>2 DEF ParentBlockArrives, AddBlocks
      <4>2. {p} \in SUBSET Hashes /\ {} \in SUBSET Hashes
        BY DEF Hashes
      <4> QED
        BY <4>1, <4>2
    <3>2. heap' \in [Ids -> Chain]
      BY <1>0 DEF TypeOK
    <3> QED
      BY <2>2, <3>1, <3>2, ObjectsGrow DEF ParentBlockArrives, indexVars
  <2> QED
    BY <1>16, <2>1, <2>2 DEF BlockFetch
<1>17. ASSUME NEW f \in forkFetches, ForkFetchEnds(f) PROVE Inv'
  <2>1. CASE ForkFetchFails(f)
    BY <2>1, HolderStays DEF ForkFetchFails, chainVars, indexVars
  <2>2. CASE ForkBlocksArrive(f)
    <3>0. f.want \subseteq Headers /\ f.chain \in Ids
      BY DEF TypeOK, ForkFetch
    <3>1. PICK R \in SUBSET f.want : heap' = [heap EXCEPT ![f.chain] = AddBlocks(@, R)]
      BY <2>2 DEF ForkBlocksArrive, Answers
    <3>2. ASSUME NEW i \in Ids
          PROVE  \E S \in SUBSET Hashes : heap'[i] = AddBlocks(heap[i], S)
      <4>1. heap'[i] = AddBlocks(heap[i], R) \/ heap'[i] = AddBlocks(heap[i], {})
        BY <3>0, <3>1 DEF TypeOK, AddBlocks
      <4>2. R \in SUBSET Hashes /\ {} \in SUBSET Hashes
        BY <3>0 DEF Hashes
      <4> QED
        BY <4>1, <4>2
    <3>3. heap' \in [Ids -> Chain]
      BY <1>0 DEF TypeOK
    <3> QED
      BY <2>2, <3>2, <3>3, ObjectsGrow DEF ForkBlocksArrive, indexVars
  <2> QED
    BY <1>17, <2>1, <2>2 DEF ForkFetchEnds
<1>18. CASE Restart
  <2>1. Fresh'
    BY <1>18 DEF Restart, Fresh
  <2>2. Fresh' => Inv'
    BY FreshInv, PTL
  <2> QED
    BY <2>1, <2>2
<1>19. CASE UNCHANGED vars
  BY <1>19, HolderStays DEF vars, chainVars, indexVars
<1> QED
  BY <1>1, <1>2, <1>3, <1>4, <1>5, <1>6, <1>8, <1>9, <1>10, <1>11, <1>12,
     <1>13, <1>14, <1>15, <1>16, <1>17, <1>18, <1>19
  DEF Next, Connect, Decide, Await, Finish

(* So does the initial state.                                              *)
LEMMA InvInit == Init => IInv
BY TypeInit, FreshInv DEF Init, Fresh, IInv

(* Every reachable state of the node has the types of TypeOK.              *)
THEOREM TypeCorrect == Spec => []TypeOK
<1>1. Init => TypeOK
  BY TypeInit
<1>2. TypeOK /\ [Next]_vars => TypeOK'
  BY TypeStep
<1> QED
  BY <1>1, <1>2, PTL DEF Spec

(* The invariant holds in every reachable state, whatever announcements,   *)
(* submissions, background fetches, failed requests and restarts occur and *)
(* in whatever order.                                                      *)
THEOREM Invariance == Spec => []IInv
<1>1. Init => IInv
  BY InvInit
<1>2. IInv /\ [Next]_vars => IInv'
  BY TypeStep, InvStep DEF IInv
<1> QED
  BY <1>1, <1>2, PTL DEF Spec

(* The account states of the current chain are always those of its head.   *)
THEOREM LedgerFollowsHead == Spec => []LedgerAtHead
<1>1. IInv => LedgerAtHead
  BY DEF IInv, Inv, HeadInv, CarriesHead, LedgerAtHead, At
<1> QED
  BY <1>1, Invariance, PTL

(* The current chain always holds its head's whole branch.                 *)
THEOREM HeadKeepsItsChain == Spec => []HeadOnItsChain
<1>1. IInv => HeadOnItsChain
  BY DEF IInv, Inv, HeadInv, CarriesHead, HeadOnItsChain, At
<1> QED
  BY <1>1, Invariance, PTL

(* The node can always serve its head's whole branch.                      *)
THEOREM HeadStaysServable == Spec => []HeadServable
<1>1. IInv => HeadServable
  BY DEF IInv, Inv, HeadInv
<1> QED
  BY <1>1, Invariance, PTL

(* A step moves the head to a sound branch with more work, or restarts.    *)
LEMMA HeadStep == IInv /\ [Next]_vars => [HeadChoice!Next]_currentChainTip
<1> SUFFICES ASSUME IInv, [Next]_vars, currentChainTip' # currentChainTip
             PROVE  HeadChoice!Next
  OBVIOUS
<1> USE DEF IInv
<1>0. /\ \A b \in Hashes : Height[b] \in Nat /\ TotalWork[b] \in Nat
      /\ \A g, k \in Hashes : Height[g] < Height[k] <=> TotalWork[g] < TotalWork[k]
  BY TreeAssumption, SMT DEF Heights
<1>1. SoundBranch(currentChainTip) /\ currentChainTip \in Hashes
  BY DEF Inv, HeadInv, TypeOK
<1>2. SoundBranch(currentChainTip')
  BY InvStep DEF Inv, HeadInv, SoundBranch
<1>3. ASSUME NEW b \in Headers, currentChainTip' = b,
             TotalWork[b] > TotalWork[currentChainTip]
      PROVE  HeadChoice!Next
  BY <1>2, <1>3 DEF HeadChoice!Next, HeadChoice!Adopt, HeadChoice!SoundBranch, SoundBranch,
                    HeadChoice!Ancestors, Ancestors, HeadChoice!Closed, Closed,
                    HeadChoice!Hashes, Hashes
<1>4. CASE ApplyToCurrent
  <2>1. /\ proc.header \in Headers /\ proc.header \in Hashes
        /\ Parent[proc.header] = currentChainTip /\ currentChainTip' = proc.header
    BY <1>4 DEF ApplyToCurrent, Inv, ProcInv, TypeOK, Hashes
  <2>2. Height[proc.header] = Height[currentChainTip] + 1
    BY <2>1, TreeAssumption
  <2>3. TotalWork[currentChainTip] < TotalWork[proc.header]
    <3>1. Height[currentChainTip] \in Nat
      BY <1>0, <1>1
    <3>2. Height[currentChainTip] < Height[proc.header]
      BY <2>2, <3>1, SMT
    <3> HIDE DEF IInv
    <3> QED
      BY <1>0, <1>1, <2>1, <3>2
  <2> QED
    BY <1>0, <1>1, <1>3, <2>1, <2>3
<1>5. CASE BranchArrives
  <2>1. PICK R \in SUBSET proc.want :
          R # {} /\ ShouldReorg(R) /\ currentChainTip' = Highest(R)
    BY <1>5 DEF BranchArrives, Answers, Adopts, chainVars
  <2>2. Highest(R) \in Headers /\ Highest(R) \in Hashes
    BY <2>1, HighestIsHighest DEF TypeOK, Proc, Hashes
  <2> DEFINE tip == At(currentChainTip).Tip
  <2>3. tip \in Hashes /\ Height[tip] >= Height[currentChainTip]
        /\ TotalWork[Highest(R)] > TotalWork[tip]
    <3>1. currentChainTip \in Live /\ tip # Nil /\ TotalWork[Highest(R)] > TotalWork[tip]
      BY <2>1 DEF ShouldReorg
    <3>2. At(currentChainTip) \in Chain
      BY <1>1, <3>1 DEF Live, At, TypeOK
    <3> QED
      BY <3>1, <3>2 DEF Chain, Inv, HeadInv, CarriesHead, At
  <2> HIDE DEF tip
  <2>4. ~ (TotalWork[tip] < TotalWork[currentChainTip])
    BY <1>0, <1>1, <2>3, SMT
  <2>5. TotalWork[Highest(R)] > TotalWork[currentChainTip]
    BY <1>0, <1>1, <2>2, <2>3, <2>4, SMT
  <2> QED
    BY <1>3, <2>1, <2>2, <2>5
<1>6. CASE Restart
  BY <1>6 DEF Restart, HeadChoice!Next, HeadChoice!Reboot
<1> QED
  BY <1>4, <1>5, <1>6
  DEF Next, Connect, Decide, Await, Finish, AnnounceHeader, SubmitBlock, Begin, ExtendTip,
      FetchForFork, CreateFork, handleOrphanHeader, handleChainExtension, ExtendCurrent,
      ExtendCandidate, RequestTimesOut, BlockArrives, cleanupFailedHeader, HeaderFetch,
      ParentHeaderArrives, HeaderFetchFails, BlockFetch, ParentBlockArrives,
      BlockFetchFails, ForkFetchEnds, ForkBlocksArrive, ForkFetchFails, chainVars, vars

(* Header processing implements fork choice: the head only ever moves to   *)
(* a branch with strictly more work and no invalid block, although the     *)
(* work is compared with the Tip of a chain object that fetches move.      *)
THEOREM Refinement == Spec => HeadSpec
<1>1. Init => HeadChoice!Init
  BY DEF Init, HeadChoice!Init
<1>2. IInv /\ [Next]_vars => [HeadChoice!Next]_currentChainTip
  BY HeadStep
<1> QED
  BY <1>1, <1>2, Invariance, PTL DEF Spec, HeadSpec, HeadChoice!Spec

(***************************************************************************)
(* What holds when peers answer.                                           *)
(***************************************************************************)
(* Nothing panics unless a peer answers a request for blocks with none:    *)
(* the slice that is indexed with its length minus one then has a block,   *)
(* because a branch with no block missing is never requested.              *)
THEOREM NoPanicUnlessEmpty ==
  ASSUME "empty" \notin Faults
  PROVE  Spec => []NoPanic
<1>1. Init => RequestInv
  BY SMT DEF Init, Idle, RequestInv
<1>2. TypeOK /\ RequestInv /\ [Next]_vars => RequestInv'
  <2> SUFFICES ASSUME TypeOK, RequestInv, [Next]_vars PROVE RequestInv'
    OBVIOUS
  <2>0. proc \in Proc
    BY DEF TypeOK
  <2>1. ASSUME UNCHANGED crashed, proc'.pc # "awaitBranch" PROVE RequestInv'
    BY <2>1 DEF RequestInv
  <2>2. ASSUME NEW h, NEW from, NEW ok, Return(h, from, ok) PROVE proc'.pc # "awaitBranch"
    BY <2>2 DEF Return, Idle
  <2>3. CASE BranchArrives
    <3>1. PICK R \in Answers(proc.want) :
            \/ R = {} /\ crashed' = TRUE
            \/ Return(proc.header, proc.from, TRUE) /\ UNCHANGED crashed
            \/ Adopts(R)
      BY <2>3 DEF BranchArrives
    <3>2. R # {}
      BY <2>3 DEF BranchArrives, Answers, RequestInv
    <3> QED
      BY <2>1, <2>2, <3>1, <3>2 DEF Adopts
  <2>4. CASE ExtendCandidate
    <3>1. UNCHANGED crashed
      BY <2>4 DEF ExtendCandidate, envVars
    <3>2. CASE proc'.pc = "awaitBranch"
      <4>1. proc'.want # {}
        <5>1. PICK W : W # {} /\ proc' = [proc EXCEPT !.pc = "awaitBranch", !.want = W]
          BY <2>2, <2>4, <3>2 DEF ExtendCandidate
        <5> QED
          BY <2>0, <5>1 DEF Proc
      <4> QED
        BY <3>1, <4>1 DEF RequestInv
    <3> QED
      BY <2>1, <3>1, <3>2
  <2>5. CASE Restart
    BY <2>5 DEF Restart, Idle, RequestInv
  <2>6. CASE \E h \in Headers, from \in Origins : Begin(h, from)
    BY <2>1, <2>2, <2>6 DEF Begin, Idle, envVars
  <2>7. CASE Connect
    <3>1. ASSUME NEW h, NEW i, NEW c, NEW S, handleChainExtension(h, i, c, S)
          PROVE  UNCHANGED crashed /\ proc'.pc # "awaitBranch"
      BY <2>0, <3>1 DEF handleChainExtension, Proc, envVars
    <3>2. CASE ExtendTip
      BY <2>1, <3>1, <3>2 DEF ExtendTip
    <3>3. CASE CreateFork
      BY <2>1, <2>2, <3>1, <3>3 DEF CreateFork, envVars
    <3>4. CASE (\E t \in Hashes : FetchForFork(t)) \/ handleOrphanHeader
      BY <2>1, <2>2, <3>4 DEF FetchForFork, handleOrphanHeader, envVars
    <3> QED
      BY <2>7, <3>2, <3>3, <3>4 DEF Connect
  <2>8. CASE ExtendCurrent \/ RequestTimesOut \/ BlockArrives
    <3>1. UNCHANGED crashed
      BY <2>8 DEF ExtendCurrent, RequestTimesOut, BlockArrives, envVars
    <3>2. proc'.pc # "awaitBranch"
      BY <2>0, <2>2, <2>8 DEF ExtendCurrent, RequestTimesOut, BlockArrives, Proc
    <3> QED
      BY <2>1, <3>1, <3>2
  <2>9. CASE Finish
    BY <2>1, <2>2, <2>9 DEF Finish, ApplyToCurrent, cleanupFailedHeader, envVars
  <2>10. CASE UNCHANGED <<proc, crashed>>
    BY <2>10 DEF RequestInv
  <2> QED
    BY <2>3, <2>4, <2>5, <2>6, <2>7, <2>8, <2>9, <2>10
    DEF Next, Decide, Await, AnnounceHeader, SubmitBlock, HeaderFetch, ParentHeaderArrives,
        HeaderFetchFails, BlockFetch, ParentBlockArrives, BlockFetchFails, ForkFetchEnds,
        ForkBlocksArrive, ForkFetchFails, envVars, vars
<1>3. RequestInv => NoPanic
  BY DEF RequestInv, NoPanic
<1> QED
  BY <1>1, <1>2, <1>3, TypeCorrect, PTL DEF Spec

(* The head's key is taken only by the header that extends it.             *)
LEMMA KeyStep ==
  ASSUME {"timeout", "empty"} \cap Faults = {}
  PROVE  IInv /\ KeyInv /\ [Next]_vars => KeyInv'
<1> SUFFICES ASSUME IInv, KeyInv, [Next]_vars PROVE KeyInv'
  OBVIOUS
<1>0. /\ chains \in [Hashes -> Ids \cup {NoChain}] /\ currentChainTip \in Hashes
      /\ NoChain \notin Ids /\ Genesis \in Hashes
      /\ proc.pc # "idle" => /\ proc.header \in Headers /\ proc.header \in Hashes
                             /\ Parent[proc.header] \in Hashes
      /\ proc.pc \in {"decide", "awaitBlock", "awaitBranch", "apply"} => proc.chain \in Ids
      /\ proc \in Proc
  BY TreeAssumption, SMT DEF IInv, TypeOK, NoChain, Ids, Hashes
<1>1. /\ proc.pc # "idle" => proc.header # currentChainTip
      /\ proc.pc \in {"awaitBlock", "apply"} => Parent[proc.header] = currentChainTip
      /\ proc.pc = "awaitBranch" => Parent[proc.header] # currentChainTip
  BY DEF IInv, Inv, ProcInv
<1>a. ASSUME currentChainTip' \in Hashes, chains'[currentChainTip'] # NoChain PROVE KeyInv'
  BY <1>a DEF KeyInv, Live
<1>2. ASSUME UNCHANGED <<chains, currentChainTip>>, ~Extending
      PROVE  KeyInv'
  BY <1>0, <1>2, <1>a DEF KeyInv, Live
<1>3. ASSUME NEW i \in Ids, NEW c, NEW S, proc.pc = "connect",
             handleChainExtension(proc.header, i, c, S)
      PROVE  KeyInv'
  BY <1>0, <1>1, <1>3 DEF handleChainExtension, KeyInv, Live, Extending, Proc
<1>4. CASE ExtendTip
  <2>1. chains[Parent[proc.header]] \in Ids
    BY <1>0, <1>4 DEF ExtendTip, findParentChain, Live
  <2> QED
    BY <1>3, <1>4, <2>1 DEF ExtendTip
<1>5. CASE CreateFork
  BY <1>2, <1>3, <1>5, FreshIdType DEF CreateFork, chainVars, Extending
<1>6. CASE (\E t \in Hashes : FetchForFork(t)) \/ handleOrphanHeader
  BY <1>2, <1>6 DEF FetchForFork, handleOrphanHeader, chainVars, Extending
<1>7. CASE ExtendCurrent
  BY <1>0, <1>7 DEF ExtendCurrent, chainVars, KeyInv, Live, Extending, Proc
<1>8. CASE ExtendCandidate
  BY <1>8 DEF ExtendCandidate, chainVars, KeyInv, Live
<1>9. CASE RequestTimesOut
  BY <1>9 DEF RequestTimesOut
<1>10. CASE BlockArrives
  <2>1. proc.pc = "awaitBlock" /\ proc' = [proc EXCEPT !.pc = "apply"]
        /\ UNCHANGED <<chains, currentChainTip>>
    BY <1>10 DEF BlockArrives, Answers, chainVars
  <2> QED
    BY <1>0, <1>1, <2>1 DEF KeyInv, Extending, Proc
<1>11. CASE BranchArrives
  <2>1. ~Extending /\ currentChainTip \in Live
    BY <1>11 DEF BranchArrives, Extending, KeyInv
  <2>2. CASE UNCHANGED <<chains, currentChainTip>>
    BY <1>2, <2>1, <2>2
  <2>3. ASSUME NEW R \in SUBSET proc.want, Adopts(R) PROVE KeyInv'
    <3>1. R # {} /\ R \subseteq Hashes /\ proc.chain \in Ids /\ proc.pc = "awaitBranch"
      BY <1>0, <1>11, <2>3 DEF Adopts, BranchArrives, Proc, Hashes
    <3>2. Highest(R) \in Hashes
      BY <3>1, HighestIsHighest
    <3>3. CASE ShouldReorg(R)
      <4>1. currentChainTip' = Highest(R) /\ chains'[Highest(R)] = proc.chain
        BY <1>0, <2>3, <3>1, <3>2, <3>3 DEF Adopts, StaleChains
      <4> QED
        BY <1>0, <1>a, <3>1, <3>2, <4>1
    <3>4. CASE ~ShouldReorg(R)
      <4>1. UNCHANGED currentChainTip
            /\ chains'[currentChainTip] \in {chains[currentChainTip], proc.chain}
        BY <1>0, <1>1, <2>3, <3>1, <3>2, <3>4 DEF Adopts
      <4> QED
        BY <1>0, <1>a, <2>1, <3>1, <4>1 DEF Live
    <3> QED
      BY <3>3, <3>4
  <2> QED
    BY <1>11, <2>2, <2>3 DEF BranchArrives, Answers, chainVars
<1>12. CASE ApplyToCurrent
  BY <1>0, <1>12, <1>a DEF ApplyToCurrent
<1>13. CASE cleanupFailedHeader
  <2>1. /\ UNCHANGED currentChainTip /\ Parent[proc.header] = currentChainTip
        /\ chains' = [chains EXCEPT ![proc.header] = NoChain, ![Parent[proc.header]] = proc.chain]
        /\ proc.chain \in Ids
    BY <1>0, <1>1, <1>13 DEF cleanupFailedHeader
  <2>2. chains'[currentChainTip] = proc.chain
    BY <1>0, <2>1
  <2> QED
    BY <1>0, <1>a, <2>1, <2>2
<1>14. CASE Restart
  BY <1>0, <1>14, <1>a, SMT DEF Restart, GenesisChains, NoChain
<1>15. CASE UNCHANGED <<chains, currentChainTip, proc>>
  BY <1>15 DEF KeyInv, Live, Extending
<1>16. CASE \E h \in Headers, from \in Origins : Begin(h, from)
  BY <1>2, <1>16 DEF Begin, chainVars, Extending
<1> QED
  BY <1>4, <1>5, <1>6, <1>7, <1>8, <1>9, <1>10, <1>11, <1>12, <1>13, <1>14, <1>15, <1>16
  DEF Next, Connect, Decide, Await, Finish, AnnounceHeader, SubmitBlock, HeaderFetch,
      ParentHeaderArrives, HeaderFetchFails, BlockFetch, ParentBlockArrives, BlockFetchFails,
      ForkFetchEnds, ForkBlocksArrive, ForkFetchFails, chainVars, vars

(* If no request for blocks times out or comes back without any, the head  *)
(* is the key of a chain whenever no header is being processed, also while *)
(* branches are answered in part and background fetches fail.              *)
THEOREM HeadStaysPresent ==
  ASSUME {"timeout", "empty"} \cap Faults = {}
  PROVE  Spec => []HeadPresent
<1>1. Init => KeyInv
  <2>1. Genesis \in Hashes
    BY DEF Hashes
  <2>2. SUFFICES ASSUME Init PROVE currentChainTip \in Live
    BY DEF KeyInv
  <2>3. currentChainTip = Genesis /\ chains = GenesisChains
    BY <2>2 DEF Init
  <2>4. chains[Genesis] = 1
    BY <2>1, <2>3 DEF GenesisChains
  <2> QED
    BY <2>1, <2>3, <2>4, SMT DEF Live, NoChain
<1>2. IInv /\ KeyInv /\ [Next]_vars => KeyInv'
  BY KeyStep
<1>3. KeyInv => HeadPresent
  BY DEF KeyInv, HeadPresent, Extending
<1> QED
  BY <1>1, <1>2, <1>3, Invariance, PTL DEF Spec
=============================================================================
