---------------------------- MODULE RequestsProofs ----------------------------
(***************************************************************************)
(* Requests keep RInv, for any number of goroutines, requests and peers;   *)
(* from it follow that no channel is closed twice, that a goroutine is not *)
(* woken without an answer, and that Requests implements RequestSpec.      *)
(***************************************************************************)
EXTENDS Requests, TLAPS

(* A leaf is proved by Zenon, unless it names SMT for its arithmetic, its  *)
(* sequences or its records, or PTL.                                       *)
USE Zenon

(* An answer that is appended comes last.                                  *)
LEMMA AppendAnswer ==
  ASSUME NEW S, NEW old \in Seq(S), NEW a \in S
  PROVE  /\ Append(old, a) \in Seq(S) /\ Append(old, a) # <<>>
         /\ \A n \in DOMAIN Append(old, a) :
              (n \in DOMAIN old /\ Append(old, a)[n] = old[n]) \/ Append(old, a)[n] = a
  <1>1. /\ Append(old, a) \in Seq(S)
        /\ Len(Append(old, a)) = Len(old) + 1
        /\ Len(old) \in Nat
        /\ DOMAIN old = 1 .. Len(old)
        /\ DOMAIN Append(old, a) = 1 .. Len(old) + 1
    BY SMT
  <1>2. Append(old, a) # <<>>
    BY <1>1, SMT
  <1>3. ASSUME NEW n \in 1 .. Len(old) + 1
        PROVE  (n \in 1 .. Len(old) /\ Append(old, a)[n] = old[n]) \/ Append(old, a)[n] = a
    BY <1>1, SMT
  <1> QED BY <1>1, <1>2, <1>3

(* The table is empty at first.                                            *)
LEMMA RequestsInit == Init => RInv
  BY RequestsAssumption, SMT DEF Init, RInv, TypeOK, Ids, Fresh, Registered, InOrder, Answers

(* A goroutine that is not idle has made the request it waits for.         *)
LEMMA OpenRequest ==
  ASSUME RInv, NEW d \in Callers, pc[d] # "idle"
  PROVE  InOrder(d) /\ num[d] \in Ids /\ num[d] <= made
  <1>1. InOrder(d) /\ num[d] \in 0 .. made /\ made \in 0 .. MaxRequests
    BY DEF RInv, TypeOK
  <1> QED BY <1>1, RequestsAssumption, SMT DEF InOrder, Ids

(* AddMessageToPending opens a request under an id that nothing carries.   *)
LEMMA AddPreserves ==
  ASSUME RInv, NEW c \in Callers, AddMessageToPending(c)
  PROVE  RInv'
  <1> DEFINE i == made + 1
  <1> USE RequestsAssumption DEF AddMessageToPending, RInv, TypeOK, Ids, uuid
  <1>1. i \in Ids /\ i > made /\ Fresh(i)
    BY SMT
  <1>2. TypeOK'
    <2>1. num' \in [Callers -> 0 .. made']
      BY SMT
    <2>2. PendingRequestsWaiters' \in [Ids -> SUBSET Ids]
      BY <1>1
    <2> QED BY <2>1, <2>2, SMT
  <1>3. ASSUME NEW j \in Ids
        PROVE  (j > made' => Fresh(j)') /\ Registered(j)'
    <2>1. CASE j = i
      BY <1>1, <2>1, SMT DEF Fresh, Registered
    <2>2. CASE j # i
      <3>1. PendingRequestsWaiters'[j] = PendingRequestsWaiters[j]
        BY <2>2
      <3>2. Registered(j) /\ (j > made' => Fresh(j))
        BY SMT
      <3> QED BY <3>1, <3>2 DEF Fresh, Registered
    <2> QED BY <2>1, <2>2
  <1>4. \A h \in notifying' : PendingRequests'[h.id] # <<>>
    OBVIOUS
  <1>5. ASSUME NEW d \in Callers, pc'[d] # "idle"
        PROVE  InOrder(d)'
    <2>1. CASE d = c
      <3>1. /\ pc'[d] = "added" /\ num'[d] = i /\ i > 0 /\ i \in PendingRequestsWaiters'[i]
            /\ \A e \in Callers : e # c => num'[e] # i
        BY <1>1, <2>1, SMT
      <3>2. UNCHANGED <<PendingRequests, requests, responses>>
        OBVIOUS
      <3> HIDE DEF i, AddMessageToPending, RInv, TypeOK
      <3> QED BY <1>1, <2>1, <3>1, <3>2, SMT DEF Fresh, InOrder
    <2>2. CASE d # c
      <3>1. /\ pc'[d] = pc[d] /\ num'[d] = num[d] /\ want'[d] = want[d]
            /\ num[d] # i /\ num[d] \in Ids
            /\ InOrder(d)
        BY <1>5, <2>2, SMT DEF InOrder
      <3>2. PendingRequestsWaiters'[num[d]] = PendingRequestsWaiters[num[d]]
        BY <3>1
      <3>3. \A e \in Callers : pc'[e] # "idle" /\ num'[e] = num'[d] => e = d
        BY <3>1 DEF InOrder
      <3> QED BY <3>1, <3>2, <3>3, SMT DEF InOrder
    <2> QED BY <2>1, <2>2
  <1> QED BY <1>2, <1>3, <1>4, <1>5

(* Request sends what the goroutine wants, or panics.                      *)
LEMMA RequestPreserves ==
  ASSUME RInv, NEW c \in Callers, Request(c)
  PROVE  RInv'
  <1> USE RequestsAssumption DEF Request, table, RInv, TypeOK, Ids, uuid, messageID
  <1>1. num[c] \in Ids /\ num[c] <= made
    <2> HIDE DEF RInv
    <2> QED BY OpenRequest
  <1>2. PICK connected \in Connected :
          requests' \subseteq requests \cup
            {[id |-> num[c], to |-> p, hashes |-> want[c]] : p \in connected}
    OBVIOUS
  <1>3. ASSUME NEW r \in requests'
        PROVE  r \in requests \/ (r.id = num[c] /\ r.hashes = want[c]
                                  /\ r \in [id : Ids, to : Peers, hashes : SUBSET Hashes])
    BY <1>1, <1>2, SMT
  <1>4. pc' \in [Callers -> {"idle", "added", "waiting", "woken"}]
        /\ crashed' \in {"no", "index"}
    OBVIOUS
  <1>5. TypeOK'
    BY <1>3, <1>4
  <1>6. ASSUME NEW j \in Ids
        PROVE  (j > made' => Fresh(j)') /\ Registered(j)'
    <2>1. j > made => Fresh(j)'
      <3> SUFFICES ASSUME j > made PROVE Fresh(j)'
        OBVIOUS
      <3>1. Fresh(j)
        OBVIOUS
      <3>2. j # num[c]
        BY <1>1, SMT
      <3>3. \A r \in requests' : r.id # j
        BY <1>3, <3>1, <3>2 DEF Fresh
      <3> QED BY <3>1, <3>3 DEF Fresh
    <2>2. Registered(j)'
      BY DEF Registered
    <2> QED BY <2>1, <2>2
  <1>7. ASSUME NEW d \in Callers, pc'[d] # "idle"
        PROVE  InOrder(d)'
    <2>1. pc[d] # "idle" /\ InOrder(d) /\ (pc'[d] = "woken" => pc[d] = "woken")
      BY <1>7
    <2>2. \A e \in Callers : pc'[e] # "idle" => pc[e] # "idle"
      OBVIOUS
    <2>3. ASSUME NEW r \in requests', r.id = num[d]
          PROVE  r.hashes = want[d]
      BY <1>3, <2>1, <2>3 DEF InOrder
    <2> QED BY <2>1, <2>2, <2>3 DEF InOrder
  <1> QED BY <1>4, <1>5, <1>6, <1>7

(* Wake, TimeOut and GetDataFromMessage change what a goroutine does.      *)
LEMMA WakePreserves ==
  ASSUME RInv, NEW c \in Callers, Wake(c)
  PROVE  RInv'
  <1> USE RequestsAssumption DEF Wake, table, RInv, TypeOK, Ids
  <1>1. ASSUME NEW d \in Callers, pc'[d] # "idle"
        PROVE  InOrder(d)'
    <2>1. pc[d] # "idle" /\ InOrder(d)
      BY <1>1
    <2>2. pc'[d] = "woken" => num[d] \in closed
      BY <2>1 DEF InOrder
    <2>3. \A e \in Callers : pc'[e] # "idle" => pc[e] # "idle"
      OBVIOUS
    <2> QED BY <2>1, <2>2, <2>3 DEF InOrder
  <1>2. TypeOK'
    OBVIOUS
  <1> QED BY <1>1, <1>2 DEF Fresh, Registered

(* The end of a request, by its timer or with its answer, preserves the    *)
(* invariant.                                                              *)
LEMMA EndPreserves ==
  ASSUME RInv, NEW c \in Callers, TimeOut(c) \/ GetDataFromMessage(c)
  PROVE  RInv'
  <1> USE RequestsAssumption DEF TimeOut, GetDataFromMessage, table, RInv, TypeOK, Ids
  <1>1. ASSUME NEW d \in Callers, pc'[d] # "idle"
        PROVE  InOrder(d)'
    <2>1. pc[d] # "idle" /\ InOrder(d) /\ pc'[d] = pc[d]
      BY <1>1
    <2>2. \A e \in Callers : pc'[e] # "idle" => pc[e] # "idle"
      OBVIOUS
    <2> QED BY <2>1, <2>2 DEF InOrder
  <1>2. got' \in [Callers -> SUBSET SUBSET Hashes]
    <2>1. CASE TimeOut(c)
      BY <2>1
    <2>2. CASE GetDataFromMessage(c)
      <3> DEFINE answers == PendingRequests[num[c]]
      <3>1. answers \in Seq(Answers)
        <4>1. InOrder(c)
          BY <2>2
        <4>2. num[c] \in Ids
          BY <4>1, SMT DEF InOrder
        <4> QED BY <4>2
      <3> HIDE DEF answers
      <3>2. \A n \in DOMAIN answers : answers[n].blocks \in SUBSET Hashes
        <4>1. \A n \in DOMAIN answers : answers[n] \in Answers
          BY <3>1, SMT
        <4> QED BY <4>1 DEF Answers
      <3>3. UNION {answers[n].blocks : n \in DOMAIN answers} \in SUBSET Hashes
        BY <3>2, SMT
      <3>4. answers # <<>> => 1 \in DOMAIN answers
        BY <3>1, SMT
      <3>5. Fetched(kind[c], answers) \in SUBSET SUBSET Hashes
        BY <3>2, <3>3, <3>4, SMT DEF Fetched
      <3> QED BY <2>2, <3>5 DEF messageID, uuid, answers
    <2> QED BY <2>1, <2>2
  <1>3. TypeOK'
    BY <1>2
  <1>4. UNCHANGED <<table, made, requests, responses, notifying, crashed>>
    OBVIOUS
  <1>5. ASSUME NEW j \in Ids
        PROVE  (j > made' => Fresh(j)') /\ Registered(j)'
    BY <1>4 DEF Fresh, Registered
  <1>6. \A h \in notifying' : PendingRequests'[h.id] # <<>>
    BY <1>4
  <1> QED BY <1>1, <1>3, <1>4, <1>5, <1>6

(* A peer's answer is what it holds of the blocks asked for.               *)
LEMMA OnRequestPreserves ==
  ASSUME RInv, NEW q \in requests, onRequest(q)
  PROVE  RInv'
  <1> DEFINE a == [id |-> q.id, from |-> q.to, blocks |-> Holds[q.to] \cap q.hashes]
  <1> USE RequestsAssumption DEF onRequest, table, goroutines, RInv, TypeOK, Ids
  <1>1. a \in [id : Ids, from : Peers, blocks : SUBSET Hashes] /\ a.id <= made
    BY SMT DEF Fresh
  <1>2. requests' \subseteq requests /\ responses' = responses \cup {a}
        /\ UNCHANGED <<table, goroutines, notifying, crashed>>
    OBVIOUS
  <1>3. TypeOK'
    BY <1>1, <1>2
  <1>4. ASSUME NEW j \in Ids
        PROVE  (j > made' => Fresh(j)') /\ Registered(j)'
    <2>1. (j > made => Fresh(j)) /\ Registered(j) /\ made \in Nat /\ a.id \in Nat
      BY <1>1, SMT
    <2> HIDE DEF a, onRequest, RInv, TypeOK
    <2>2. j > made => Fresh(j)'
      BY <1>1, <1>2, <2>1, SMT DEF Fresh
    <2>3. Registered(j)'
      BY <1>2, <2>1 DEF Registered
    <2> QED BY <1>2, <2>2, <2>3
  <1>5. ASSUME NEW d \in Callers, pc'[d] # "idle"
        PROVE  InOrder(d)'
    <2>1. InOrder(d)
      BY <1>5
    <2>2. a.id = num[d] => a.blocks = Holds[a.from] \cap want[d]
      BY <2>1 DEF InOrder
    <2> HIDE DEF a
    <2> QED BY <1>2, <2>1, <2>2 DEF InOrder
  <1>6. \A h \in notifying' : PendingRequests'[h.id] # <<>>
    BY <1>2
  <1> QED BY <1>2, <1>3, <1>4, <1>5, <1>6

(* An answer that is stored has a handler that will close the channels.    *)
LEMMA OnResponsePreserves ==
  ASSUME RInv, NEW r \in responses, onResponse(r)
  PROVE  RInv'
  <1> DEFINE a == [from |-> r.from, blocks |-> r.blocks]
             h == [id |-> r.id, from |-> r.from]
  <1> USE RequestsAssumption DEF onResponse, goroutines, RInv, TypeOK, Ids
  <1>1. r.id \in Ids /\ r.id <= made /\ a \in Answers /\ h \in [id : Ids, from : Peers]
    BY SMT DEF Fresh, Answers
  <1>2. responses' \subseteq responses
        /\ UNCHANGED <<PendingRequestsWaiters, closed, goroutines, requests>>
    OBVIOUS
  <1>3. CASE crashed' = "nil" /\ UNCHANGED <<PendingRequests, notifying>>
    <2>1. TypeOK'
      BY <1>2, <1>3
    <2>2. ASSUME NEW d \in Callers, pc'[d] # "idle" PROVE InOrder(d)'
      <3> HIDE DEF onResponse, RInv, TypeOK
      <3>1. InOrder(d)
        BY <1>2, <2>2, OpenRequest
      <3> QED BY <1>2, <1>3, <3>1 DEF InOrder
    <2>3. ASSUME NEW j \in Ids PROVE (j > made' => Fresh(j)') /\ Registered(j)'
      <3>1. j > made => Fresh(j)'
        BY <1>2, <1>3 DEF Fresh
      <3>2. Registered(j)'
        BY <1>2, <1>3 DEF Registered
      <3> QED BY <1>2, <3>1, <3>2
    <2> QED BY <1>2, <1>3, <2>1, <2>2, <2>3
  <1>4. CASE /\ PendingRequests' = [PendingRequests EXCEPT ![r.id] = Append(@, a)]
             /\ notifying' = notifying \cup {h}
             /\ crashed' = crashed
    <2> DEFINE old == PendingRequests[r.id]
    <2>1. old \in Seq(Answers)
      BY <1>1
    <2>2. Append(old, a) \in Seq(Answers) /\ Append(old, a) # <<>>
      <3> HIDE DEF a, old, RInv, TypeOK, onResponse
      <3> QED BY <1>1, <2>1, AppendAnswer
    <2>3. /\ PendingRequests'[r.id] = Append(old, a)
          /\ \A j \in Ids : j # r.id => PendingRequests'[j] = PendingRequests[j]
      BY <1>1, <1>4
    <2>4. TypeOK'
      BY <1>1, <1>2, <1>4, <2>2
    <2>5. ASSUME NEW j \in Ids PROVE (j > made' => Fresh(j)') /\ Registered(j)'
      <3>1. CASE j = r.id
        <4>1. PendingRequests'[j] # <<>>
          <5> HIDE DEF a, old
          <5> QED BY <2>2, <2>3, <3>1
        <4>2. h \in notifying' /\ h.id = j /\ ~(j > made')
          BY <1>1, <1>2, <1>4, <3>1, SMT
        <4>3. PendingRequestsWaiters'[j] \subseteq {j} \ closed'
          BY <1>2 DEF Registered
        <4> HIDE DEF h
        <4> QED BY <4>1, <4>2, <4>3 DEF Registered
      <3>2. CASE j # r.id
        <4>1. PendingRequests'[j] = PendingRequests[j] /\ Registered(j) /\ (j > made => Fresh(j))
          BY <2>3, <3>2
        <4>2. j > made => Fresh(j)'
          <5>1. \A g \in notifying' : g.id = j => g \in notifying
            BY <1>4, <3>2, SMT
          <5>2. \A q \in responses' : q \in responses
            BY <1>2
          <5> QED BY <1>2, <4>1, <5>1, <5>2 DEF Fresh
        <4>3. Registered(j)'
          BY <1>2, <1>4, <4>1 DEF Registered
        <4> QED BY <1>2, <4>2, <4>3
      <3> QED BY <3>1, <3>2
    <2>6. ASSUME NEW d \in Callers, pc'[d] # "idle" PROVE InOrder(d)'
      <3>1. InOrder(d) /\ num[d] \in Ids
        <4> HIDE DEF onResponse, RInv, TypeOK
        <4> QED BY <1>2, <2>6, OpenRequest
      <3>2. \A n \in DOMAIN PendingRequests'[num[d]] :
              LET b == PendingRequests'[num[d]][n] IN b.blocks = Holds[b.from] \cap want[d]
        <4>1. CASE num[d] # r.id
          BY <2>3, <3>1, <4>1 DEF InOrder
        <4>2. CASE num[d] = r.id
          <5>1. a.blocks = Holds[a.from] \cap want[d]
            BY <3>1, <4>2 DEF InOrder
          <5>2. \A n \in DOMAIN old : old[n].blocks = Holds[old[n].from] \cap want[d]
            BY <3>1, <4>2 DEF InOrder
          <5>3. \A n \in DOMAIN Append(old, a) :
                  (n \in DOMAIN old /\ Append(old, a)[n] = old[n]) \/ Append(old, a)[n] = a
            <6> HIDE DEF a, old, RInv, TypeOK, onResponse
            <6> QED BY <1>1, <2>1, AppendAnswer
          <5>4. PendingRequests'[num[d]] = Append(old, a)
            BY <2>3, <4>2
          <5> DEFINE new == Append(old, a)
          <5>5. \A n \in DOMAIN new : new[n].blocks = Holds[new[n].from] \cap want[d]
            <6> HIDE DEF a, old
            <6> QED BY <5>1, <5>2, <5>3
          <5> HIDE DEF new, a, old
          <5> QED BY <5>4, <5>5 DEF new
        <4> QED BY <4>1, <4>2
      <3> HIDE DEF onResponse, RInv, TypeOK, a, old
      <3> QED BY <1>2, <3>1, <3>2 DEF InOrder
    <2>7. ASSUME NEW g \in notifying' PROVE PendingRequests'[g.id] # <<>>
      <3>1. g.id \in Ids /\ (g.id = r.id \/ PendingRequests[g.id] # <<>>)
        BY <1>1, <1>4, SMT
      <3> HIDE DEF onResponse, RInv, TypeOK, a, old
      <3> QED BY <2>2, <2>3, <3>1
    <2> QED BY <1>4, <2>4, <2>5, <2>6, <2>7
  <1> QED BY <1>3, <1>4

(* The handler closes channels that are registered, hence not closed.      *)
LEMMA NotifyPreserves ==
  ASSUME RInv, NEW h \in notifying, NotifyMessageWaiters(h)
  PROVE  RInv'
  <1> USE RequestsAssumption DEF NotifyMessageWaiters, goroutines, RInv, TypeOK, Ids
  <1>1. h.id \in Ids /\ h.id <= made /\ PendingRequests[h.id] # <<>>
    BY SMT DEF Fresh
  <1>2. PendingRequestsWaiters[h.id] \subseteq {h.id} \ closed
    BY <1>1 DEF Registered
  <1>3. /\ notifying' = notifying \ {h}
        /\ closed' \subseteq closed \cup {h.id} /\ closed \subseteq closed'
        /\ crashed' = "no"
        /\ PendingRequestsWaiters'[h.id] = {}
        /\ \A j \in Ids : j # h.id => PendingRequestsWaiters'[j] = PendingRequestsWaiters[j]
        /\ UNCHANGED <<PendingRequests, goroutines, requests, responses>>
    BY <1>1, <1>2
  <1>4. TypeOK'
    BY <1>1, <1>3
  <1>4a. \A j \in Ids : PendingRequestsWaiters[j] \subseteq closed' \cup PendingRequestsWaiters'[j]
    BY <1>1, <1>3
  <1>5. ASSUME NEW j \in Ids
        PROVE  (j > made' => Fresh(j)') /\ Registered(j)'
    <2>1. CASE j = h.id
      BY <1>1, <1>3, <2>1, SMT DEF Registered
    <2>2. CASE j # h.id
      <3>1. /\ PendingRequestsWaiters'[j] = PendingRequestsWaiters[j]
            /\ (j \in closed' <=> j \in closed)
            /\ Registered(j) /\ (j > made => Fresh(j))
        BY <1>3, <2>2
      <3>2. j > made => Fresh(j)'
        BY <1>3, <3>1 DEF Fresh
      <3>3. \A g \in notifying : g.id = j => g \in notifying'
        BY <1>3, <2>2
      <3>4. Registered(j)'
        BY <1>3, <3>1, <3>3 DEF Registered
      <3> QED BY <1>3, <3>2, <3>4
    <2> QED BY <2>1, <2>2
  <1>6. ASSUME NEW d \in Callers, pc'[d] # "idle"
        PROVE  InOrder(d)'
    <2> HIDE DEF NotifyMessageWaiters, RInv, TypeOK
    <2>1. InOrder(d) /\ num[d] \in Ids
      BY <1>3, <1>6, OpenRequest
    <2>2. num[d] \in closed' \cup PendingRequestsWaiters'[num[d]]
      BY <1>3, <1>4a, <2>1 DEF InOrder
    <2> QED BY <1>3, <2>1, <2>2 DEF InOrder
  <1> QED BY <1>3, <1>4, <1>5, <1>6

(* No step of a goroutine or a handler leaves RInv.                        *)
LEMMA RequestsStep == RInv /\ [Next]_vars => RInv'
  <1> SUFFICES ASSUME RInv, [Next]_vars PROVE RInv'
    OBVIOUS
  <1>1. CASE \E c \in Callers : AddMessageToPending(c)
    BY <1>1, AddPreserves
  <1>2. CASE \E c \in Callers : Request(c)
    BY <1>2, RequestPreserves
  <1>3. CASE \E c \in Callers : Wake(c)
    BY <1>3, WakePreserves
  <1>4. CASE \E c \in Callers : TimeOut(c) \/ GetDataFromMessage(c)
    BY <1>4, EndPreserves
  <1>5. CASE \E r \in requests : onRequest(r)
    BY <1>5, OnRequestPreserves
  <1>6. CASE \E r \in responses : onResponse(r)
    BY <1>6, OnResponsePreserves
  <1>7. CASE \E h \in notifying : NotifyMessageWaiters(h)
    BY <1>7, NotifyPreserves
  <1>8. CASE UNCHANGED vars
    <2>1. TypeOK'
      BY <1>8 DEF vars, RInv, TypeOK
    <2>2. ASSUME NEW j \in Ids PROVE (j > made' => Fresh(j)') /\ Registered(j)'
      BY <1>8 DEF vars, RInv, Fresh, Registered
    <2>3. ASSUME NEW d \in Callers, pc'[d] # "idle" PROVE InOrder(d)'
      BY <1>8, <2>3 DEF vars, RInv, InOrder
    <2> QED BY <1>8, <2>1, <2>2, <2>3 DEF vars, RInv
  <1> QED BY <1>1, <1>2, <1>3, <1>4, <1>5, <1>6, <1>7, <1>8 DEF Next

(* The table of pending requests keeps RInv: answers that are stored late, *)
(* twice or between a timeout and the next request never reach a request   *)
(* they do not belong to.                                                  *)
THEOREM RequestsInvariance == Spec => []RInv
  BY RequestsInit, RequestsStep, PTL DEF Spec

(* No handler of an answer panics on a channel that is closed already.     *)
THEOREM ClosedOnce == Spec => []NoSecondClose
  <1>1. RInv => NoSecondClose
    BY DEF RInv, NoSecondClose
  <1> QED BY <1>1, RequestsInvariance, PTL

(* A goroutine that leaves the select by its channel has an answer to use. *)
THEOREM WokenFindsAnswer == Spec => []WokenHasAnswer
  <1>1. RInv => WokenHasAnswer
    <2> SUFFICES ASSUME RInv, NEW c \in Callers, pc[c] = "woken"
                 PROVE  PendingRequests[messageID(c)] # <<>>
      BY DEF WokenHasAnswer
    <2>1. num[c] \in closed /\ num[c] \in Ids
      BY DEF RInv, TypeOK, InOrder
    <2> QED BY <2>1 DEF RInv, Registered, messageID, uuid
  <1> QED BY <1>1, RequestsInvariance, PTL

(* No wake-up is lost: a stored answer has a handler that is going to      *)
(* close the channel of the goroutine that waits for it, or has closed it. *)
THEOREM NoLostWakeUp == Spec => []WakeUpPending
  <1>1. RInv => WakeUpPending
    <2> SUFFICES ASSUME RInv, NEW c \in Callers, pc[c] = "waiting",
                        PendingRequests[messageID(c)] # <<>>, num[c] \notin closed
                 PROVE  \E h \in notifying : num[c] \in PendingRequestsWaiters[h.id]
      BY DEF WakeUpPending
    <2>1. num[c] \in Ids /\ num[c] \in PendingRequestsWaiters[num[c]]
      BY OpenRequest DEF InOrder
    <2>2. PICK h \in notifying : h.id = num[c]
      BY <2>1 DEF RInv, Registered, messageID, uuid
    <2> QED BY <2>1, <2>2
  <1> QED BY <1>1, RequestsInvariance, PTL

(* What a goroutine fetches is what some peers hold of what it wants.      *)
LEMMA FetchedIsAnswer ==
  ASSUME RInv, NEW c \in Callers, pc[c] = "woken"
  PROVE  \E Q \in (SUBSET Peers) \ {{}} :
           Fetched(kind[c], PendingRequests[num[c]]) = {Promise!Answer(Q, want[c])}
  <1> DEFINE answers == PendingRequests[num[c]]
             Q == {answers[n].from : n \in DOMAIN answers}
  <1>1. InOrder(c) /\ num[c] \in Ids /\ num[c] \in closed
    BY DEF RInv, TypeOK, InOrder
  <1>2. answers \in Seq(Answers) /\ answers # <<>>
    BY <1>1 DEF RInv, TypeOK, Registered
  <1>3. \A n \in DOMAIN answers : answers[n].blocks = Holds[answers[n].from] \cap want[c]
    BY <1>1 DEF InOrder
  <1> HIDE DEF answers
  <1>4. 1 \in DOMAIN answers /\ \A n \in DOMAIN answers : answers[n] \in Answers
    BY <1>2, SMT
  <1>5. \A n \in DOMAIN answers : answers[n].from \in Peers
    BY <1>4 DEF Answers
  <1>6. CASE kind[c] = "blocks"
    <2>1. Q \in (SUBSET Peers) \ {{}}
      BY <1>4, <1>5
    <2>2. {answers[n].blocks : n \in DOMAIN answers} = {Holds[p] \cap want[c] : p \in Q}
      BY <1>3
    <2>3. Fetched(kind[c], answers) = {Promise!Answer(Q, want[c])}
      BY <1>2, <1>6, <2>2 DEF Fetched, Promise!Answer
    <2> QED BY <2>1, <2>3 DEF answers
  <1>7. CASE kind[c] # "blocks"
    <2> DEFINE p == answers[1].from
    <2>1. p \in Peers /\ answers[1].blocks = Holds[p] \cap want[c]
      BY <1>3, <1>4, <1>5
    <2> HIDE DEF p
    <2>2. Promise!Answer({p}, want[c]) = Holds[p] \cap want[c]
      BY DEF Promise!Answer
    <2>3. Fetched(kind[c], answers) = {Promise!Answer({p}, want[c])}
      BY <1>2, <1>7, <2>1, <2>2 DEF Fetched
    <2> QED BY <2>1, <2>3 DEF answers
  <1> QED BY <1>6, <1>7

(* Every step is a step of RequestSpec or changes nothing it speaks of.    *)
LEMMA PromiseStep == RInv /\ [Next]_vars => [Promise!PromisedNext]_(Promise!promised)
  <1> SUFFICES ASSUME RInv, [Next]_vars
               PROVE  Promise!PromisedNext \/ UNCHANGED Promise!promised
    OBVIOUS
  <1> DEFINE asking == [c \in Callers |-> IF pc[c] = "idle" THEN {} ELSE {want[c]}]
  <1> USE DEF RInv, TypeOK
  <1>1. ASSUME NEW c \in Callers, AddMessageToPending(c)
        PROVE  Promise!Ask(c)
    <2>1. PICK hashes \in SUBSET Hashes : want' = [want EXCEPT ![c] = hashes]
      BY <1>1 DEF AddMessageToPending
    <2>2. asking[c] = {} /\ got' = got
      BY <1>1 DEF AddMessageToPending
    <2>3. asking' = [asking EXCEPT ![c] = {hashes}]
      BY <1>1, <2>1 DEF AddMessageToPending
    <2> QED BY <2>1, <2>2, <2>3 DEF Promise!Ask
  <1>2. ASSUME NEW c \in Callers, Request(c) \/ Wake(c)
        PROVE  UNCHANGED Promise!promised
    <2>1. asking' = asking /\ got' = got
      BY <1>2 DEF Request, Wake
    <2> QED BY <2>1 DEF Promise!promised
  <1>3. ASSUME NEW c \in Callers, TimeOut(c)
        PROVE  Promise!EndTimedOut(c)
    <2>1. asking[c] # {} /\ asking' = [asking EXCEPT ![c] = {}]
      BY <1>3 DEF TimeOut
    <2>2. got' = [got EXCEPT ![c] = {}]
      BY <1>3 DEF TimeOut
    <2> QED BY <2>1, <2>2 DEF Promise!EndTimedOut
  <1>4. ASSUME NEW c \in Callers, GetDataFromMessage(c)
        PROVE  Promise!EndAnswered(c)
    <2>1. PICK Q \in (SUBSET Peers) \ {{}} :
            Fetched(kind[c], PendingRequests[num[c]]) = {Promise!Answer(Q, want[c])}
      BY <1>4, FetchedIsAnswer DEF GetDataFromMessage
    <2>2. got' = [got EXCEPT ![c] = {Promise!Answer(Q, want[c])}]
      BY <1>4, <2>1 DEF GetDataFromMessage, messageID, uuid
    <2>3. want[c] \in asking[c] /\ asking' = [asking EXCEPT ![c] = {}]
      BY <1>4 DEF GetDataFromMessage
    <2> QED BY <2>1, <2>2, <2>3 DEF Promise!EndAnswered
  <1>5. ASSUME \/ \E r \in requests : onRequest(r)
               \/ \E r \in responses : onResponse(r)
               \/ \E h \in notifying : NotifyMessageWaiters(h)
               \/ UNCHANGED vars
        PROVE  UNCHANGED Promise!promised
    <2>1. UNCHANGED <<pc, want, got>>
      BY <1>5 DEF onRequest, onResponse, NotifyMessageWaiters, goroutines, vars
    <2> QED BY <2>1 DEF Promise!promised
  <1> QED BY <1>1, <1>2, <1>3, <1>4, <1>5 DEF Next, Promise!PromisedNext

(* Requests, with all that can be late, lost or repeated, are the requests *)
(* that Node takes them to be: they end by their timer or with what one or *)
(* more peers hold of the blocks asked for.                                *)
THEOREM PromiseKept == Spec => KeepsPromise
  <1>1. Init => Promise!PromisedInit
    BY DEF Init, Promise!PromisedInit
  <1> QED BY <1>1, PromiseStep, RequestsInvariance, PTL
          DEF Spec, KeepsPromise, Promise!PromisedSpec
===============================================================================
