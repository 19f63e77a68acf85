------------------------------- MODULE Requests -------------------------------
(***************************************************************************)
(* Requests for blocks and headers between peers: the table of pending     *)
(* requests (libnet/utils.go), the requests and the handlers of rpc/       *)
(* blocks.go and rpc/headers.go, and how the goroutines of the node        *)
(* (node/header_processing.go) use them.                                   *)
(*                                                                         *)
(* A goroutine registers a channel under a new message id, sends to the    *)
(* peers and waits for the channel or a timer.  Each answer has a handler  *)
(* of its own, which stores it under PendingRequestsMu, releases the lock  *)
(* and takes it again to close the channels.  Requests are sent in one     *)
(* step: a request that leaves later is one that travels longer, and one   *)
(* that is lost, or whose stream does not open, one that never arrives:    *)
(* no message has to.  An entry that was never made reads as an empty one, *)
(* as in a Go map.                                                         *)
(***************************************************************************)
EXTENDS Naturals, Sequences, FiniteSets

CONSTANTS
  Callers,              \* goroutines that make requests
  MaxRequests,          \* how many requests are made
  Peers,
  Connected,            \* the sets of peers that may be connected
  MaxPeersForRequest,   \* config.MaxPeersForRequest
  Hashes,               \* what can be asked for
  Holds                 \* Holds[p]: what peer p has

ASSUME RequestsAssumption ==
  /\ MaxRequests \in Nat
  /\ Connected \subseteq SUBSET Peers
  /\ Holds \in [Peers -> SUBSET Hashes]

(* The n-th request has the n-th channel and the n-th message id.          *)
Ids == 1 .. MaxRequests

VARIABLES
  PendingRequests,              \* PendingRequests[id]: the answers so far
  PendingRequestsWaiters,       \* PendingRequestsWaiters[id]: the channels
  closed,                       \* the channels that are closed
  made,                         \* the number of requests made
  pc, kind, num, want,          \* of a goroutine: the request it is making
  got,                          \* {b} when its last one brought b, or {}
  requests, responses,          \* on their way
  notifying,                    \* handlers that have stored their answer
  crashed                       \* why the process panicked, or "no"

table == <<PendingRequests, PendingRequestsWaiters, closed>>
goroutines == <<made, pc, kind, num, want, got>>
vars == <<PendingRequests, PendingRequestsWaiters, closed, made, pc, kind, num, want, got,
          requests, responses, notifying, crashed>>

Answers == [from : Peers, blocks : SUBSET Hashes]

Init ==
  /\ PendingRequests = [i \in Ids |-> <<>>]
  /\ PendingRequestsWaiters = [i \in Ids |-> {}]
  /\ closed = {}
  /\ made = 0
  /\ pc = [c \in Callers |-> "idle"]
  /\ kind = [c \in Callers |-> "blocks"]
  /\ num = [c \in Callers |-> 0]
  /\ want = [c \in Callers |-> {}]
  /\ got = [c \in Callers |-> {}]
  /\ requests = {} /\ responses = {} /\ notifying = {}
  /\ crashed = "no"

-----------------------------------------------------------------------------
(* The goroutines                                                          *)

\* Mutant: ids are used twice.
uuidTwice(n) == (n + 1) \div 2

(* uuid.New: every request has an id of its own.                           *)
uuid(n) == n

messageID(c) == uuid(num[c])

(* fetchParentForOrphan asks for one header and, once it is there, for its *)
(* block; the other callers ask for any number of blocks.                  *)
HasHeader(c) == kind[c] = "header" /\ got[c] # {} /\ got[c] # {{}}

AsksFor(c, k, hashes) ==
  \/ HasHeader(c) /\ k = "parent" /\ hashes = want[c]
  \/ ~HasHeader(c) /\ k = "header" /\ \E h \in Hashes : hashes = {h}
  \/ ~HasHeader(c) /\ k = "blocks" /\ hashes # {}

AddMessageToPending(c) ==
  /\ pc[c] = "idle" /\ crashed = "no" /\ made < MaxRequests
  /\ \E k \in {"header", "parent", "blocks"}, hashes \in SUBSET Hashes :
       /\ AsksFor(c, k, hashes)
       /\ kind' = [kind EXCEPT ![c] = k]
       /\ want' = [want EXCEPT ![c] = hashes]
  /\ pc' = [pc EXCEPT ![c] = "added"]
  /\ made' = made + 1
  /\ num' = [num EXCEPT ![c] = made + 1]
  /\ PendingRequestsWaiters' =
       [PendingRequestsWaiters EXCEPT ![uuid(made + 1)] = @ \cup {made + 1}]
  /\ UNCHANGED <<PendingRequests, closed, got, requests, responses, notifying, crashed>>

(* SamplePeers returns all the peers when there are at most as many as it  *)
(* may return, and otherwise runs off the end of its result.               *)
SamplePanics(connected) == Cardinality(connected) > MaxPeersForRequest

(* RequestBlocks, RequestHeaders.                                          *)
Request(c) ==
  /\ pc[c] = "added" /\ crashed = "no"
  /\ \E connected \in Connected :
       \/ /\ SamplePanics(connected)
          /\ crashed' = "index"
          /\ UNCHANGED <<pc, requests>>
       \/ /\ ~SamplePanics(connected)
          /\ pc' = [pc EXCEPT ![c] = "waiting"]
          /\ requests' = requests \cup
               {[id |-> messageID(c), to |-> p, hashes |-> want[c]] : p \in connected}
          /\ crashed' = crashed
  /\ UNCHANGED <<table, made, kind, num, want, got, responses, notifying>>

(* The two cases of the select: Go takes either when both are ready.       *)
Wake(c) ==
  /\ pc[c] = "waiting" /\ crashed = "no"
  /\ num[c] \in closed
  /\ pc' = [pc EXCEPT ![c] = "woken"]
  /\ UNCHANGED <<table, made, kind, num, want, got, requests, responses, notifying, crashed>>

TimeOut(c) ==
  /\ pc[c] = "waiting" /\ crashed = "no"
  /\ pc' = [pc EXCEPT ![c] = "idle"]
  /\ got' = [got EXCEPT ![c] = {}]
  /\ UNCHANGED <<table, made, kind, num, want, requests, responses, notifying, crashed>>

(* What the goroutine takes from the answers: the first one on behalf of   *)
(* an orphan, a map of all of them otherwise, nothing if there is none.    *)
Fetched(k, data) ==
  IF data = <<>> THEN {}
  ELSE IF k = "blocks" THEN {UNION {data[n].blocks : n \in DOMAIN data}}
  ELSE {data[1].blocks}

GetDataFromMessage(c) ==
  /\ pc[c] = "woken" /\ crashed = "no"
  /\ pc' = [pc EXCEPT ![c] = "idle"]
  /\ got' = [got EXCEPT ![c] = Fetched(kind[c], PendingRequests[messageID(c)])]
  /\ UNCHANGED <<table, made, kind, num, want, requests, responses, notifying, crashed>>

-----------------------------------------------------------------------------
(* The handlers                                                            *)

(* onBlocksRequest, onHeadersRequest at a peer: it answers with what it    *)
(* has, be it nothing.                                                     *)
onRequest(r) ==
  /\ crashed = "no"
  /\ requests' = requests \ {r}
  /\ responses' = responses \cup
       {[id |-> r.id, from |-> r.to, blocks |-> Holds[r.to] \cap r.hashes]}
  /\ UNCHANGED <<table, goroutines, notifying, crashed>>

\* Mutant: an answer without blocks is not stored, but notified.
onResponseSkips(r) ==
  /\ crashed = "no"
  /\ responses' = responses \ {r}
  /\ PendingRequests' =
       IF r.blocks = {} THEN PendingRequests
       ELSE [PendingRequests EXCEPT ![r.id] = Append(@, [from |-> r.from, blocks |-> r.blocks])]
  /\ notifying' = notifying \cup {[id |-> r.id, from |-> r.from]}
  /\ UNCHANGED <<PendingRequestsWaiters, closed, goroutines, requests, crashed>>

\* Mutant: an answer without blocks is stored, but not notified.
onResponseQuiet(r) ==
  /\ crashed = "no"
  /\ responses' = responses \ {r}
  /\ PendingRequests' = [PendingRequests EXCEPT ![r.id] =
       Append(@, [from |-> r.from, blocks |-> r.blocks])]
  /\ notifying' = IF r.blocks = {} THEN notifying
                  ELSE notifying \cup {[id |-> r.id, from |-> r.from]}
  /\ UNCHANGED <<PendingRequestsWaiters, closed, goroutines, requests, crashed>>

(* The first half of onBlocksResponse and onHeadersResponse.  A message    *)
(* that cannot be read is only logged: its MessageData is nil.             *)
onResponse(r) ==
  /\ crashed = "no"
  /\ responses' = responses \ {r}
  /\ \/ /\ PendingRequests' = [PendingRequests EXCEPT ![r.id] =
             Append(@, [from |-> r.from, blocks |-> r.blocks])]
        /\ notifying' = notifying \cup {[id |-> r.id, from |-> r.from]}
        /\ crashed' = crashed
     \/ /\ crashed' = "nil"
        /\ UNCHANGED <<PendingRequests, notifying>>
  /\ UNCHANGED <<PendingRequestsWaiters, closed, goroutines, requests>>

\* Mutant: the list of channels is kept when they have been closed.
NotifyMessageWaitersKeeps(h) ==
  /\ crashed = "no"
  /\ notifying' = notifying \ {h}
  /\ closed' = closed \cup PendingRequestsWaiters[h.id]
  /\ crashed' = IF closed \cap PendingRequestsWaiters[h.id] = {} THEN "no" ELSE "close"
  /\ UNCHANGED <<PendingRequests, PendingRequestsWaiters, goroutines, requests, responses>>

(* The second half: closing a channel twice panics.                        *)
NotifyMessageWaiters(h) ==
  /\ crashed = "no"
  /\ notifying' = notifying \ {h}
  /\ closed' = closed \cup PendingRequestsWaiters[h.id]
  /\ crashed' = IF closed \cap PendingRequestsWaiters[h.id] = {} THEN "no" ELSE "close"
  /\ PendingRequestsWaiters' = [PendingRequestsWaiters EXCEPT ![h.id] = {}]
  /\ UNCHANGED <<PendingRequests, goroutines, requests, responses>>

Next ==
  \/ \E c \in Callers : \/ AddMessageToPending(c)
                        \/ Request(c)
                        \/ Wake(c)
                        \/ TimeOut(c)
                        \/ GetDataFromMessage(c)
  \/ \E r \in requests : onRequest(r)
  \/ \E r \in responses : onResponse(r)
  \/ \E h \in notifying : NotifyMessageWaiters(h)

Spec == Init /\ [][Next]_vars

(* Handlers and woken goroutines go on running.  The timers are left out,  *)
(* so that what is promised below is not the work of a timeout.            *)
FairSpec ==
  /\ Spec
  /\ \A c \in Callers : WF_vars(Wake(c))
  /\ WF_vars(\E h \in notifying : NotifyMessageWaiters(h))

-----------------------------------------------------------------------------
(* What the requests promise                                               *)

TypeOK ==
  /\ PendingRequests \in [Ids -> Seq(Answers)]
  /\ PendingRequestsWaiters \in [Ids -> SUBSET Ids]
  /\ closed \in SUBSET Ids
  /\ made \in 0 .. MaxRequests
  /\ pc \in [Callers -> {"idle", "added", "waiting", "woken"}]
  /\ kind \in [Callers -> {"header", "parent", "blocks"}]
  /\ num \in [Callers -> 0 .. made]
  /\ want \in [Callers -> SUBSET Hashes]
  /\ got \in [Callers -> SUBSET SUBSET Hashes]
  /\ requests \in SUBSET [id : Ids, to : Peers, hashes : SUBSET Hashes]
  /\ responses \in SUBSET [id : Ids, from : Peers, blocks : SUBSET Hashes]
  /\ notifying \in SUBSET [id : Ids, from : Peers]
  /\ crashed \in {"no", "index", "nil", "close"}

(* An id carries nothing before its request is made.                       *)
Fresh(i) ==
  /\ PendingRequests[i] = <<>> /\ PendingRequestsWaiters[i] = {} /\ i \notin closed
  /\ \A r \in requests : r.id # i
  /\ \A r \in responses : r.id # i
  /\ \A h \in notifying : h.id # i

(* A channel is registered only under its own id and until it is closed,   *)
(* and closed only after an answer was stored; while it is registered,     *)
(* every stored answer has a handler that is about to close it.            *)
Registered(i) ==
  /\ PendingRequestsWaiters[i] \subseteq {i} \ closed
  /\ i \in closed => PendingRequests[i] # <<>>
  /\ PendingRequests[i] # <<>> /\ PendingRequestsWaiters[i] # {} =>
       \E h \in notifying : h.id = i

(* The request that goroutine c is making is its own, its channel is       *)
(* registered or closed, and all that is under way for it is what a peer   *)
(* holds of the blocks that c wants.                                       *)
InOrder(c) ==
  /\ num[c] > 0
  /\ \A d \in Callers : pc[d] # "idle" /\ num[d] = num[c] => d = c
  /\ num[c] \in closed \cup PendingRequestsWaiters[num[c]]
  /\ pc[c] = "woken" => num[c] \in closed
  /\ \A r \in requests : r.id = num[c] => r.hashes = want[c]
  /\ \A r \in responses : r.id = num[c] => r.blocks = Holds[r.from] \cap want[c]
  /\ \A n \in DOMAIN PendingRequests[num[c]] :
       LET a == PendingRequests[num[c]][n] IN a.blocks = Holds[a.from] \cap want[c]

(* The inductive invariant of the proofs: requests do not touch each       *)
(* other, though late answers to all of them are stored in one table.      *)
RInv ==
  /\ TypeOK
  /\ \A i \in Ids : (i > made => Fresh(i)) /\ Registered(i)
  /\ \A h \in notifying : PendingRequests[h.id] # <<>>
  /\ \A c \in Callers : pc[c] # "idle" => InOrder(c)
  /\ crashed # "close"

(* Several peers answer one request, each through a handler of its own     *)
(* that closes the channels of the request (NotifyMessageWaiters): none of *)
(* them closes a channel that another has closed, which would panic.       *)
NoSecondClose == crashed # "close"

(* A goroutine that the channel has woken finds an answer, so that the     *)
(* callers may index the first one (headerData[0], blockData[0]) and       *)
(* "Failed to fetch" without an answer never happens.                      *)
WokenHasAnswer == \A c \in Callers : pc[c] = "woken" => PendingRequests[messageID(c)] # <<>>

(* The safety half of StoredAnswerWakes, between the two critical sections *)
(* of onResponse and NotifyMessageWaiters: whenever an answer is stored    *)
(* for a goroutine that waits, its channel is closed already or some       *)
(* handler is still going to close it, though a handler closes the         *)
(* channels of all the answers that were stored before it ran.             *)
WakeUpPending ==
  \A c \in Callers :
    pc[c] = "waiting" /\ PendingRequests[messageID(c)] # <<>> =>
      num[c] \in closed \/ \E h \in notifying : num[c] \in PendingRequestsWaiters[h.id]

(* No wake-up is lost between a handler's two critical sections: an answer *)
(* that has been stored for a waiting goroutine ends its wait, without the *)
(* timer, as long as the process lives.                                    *)
StoredAnswerWakes ==
  \A c \in Callers :
    (pc[c] = "waiting" /\ PendingRequests[messageID(c)] # <<>>)
      ~> (pc[c] # "waiting" \/ crashed # "no")

(* A request as its goroutine sees it: open while it is not idle, and      *)
(* ended with what was fetched.                                            *)
Promise == INSTANCE RequestSpec WITH
  asking <- [c \in Callers |-> IF pc[c] = "idle" THEN {} ELSE {want[c]}],
  result <- got

(* The requests keep what RequestSpec promises: whatever is lost, late or  *)
(* answered twice, a request ends by its timer or with what some of the    *)
(* peers hold of the blocks it asked for, never with the answer to an      *)
(* earlier request.                                                        *)
KeepsPromise == Promise!PromisedSpec
===============================================================================
