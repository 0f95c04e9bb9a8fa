------------------------------- MODULE Sharing -------------------------------
(***************************************************************************)
(* How requests share answers: the cache nodes of proxy/pipeline.ts with   *)
(* the stored responses (proxy/response-cache.ts), the requests in flight  *)
(* that others follow (proxy/response-coalesce.ts), the broadcasts of      *)
(* streams (proxy/response-broadcast.ts), and the sink that feeds all      *)
(* three (proxy/response-capture.ts, proxy/protocol-endpoint.ts).          *)
(*                                                                         *)
(* A request passes the cache nodes of its pipeline in order; each has a   *)
(* key, the same for a stream and for a single answer.  A body is what its *)
(* request came to: an answer, or what a failed request left behind.       *)
(*                                                                         *)
(* The lookup is awaited, everything a node does after it is one step.     *)
(* How a request is served is the subject of Forwarding and Readiness.     *)
(***************************************************************************)
EXTENDS Integers, Sequences

CONSTANTS
  Requests,
  Keys,
  Route,      \* Route[r]: the keys of the cache nodes on the way of r
  MaxChunks,  \* bound: chunks of one stream
  Absent

Kinds == {"answer", "failed"}
Body == [sse : BOOLEAN, kind : Kinds]

(* A chunk is named by its request and its number there.                   *)
Chunks == Seq(Requests \X Nat)
Subscription == [key : Keys, got : Chunks, open : BOOLEAN]

ASSUME SharingAssumption ==
  /\ Route \in [Requests -> Seq(Keys) \ {<< >>}]
  /\ MaxChunks \in Nat \ {0}
  /\ Absent \notin Body /\ Absent \notin Chunks /\ Absent \notin Subscription

VARIABLES
  stored,     \* the stored response of a key
  inFlight,   \* the keys that requests may follow
  timers,     \* the 120 s timers of followers, <<r, k>>
  broadcasts, \* the chunks of the broadcast of a key
  stream,     \* whether the client asked for a stream
  pc,         \* where the request stands
  at,         \* the cache node it comes to
  cached,     \* what the awaited lookup found
  heard,      \* what the followed request came to
  sink,       \* the body in the capture sink
  sent,       \* chunks sent so far
  sub,        \* the client's subscription: key, chunks, still open
  how         \* how the request was answered

sharingVars == <<stored, inFlight, timers, broadcasts, stream, pc, at, cached, heard,
                 sink, sent, sub, how>>

Key(r) == Route[r][at[r]]

(* Every node that is passed leaves its key among the cache writes.        *)
Writes(r) == {Route[r][i] : i \in 1..(at[r] - 1)}
First(r) == Route[r][1]

-----------------------------------------------------------------------------
SharingInit ==
  /\ stored = [k \in Keys |-> Absent]
  /\ inFlight = {} /\ timers = {}
  /\ broadcasts = [k \in Keys |-> Absent]
  /\ stream \in [Requests -> BOOLEAN]
  /\ pc = [r \in Requests |-> "lookup"]
  /\ at = [r \in Requests |-> 1]
  /\ cached = [r \in Requests |-> Absent]
  /\ heard = [r \in Requests |-> "nothing"]
  /\ sink = [r \in Requests |-> "nothing"]
  /\ sent = [r \in Requests |-> 0]
  /\ sub = [r \in Requests |-> Absent]
  /\ how = [r \in Requests |-> "open"]

Goes(r, from, to) == pc[r] = from /\ pc' = [pc EXCEPT ![r] = to]

(* Followers whose entry is settled hear its value.                        *)
Followers(ks) == {f \in Requests : pc[f] = "following" /\ heard[f] = "nothing" /\ Key(f) \in ks}

Settle(ks, value) ==
  /\ inFlight' = inFlight \ ks
  /\ heard' = [f \in Requests |-> IF f \in Followers(ks) THEN value ELSE heard[f]]

On(k) == {r \in Requests : sub[r] # Absent /\ sub[r].open /\ sub[r].key = k}

(* Chunks for the broadcasts of some keys, which then may end.             *)
Broadcasts(ks, chunks, ends) ==
  LET live == {k \in ks : broadcasts[k] # Absent} IN
  /\ broadcasts' = [k \in Keys |->
       IF k \notin live THEN broadcasts[k]
       ELSE IF ends THEN Absent ELSE broadcasts[k] \o chunks]
  /\ sub' = [r \in Requests |->
       IF \E k \in live : r \in On(k)
       THEN [sub[r] EXCEPT !.got = @ \o chunks, !.open = ~ends] ELSE sub[r]]

-----------------------------------------------------------------------------
(* The cache node.                                                         *)

Lookup(r) ==
  /\ Goes(r, "lookup", "node")
  /\ at[r] <= Len(Route[r])
  /\ cached' = [cached EXCEPT ![r] = stored[Key(r)]]
  /\ UNCHANGED <<stored, inFlight, timers, broadcasts, stream, at, heard, sink, sent,
                 sub, how>>

(* Answered at the node: the keys written so far are settled with nothing. *)
Hit(r, kind) ==
  /\ Settle(Writes(r), "null")
  /\ how' = [how EXCEPT ![r] = kind]
  /\ UNCHANGED <<timers, at>>

(* Missed: on to the next node.                                            *)
Miss(r) ==
  /\ at' = [at EXCEPT ![r] = @ + 1]
  /\ UNCHANGED how

HitNode(r) ==
  /\ cached[r] # Absent /\ cached[r].sse = stream[r]
  /\ Goes(r, "node", "over")
  /\ Hit(r, cached[r].kind)
  /\ UNCHANGED <<stored, broadcasts, stream, cached, sink, sent, sub>>

Missed(r) == ~(cached[r] # Absent /\ cached[r].sse = stream[r])

(* Seeded fault: a late subscriber is not given the chunks so far.         *)
SubscribedLive(k) == [key |-> k, got |-> << >>, open |-> TRUE]

(* A subscription begins with the chunks so far.                           *)
Subscribed(k) == [key |-> k, got |-> broadcasts[k], open |-> TRUE]

StreamNode(r) ==
  /\ pc[r] = "node" /\ Missed(r) /\ stream[r]
  /\ IF broadcasts[Key(r)] # Absent
     THEN /\ Goes(r, "node", "reading")
          /\ sub' = [sub EXCEPT ![r] = Subscribed(Key(r))]
          /\ Hit(r, "coalesced")
          /\ UNCHANGED broadcasts
     ELSE /\ Goes(r, "node", "lookup")
          /\ broadcasts' = [broadcasts EXCEPT ![Key(r)] = << >>]
          /\ Miss(r)
          /\ UNCHANGED <<inFlight, timers, heard, sub>>
  /\ UNCHANGED <<stored, stream, cached, sink, sent>>

(* Seeded fault: the wait for the owner has no timer.                      *)
FollowForEver(r) ==
  /\ Goes(r, "node", "following")
  /\ Key(r) \in inFlight
  /\ heard' = [heard EXCEPT ![r] = "nothing"]
  /\ UNCHANGED <<inFlight, timers, at, how>>

Follow(r) ==
  /\ Goes(r, "node", "following")
  /\ Key(r) \in inFlight
  /\ heard' = [heard EXCEPT ![r] = "nothing"]
  /\ timers' = timers \cup {<<r, Key(r)>>}
  /\ UNCHANGED <<inFlight, at, how>>

RegisterOwner(r) ==
  /\ Goes(r, "node", "lookup")
  /\ Key(r) \notin inFlight
  /\ inFlight' = inFlight \cup {Key(r)}
  /\ Miss(r)
  /\ UNCHANGED <<timers, heard>>

JsonNode(r) ==
  /\ Missed(r) /\ ~stream[r]
  /\ Follow(r) \/ RegisterOwner(r)
  /\ UNCHANGED <<stored, broadcasts, stream, cached, sink, sent, sub>>

(* The timer settles whatever entry the key has by then.                   *)
TimerFires(r, k) ==
  /\ <<r, k>> \in timers
  /\ timers' = timers \ {<<r, k>>}
  /\ Settle({k}, "null")
  /\ UNCHANGED <<stored, broadcasts, stream, pc, at, cached, sink, sent, sub, how>>

(* A follower that heard nothing of use falls through, unregistered.       *)
FollowerGoesOn(r) ==
  /\ heard[r] # "nothing"
  /\ IF heard[r] \in Kinds
     THEN /\ Goes(r, "following", "over")
          /\ Hit(r, heard[r])
     ELSE /\ Goes(r, "following", "lookup")
          /\ Miss(r)
          /\ UNCHANGED <<inFlight, timers, heard>>
  /\ UNCHANGED <<stored, broadcasts, stream, cached, sink, sent, sub>>

-----------------------------------------------------------------------------
(* Serving what missed every node.                                         *)

AtTarget(r) == pc[r] = "lookup" /\ at[r] > Len(Route[r])

UnchangedByServing == UNCHANGED <<timers, stream, at, cached>>

(* No route, refused, not ready, an error status, left before the body.    *)
(* The sink holds nothing, so that it neither settles nor finishes.  (Nor  *)
(* does anybody for the nodes that a branch of a fusion has passed.)       *)
Unserved(r) ==
  /\ AtTarget(r)
  /\ Goes(r, "lookup", "over")
  /\ how' = [how EXCEPT ![r] = "unserved"]
  /\ UnchangedByServing
  /\ UNCHANGED <<stored, inFlight, broadcasts, heard, sink, sent, sub>>

(* The stream starts.  Its own client reads the broadcast of the first     *)
(* key, where there is one; behind another node it reads the stream.       *)
StreamStarts(r) ==
  /\ AtTarget(r) /\ stream[r]
  /\ Goes(r, "lookup", "body")
  /\ how' = [how EXCEPT ![r] = "body"]
  /\ IF broadcasts[First(r)] # Absent
     THEN sub' \in {sub, [sub EXCEPT ![r] = Subscribed(First(r))]}
     ELSE UNCHANGED sub
  /\ UnchangedByServing
  /\ UNCHANGED <<stored, inFlight, broadcasts, heard, sink, sent>>

Chunk(r) ==
  /\ pc[r] = "body" /\ sent[r] < MaxChunks
  /\ sent' = [sent EXCEPT ![r] = @ + 1]
  /\ Broadcasts(Writes(r), << <<r, sent[r] + 1>> >>, FALSE)
  /\ UnchangedByServing
  /\ UNCHANGED <<stored, inFlight, pc, heard, sink, how>>

(* The stream ends, or it breaks: the upstream fails, the operator stops   *)
(* it, or the owner's client leaves, whose signal the fetch listens to.    *)
BodyEnds(r, kind) ==
  /\ Goes(r, "body", "recording")
  /\ sink' = [sink EXCEPT ![r] = kind]
  /\ UnchangedByServing
  /\ UNCHANGED <<stored, inFlight, broadcasts, heard, sent, sub, how>>

(* A text is set: a single answer, or the answer of the only branch that a *)
(* fusion is left with, which is set whole for a stream too.  The resume   *)
(* loop sets the text it has also where the request failed.                *)
Text(r, kind) ==
  /\ AtTarget(r) /\ (stream[r] => kind = "answer")
  /\ Goes(r, "lookup", "recording")
  /\ sink' = [sink EXCEPT ![r] = kind]
  /\ sent' = [sent EXCEPT ![r] = 1]
  /\ how' = [how EXCEPT ![r] = "text"]
  /\ UnchangedByServing
  /\ UNCHANGED <<stored, inFlight, broadcasts, heard, sub>>

StoresUnder(ks, b) ==
  stored' = [k \in Keys |-> IF k \in ks THEN b ELSE stored[k]]

(* Seeded fault: a stream stores its text, but its broadcasts go on.       *)
RecordStreamAnywhere(r) ==
  /\ how[r] = "body"
  /\ IF sent[r] > 0 THEN StoresUnder(Writes(r), [sse |-> TRUE, kind |-> sink[r]])
     ELSE UNCHANGED stored
  /\ UNCHANGED <<inFlight, heard, broadcasts, sub>>

(* The flush of a sink that was tapped.                                    *)
RecordStream(r) ==
  /\ how[r] = "body"
  /\ IF sent[r] > 0 THEN StoresUnder(Writes(r), [sse |-> TRUE, kind |-> sink[r]])
     ELSE UNCHANGED stored
  /\ Broadcasts(Writes(r), << >>, TRUE)
  /\ UNCHANGED <<inFlight, heard>>

(* The flush of a sink with a text, which may look like an error.  It is   *)
(* stored as a single answer, and no broadcast is given a chunk of it.     *)
RecordText(r) ==
  /\ how[r] = "text"
  /\ IF sink[r] = "error"
     THEN Settle(Writes(r), "null") /\ UNCHANGED stored
     ELSE /\ Settle(Writes(r), sink[r])
          /\ StoresUnder(Writes(r), [sse |-> FALSE, kind |-> sink[r]])
  /\ Broadcasts(Writes(r), << >>, TRUE)

Record(r) ==
  /\ Goes(r, "recording", "over")
  /\ RecordStream(r) \/ RecordText(r)
  /\ UnchangedByServing
  /\ UNCHANGED <<sink, sent, how>>

(* A stream that was buffered by the resume loop: stored under the first   *)
(* key, and sent as one chunk, unless it failed.                           *)
Resumed(r, kind) ==
  /\ AtTarget(r) /\ stream[r]
  /\ Goes(r, "lookup", "over")
  /\ how' = [how EXCEPT ![r] = "resumed"]
  /\ sent' = [sent EXCEPT ![r] = IF kind = "answer" THEN 1 ELSE 0]
  /\ IF kind = "answer" THEN StoresUnder({First(r)}, [sse |-> TRUE, kind |-> kind])
     ELSE UNCHANGED stored
  /\ Broadcasts({First(r)}, IF kind = "answer" THEN << <<r, 1>> >> ELSE << >>, TRUE)
  /\ UnchangedByServing
  /\ UNCHANGED <<inFlight, heard, sink>>

-----------------------------------------------------------------------------
(* A stored response expires, is evicted or cleared.                       *)
Forget(k) ==
  /\ stored[k] # Absent
  /\ stored' = [stored EXCEPT ![k] = Absent]
  /\ UNCHANGED <<inFlight, timers, broadcasts, stream, pc, at, cached, heard, sink,
                 sent, sub, how>>

(* The client of a subscription leaves.                                    *)
Leaves(r) ==
  /\ Goes(r, "reading", "over")
  /\ sub' = [sub EXCEPT ![r] = Absent]
  /\ UNCHANGED <<stored, inFlight, timers, broadcasts, stream, at, cached, heard, sink,
                 sent, how>>

AtNode(r) == HitNode(r) \/ StreamNode(r) \/ JsonNode(r)

Ends(r) ==
  \/ Unserved(r)
  \/ StreamStarts(r)
  \/ \E kind \in Kinds : BodyEnds(r, kind) \/ Resumed(r, kind)
  \/ \E kind \in Kinds \cup {"error"} : Text(r, kind)

SharingNext ==
  \/ \E r \in Requests :
       \/ Lookup(r) \/ AtNode(r) \/ FollowerGoesOn(r) \/ Ends(r) \/ Chunk(r)
       \/ Record(r) \/ Leaves(r)
       \/ \E k \in Keys : TimerFires(r, k)
  \/ \E k \in Keys : Forget(k)

SharingSpec == SharingInit /\ [][SharingNext]_sharingVars

CanGo(r) ==
  \/ pc[r] \in {"lookup", "node", "body", "recording"}
  \/ pc[r] = "following" /\ heard[r] # "nothing"

(* Continuations run, timers fire, and a request that is served ends: an   *)
(* upstream generates no more than its context holds.  (A request takes    *)
(* finitely many steps, so this is weak fairness of its actions.)          *)
Fairness ==
  \A r \in Requests :
    /\ []<>~CanGo(r)
    /\ \A k \in Keys : []<>(<<r, k>> \notin timers)

FairSharingSpec == SharingSpec /\ Fairness

-----------------------------------------------------------------------------
(* Properties.                                                             *)

OnlyStreams(k) == \A q \in Requests : k \in Writes(q) => stream[q]

(* A broadcast is left behind by a request that got no body, was answered  *)
(* at a later node, or was resumed and finished only that of its first.    *)
LeavesBehind(q, k) ==
  /\ stream[q]
  /\ \/ how[q] \in Kinds \cup {"unserved", "coalesced"}
     \/ how[q] = "resumed" /\ k # First(q)

(* What q gives the broadcast of k: nothing of an answer set as a text.    *)
Sends(q, k) ==
  IF LeavesBehind(q, k) \/ how[q] = "text" THEN << >> ELSE [i \in 1..sent[q] |-> <<q, i>>]

(* docs/API_PROXY_RESPONSE_CACHE.md: a subscriber gets "replay buffer +    *)
(* live tail".  Where all requests of a key are streams, whoever           *)
(* subscribes, and whenever, hears one owner from its first chunk to, at   *)
(* the end, its last.  (A single answer ends the broadcast of its key.)    *)
(* The code keeps this unless a fusion hands the owner a text: then the    *)
(* subscribers hear nothing and are closed, see Sends.                     *)
HearsOneOwner ==
  \A r \in Requests :
    sub[r] # Absent /\ OnlyStreams(sub[r].key) =>
      \E q \in Requests :
        /\ sub[r].key \in Writes(q)
        /\ sub[r].got = Sends(q, sub[r].key)
        /\ ~sub[r].open => pc[q] = "over" /\ ~LeavesBehind(q, sub[r].key)

(* Nobody waits for ever for another request: in the end no follower is    *)
(* left, whatever became of the owners, and whoever still reads a          *)
(* broadcast reads one that was left behind.                               *)
WaitersEnd ==
  <>[](\A r \in Requests :
         /\ pc[r] # "following"
         /\ sub[r] # Absent /\ sub[r].open =>
              \E q \in Requests :
                sub[r].key \in Writes(q) /\ LeavesBehind(q, sub[r].key))

(* docs/API_PROXY_RESPONSE_CACHE.md: "a failed owner never poisons the     *)
(* herd".  No request is answered with what a failed one left behind.      *)
FailedOwnersPoisonNobody == \A r \in Requests : how[r] # "failed"
=============================================================================
