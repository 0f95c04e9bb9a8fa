------------------------------ MODULE Forwarding ------------------------------
(***************************************************************************)
(* One request from its lease to its answer: serveResolvedTarget of        *)
(* proxy/protocol-endpoint.ts, the resume loop of                          *)
(* proxy/resumable-forward.ts, and its entry in proxy/inflight.ts, through *)
(* which an operator forces, finishes or cancels it.                       *)
(*                                                                         *)
(* A generation is a sequence of thoughts, then of tokens, then of pieces  *)
(* of a tool call, each named by their positions: an upstream that is sent *)
(* a tail goes on behind the tail, which never holds a call.  When the     *)
(* upstream ends, or whether it does, is left open.                        *)
(*                                                                         *)
(* Aborting a fetch and seeing it fail are two steps; what an event does   *)
(* to the signals, and what a continuation does up to its next await, are  *)
(* one.  The lease is granted, preempted and aborted by DomainCoordinator; *)
(* readiness is the subject of Readiness.                                  *)
(***************************************************************************)
EXTENDS Integers, Sequences

CONSTANTS
  Modes,       \* which ways of answering the runs look at
  MaxAttempts, \* maxAttempts of runResumableForward
  MaxThoughts, \* bound: thoughts of a generation
  MaxTokens,   \* bound: tokens of a generation
  MaxPieces,   \* bound: pieces of its tool call
  None

AllModes == {"resumable", "buffered", "streamed", "plain"}

ASSUME ForwardingAssumption ==
  /\ Modes \subseteq AllModes
  /\ MaxAttempts \in Nat \ {0}
  /\ MaxThoughts \in Nat /\ MaxTokens \in Nat /\ MaxPieces \in Nat
  /\ None \notin Seq(Nat)

VARIABLES
  mode,        \* how the request is answered
  pc,          \* where its handler stands
  fetch,       \* the upstream request: none, open, or aborted
  upstream,    \* what the upstream has behind it; closed: its think block is
  lease,       \* queued, held or released
  preempted,   \* the preempt signal of the lease is aborted
  stops,       \* which of finish, cancel and the client's own signal are aborted
  interrupt,   \* the interrupt controller of the entry: none, live or aborted
  entry,       \* the entry: listed, phase, interruptible
  state,       \* the resume buffer: reasoning, text and toolCalls
  preemptions, \* counted by the resume loop
  forceNext,   \* forceAnswerNext
  prefix,      \* forceAnswerPrefix: the reasoning it closes
  torn,        \* history: an upstream broke off in a call and was resumed
  result       \* what the client gets

loopVars == <<preemptions, forceNext, prefix, torn>>
vars == <<mode, pc, fetch, upstream, lease, preempted, stops, interrupt, entry,
          state, loopVars, result>>

Results == {"none", "answer", "partial", "aborted", "error"}

Upstreams == [thoughts : Nat, tokens : Nat, pieces : Nat, closed : BOOLEAN]
Entries ==
  [at : {"listed", "swept", "ended"},
   phase : {"queued", "prefilling", "thinking", "generating", "tool"},
   interruptible : BOOLEAN]
Buffers == [reasoning : Seq(Nat), text : Seq(Nat), call : Seq(Nat)]

(* inToolPhase: set with the first piece of a call, and never reset.       *)
InTool == state.call # << >>

UpTo(n) == [i \in 1..n |-> i]

-----------------------------------------------------------------------------
Init ==
  /\ mode \in Modes
  /\ pc = "queued"
  /\ fetch = "none"
  /\ upstream = [thoughts |-> 0, tokens |-> 0, pieces |-> 0, closed |-> FALSE]
  /\ lease = "queued"
  /\ preempted = FALSE
  /\ stops = {}
  /\ interrupt = "none"
  /\ entry = [at |-> "listed", phase |-> "queued", interruptible |-> FALSE]
  /\ state = [reasoning |-> << >>, text |-> << >>, call |-> << >>]
  /\ preemptions = 0 /\ forceNext = FALSE /\ prefix = None /\ torn = FALSE
  /\ result = "none"

(* The handler returns or throws, or the body of its response settles: the *)
(* lease is released and the request recorded, which ends its entry.       *)
Over(r, e) ==
  /\ pc' = "over"
  /\ fetch' = "none"
  /\ lease' = "released"
  /\ entry' = [e EXCEPT !.at = "ended"]
  /\ result' = r

(* acquire() or yield() is resolved.                                       *)
Granted ==
  /\ pc \in {"queued", "yielding"}
  /\ pc' = "readying"
  /\ lease' = "held"
  /\ preempted' = FALSE
  /\ entry' = [entry EXCEPT !.interruptible = mode = "resumable"]
  /\ UNCHANGED <<mode, fetch, upstream, stops, interrupt, state, loopVars, result>>

NotReady ==
  /\ pc = "readying"
  /\ Over("error", entry)
  /\ UNCHANGED <<mode, upstream, preempted, stops, interrupt, state, loopVars>>

-----------------------------------------------------------------------------
(* The resume loop.                                                        *)

(* Seeded fault: the text so far is not put behind a forced prefix.        *)
TailWithBarePrefix(pre) ==
  IF forceNext THEN [think |-> state.reasoning, text |-> << >>]
  ELSE IF pre # None THEN [think |-> pre, text |-> << >>]
  ELSE IF preemptions = 0 THEN [think |-> None, text |-> << >>]
  ELSE [think |-> None, text |-> state.text]

(* The tail of the next attempt: the think block it closes and the text.   *)
NextTail(pre) ==
  IF forceNext THEN [think |-> state.reasoning, text |-> << >>]
  ELSE IF pre # None THEN [think |-> pre, text |-> state.text]
  ELSE IF preemptions = 0 THEN [think |-> None, text |-> << >>]
  ELSE [think |-> None, text |-> state.text]

NoTail(t) == t.think = None /\ t.text = << >>

(* The upstream goes on behind the tail.                                   *)
Behind(t) ==
  [thoughts |-> 0, tokens |-> Len(t.text), pieces |-> 0, closed |-> ~NoTail(t)]

(* Seeded fault: one attempt too many.                                     *)
PreemptedOnceMore(e) ==
  /\ preemptions' = preemptions + 1
  /\ IF preemptions + 1 > MaxAttempts THEN Over("partial", e)
     ELSE /\ pc' = "yielding" /\ lease' = "queued" /\ fetch' = "none"
          /\ entry' = e
          /\ UNCHANGED result

(* The attempt ended preempted: give up after maxAttempts, else yield.     *)
Preempted(e) ==
  /\ preemptions' = preemptions + 1
  /\ IF preemptions + 1 >= MaxAttempts THEN Over("partial", e)
     ELSE /\ pc' = "yielding" /\ lease' = "queued" /\ fetch' = "none"
          /\ entry' = e
          /\ UNCHANGED result

(* The client left or the operator cancelled, or finished.                 *)
Stopped(e) ==
  Over(IF stops \cap {"client", "cancel"} # {} THEN "aborted" ELSE "partial", e)

(* The entry as dispatched() leaves it.                                    *)
Dispatched ==
  [entry EXCEPT !.phase = IF @ = "queued" THEN "prefilling" ELSE @]

Opens ==
  /\ pc' = "headers" /\ fetch' = "open"
  /\ entry' = Dispatched
  /\ UNCHANGED <<lease, result>>

(* Seeded fault: a signal that was aborted earlier is only listened to.    *)
BeginsAnyway == Opens /\ UNCHANGED preemptions

(* What runResumableUpstreamAttempt does before its fetch.                 *)
Begins ==
  IF stops # {} THEN Stopped(Dispatched) /\ UNCHANGED preemptions
  ELSE IF preempted THEN Preempted(Dispatched)
  ELSE Opens /\ UNCHANGED preemptions

(* Every attempt takes its tail and a fresh interrupt signal.              *)
BeginAttempt ==
  /\ pc = "readying" /\ mode = "resumable"
  /\ \E t \in {NextTail(prefix)} :
       /\ prefix' = t.think
       /\ forceNext' = FALSE
       /\ upstream' = Behind(t)
       /\ state' = IF NoTail(t) THEN [state EXCEPT !.reasoning = << >>] ELSE state
  /\ interrupt' = "live"
  /\ Begins
  /\ UNCHANGED <<mode, preempted, stops, torn>>

(* The other modes fetch once, with the signals joined.                    *)
Fetch ==
  /\ pc = "readying" /\ mode # "resumable"
  /\ IF "client" \in stops THEN Over("aborted", entry)
     ELSE IF stops # {} THEN Over("error", entry)
     ELSE Opens
  /\ UNCHANGED <<mode, upstream, preempted, stops, interrupt, state, loopVars>>

(* Seeded fault: the response of a stream is recorded when it starts.      *)
HeadersRecorded ==
  /\ pc = "headers" /\ fetch = "open"
  /\ pc' = "body"
  /\ entry' = [entry EXCEPT !.at = IF mode = "streamed" THEN "ended" ELSE @]
  /\ UNCHANGED <<mode, fetch, upstream, lease, preempted, stops, interrupt, state,
                 loopVars, result>>

Headers ==
  /\ pc = "headers" /\ fetch = "open"
  /\ pc' = "body"
  /\ UNCHANGED <<mode, fetch, upstream, lease, preempted, stops, interrupt, entry,
                 state, loopVars, result>>

(* The frames.  A stream that is not parsed leaves the entry alone.        *)
Frame == pc = "body" /\ fetch = "open" /\ mode # "plain"

UnchangedByFrame ==
  UNCHANGED <<mode, pc, fetch, lease, preempted, stops, interrupt, loopVars, result>>

Thought ==
  /\ Frame
  /\ ~upstream.closed /\ upstream.thoughts < MaxThoughts
  /\ upstream' = [upstream EXCEPT !.thoughts = @ + 1]
  /\ state' = [state EXCEPT !.reasoning = Append(@, upstream'.thoughts)]
  /\ entry' = [entry EXCEPT !.phase = IF @ = "prefilling" THEN "thinking" ELSE @]
  /\ UnchangedByFrame

Token ==
  /\ Frame
  /\ upstream.pieces = 0 /\ upstream.tokens < MaxTokens
  /\ upstream' = [upstream EXCEPT !.tokens = @ + 1, !.closed = TRUE]
  /\ state' = [state EXCEPT !.text = Append(@, upstream'.tokens)]
  /\ entry' = [entry EXCEPT !.phase = "generating"]
  /\ UnchangedByFrame

(* The pieces are put behind what the buffer has of a call.                *)
ToolCall ==
  /\ Frame
  /\ upstream.pieces < MaxPieces
  /\ upstream' = [upstream EXCEPT !.pieces = @ + 1, !.closed = TRUE]
  /\ state' = [state EXCEPT !.call = Append(@, upstream'.pieces)]
  /\ entry' = [entry EXCEPT !.phase = "tool"]
  /\ UnchangedByFrame

UpstreamEnds ==
  /\ pc = "body" /\ fetch = "open"
  /\ Over("answer", entry)
  /\ UNCHANGED <<mode, upstream, preempted, stops, interrupt, state, loopVars>>

(* No connection, an error status, or a body that breaks.  Where the       *)
(* preempt signal is aborted and only a tool call has kept the fetch open, *)
(* anything but an error status counts as preempted.                       *)
UpstreamFails ==
  /\ fetch = "open"
  /\ \/ /\ mode # "resumable" \/ ~preempted \/ pc = "headers"
        /\ Over("error", entry) /\ UNCHANGED <<preemptions, torn>>
     \/ /\ mode = "resumable" /\ preempted
        /\ Preempted(entry) /\ torn' = TRUE
  /\ UNCHANGED <<mode, upstream, preempted, stops, interrupt, state, forceNext, prefix>>

(* An aborted attempt: an interrupted one begins again under its lease.    *)
AttemptAborted ==
  /\ fetch = "aborted" /\ mode = "resumable"
  /\ IF stops # {} THEN Stopped(entry) /\ UNCHANGED <<preemptions, forceNext>>
     ELSE IF interrupt = "aborted"
     THEN /\ pc' = "readying" /\ fetch' = "none" /\ forceNext' = TRUE
          /\ UNCHANGED <<lease, entry, result, preemptions>>
     ELSE Preempted(entry) /\ UNCHANGED forceNext
  /\ UNCHANGED <<mode, upstream, preempted, stops, interrupt, state, prefix, torn>>

(* Otherwise only a body that is being buffered can be finished; any other *)
(* abort is an error, unless it is the client's.                           *)
FetchAborted ==
  /\ fetch = "aborted" /\ mode # "resumable"
  /\ IF mode = "buffered" /\ pc = "body" THEN Stopped(entry)
     ELSE Over(IF "client" \in stops THEN "aborted" ELSE "error", entry)
  /\ UNCHANGED <<mode, upstream, preempted, stops, interrupt, state, loopVars>>

-----------------------------------------------------------------------------
(* The events.                                                             *)

AbortedIf(b) == IF b /\ fetch = "open" THEN "aborted" ELSE fetch

(* Seeded fault: a tool call is not waited for.                            *)
PreemptInTool ==
  /\ lease = "held" /\ ~preempted
  /\ preempted' = TRUE
  /\ fetch' = AbortedIf(mode = "resumable")
  /\ UNCHANGED <<mode, pc, upstream, lease, stops, interrupt, entry, state, loopVars,
                 result>>

(* The coordinator asks for the lease; a tool call is waited for.          *)
Preempt ==
  /\ lease = "held" /\ ~preempted
  /\ preempted' = TRUE
  /\ fetch' = AbortedIf(mode = "resumable" /\ ~InTool)
  /\ UNCHANGED <<mode, pc, upstream, lease, stops, interrupt, entry, state, loopVars,
                 result>>

(* requestForceAnswer, where it answers ok.                                *)
ForceAnswer ==
  /\ entry.at = "listed" /\ entry.interruptible /\ entry.phase = "thinking"
  /\ interrupt' = "aborted"
  /\ fetch' = AbortedIf(interrupt = "live")
  /\ UNCHANGED <<mode, pc, upstream, lease, preempted, stops, entry, state, loopVars,
                 result>>

(* requestFinish and requestCancel.                                        *)
Stop(how) ==
  /\ entry.at = "listed"
  /\ stops' = stops \cup {how}
  /\ fetch' = AbortedIf(TRUE)
  /\ UNCHANGED <<mode, pc, upstream, lease, preempted, interrupt, entry, state,
                 loopVars, result>>

(* The client leaves: a queued lease is rejected, a held one released.     *)
ClientLeaves ==
  /\ pc # "over" /\ "client" \notin stops
  /\ stops' = stops \cup {"client"}
  /\ IF lease = "queued" THEN Over("error", entry)
     ELSE /\ lease' = "released"
          /\ fetch' = AbortedIf(TRUE)
          /\ UNCHANGED <<pc, entry, result>>
  /\ UNCHANGED <<mode, upstream, preempted, interrupt, state, loopVars>>

(* sweepStale drops an entry without progress for 90 minutes.              *)
Sweep ==
  /\ entry.at = "listed"
  /\ entry' = [entry EXCEPT !.at = "swept"]
  /\ UNCHANGED <<mode, pc, fetch, upstream, lease, preempted, stops, interrupt, state,
                 loopVars, result>>

-----------------------------------------------------------------------------
Next ==
  \/ Granted \/ NotReady \/ BeginAttempt \/ Fetch \/ Headers
  \/ Thought \/ Token \/ ToolCall \/ UpstreamEnds \/ UpstreamFails
  \/ AttemptAborted \/ FetchAborted
  \/ Preempt \/ ForceAnswer \/ Stop("finish") \/ Stop("cancel") \/ ClientLeaves \/ Sweep

Spec == Init /\ [][Next]_vars

(* A queued lease is granted in the end (EventuallyServed of the           *)
(* coordinator), readiness ends (RequestsEnd of Readiness), an aborted     *)
(* fetch fails.  Nothing is assumed of the upstream.                       *)
Fairness ==
  /\ WF_vars(Granted)
  /\ WF_vars(NotReady \/ BeginAttempt \/ Fetch)
  /\ WF_vars(AttemptAborted \/ FetchAborted)

FairSpec == Spec /\ Fairness

-----------------------------------------------------------------------------
(* Properties.                                                             *)

(* Every variable holds a value of its type, and the resume loop is left   *)
(* after maxAttempts preemptions.                                          *)
TypeOK ==
  /\ mode \in AllModes
  /\ pc \in {"queued", "readying", "headers", "body", "yielding", "over"}
  /\ fetch \in {"none", "open", "aborted"}
  /\ upstream \in Upstreams
  /\ lease \in {"queued", "held", "released"}
  /\ preempted \in BOOLEAN
  /\ stops \subseteq {"finish", "cancel", "client"}
  /\ interrupt \in {"none", "live", "aborted"}
  /\ entry \in Entries
  /\ state \in Buffers
  /\ preemptions \in 0..MaxAttempts /\ forceNext \in BOOLEAN
  /\ prefix \in Seq(Nat) \cup {None} /\ torn \in BOOLEAN
  /\ result \in Results

(* docs/API_PROXY_PREEMPTION.md: the text of resumed attempts "appends     *)
(* cleanly to the buffer".  However preemptions and forced answers are     *)
(* mixed, no token and no thought of the final response is repeated or     *)
(* missing.                                                                *)
AnswerIsSeamless ==
  /\ state.text = UpTo(Len(state.text))
  /\ state.reasoning = UpTo(Len(state.reasoning))

(* While an upstream generates that nobody has told to stop, its request   *)
(* holds its lease and counts as busy, unless it was swept.                *)
GeneratesUnderLease ==
  fetch = "open" => lease = "held" /\ entry.at # "ended"

(* docs/API_PROXY_PREEMPTION.md: a preemption waits for a tool call, and   *)
(* tool calls are "accumulated structurally".  Once one has begun only the *)
(* operator and the client abort an attempt, and the call in the buffer is *)
(* what one upstream sent of it, without a gap or a repetition.  The code  *)
(* keeps the second half unless an upstream breaks off while a preemption  *)
(* waits for its call: that attempt is resumed, and the call of the next   *)
(* one is put behind the half that is there.                               *)
ToolCallsAreWhole ==
  /\ InTool /\ fetch = "aborted" => stops # {}
  /\ torn \/ state.call = UpTo(Len(state.call))

(* Although its upstream might go on for ever, a request that is finished, *)
(* cancelled or left by its client ends, wherever it stood, and a          *)
(* preempted generation gives its lease back, unless the buffer has begun  *)
(* a tool call.                                                            *)
StopsAreHeard ==
  /\ stops # {} ~> pc = "over"
  /\ mode = "resumable" /\ preempted ~> lease # "held" \/ InTool
=============================================================================
