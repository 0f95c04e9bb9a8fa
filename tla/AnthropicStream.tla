---------------------------- MODULE AnthropicStream ----------------------------
(***************************************************************************)
(* One streamed answer on its way from an OpenAI upstream to an Anthropic  *)
(* client: createAnthropicSseEmitter of packages/anthropic-openai-bridge   *)
(* and the transform of proxy/translation.ts that feeds it.                *)
(*                                                                         *)
(* A payload of the upstream is a record of what the emitter looks at.     *)
(* What it says is named by the number of its payload, and the events of   *)
(* one payload are handed to the client together.  The client is modelled  *)
(* as far as the protocol goes: it keeps the blocks it was told of, and    *)
(* every piece with the index of its block, and is lost at the first event *)
(* that does not fit them.                                                 *)
(***************************************************************************)
EXTENDS Integers, Sequences

CONSTANTS
  Payloads,    \* the payloads an upstream may send
  MaxPayloads, \* bound: payloads of one stream
  None

Opt(S) == S \cup {None}
Max0(i) == IF i > 0 THEN i ELSE 0

Reasons == {"stop", "length", "tool_calls", "content_filter"}
Calls == [tool : Nat, args : BOOLEAN]
PayloadRecords ==
  [progress : Opt([total : Nat, cache : Nat]),
   usage : Opt([prompt : Opt(Nat), cached : Opt(Nat), completion : Opt(Nat)]),
   think : BOOLEAN, call : Opt(Calls), next : Opt(Calls), text : BOOLEAN,
   finish : Opt(Reasons)]

Blocks == [kind : {"thinking", "text", "tool"}, tool : Nat]
Pieces == [block : Blocks, index : Nat, at : Nat]

ASSUME StreamAssumption ==
  /\ Payloads \subseteq PayloadRecords
  /\ MaxPayloads \in Nat
  /\ None \notin Nat \cup Reasons \cup Calls \cup Blocks
  /\ None \notin [total : Nat, cache : Nat]
  /\ None \notin [prompt : Opt(Nat), cached : Opt(Nat), completion : Opt(Nat)]

VARIABLES
  n,       \* payloads so far
  stream,  \* the upstream's body: open, ended or broken
  emitter, \* the state of the emitter
  reader,  \* what the client has made of the events
  sent     \* history: what the upstream has said, in turns

vars == <<n, stream, emitter, reader, sent>>

Thinking == [kind |-> "thinking", tool |-> 0]
Text == [kind |-> "text", tool |-> 0]
Tool(i) == [kind |-> "tool", tool |-> i]
Piece(block, index, at) == [block |-> block, index |-> index, at |-> at]

-----------------------------------------------------------------------------
(* The client.  After an error event it reads no further.                  *)
Lost(r) == IF r.at = "failed" THEN r ELSE [r EXCEPT !.at = "lost"]
InBlock(r, index) == r.at = "message" /\ r.open /\ index = Len(r.blocks) - 1

ReadStart(r) == IF r.at = "none" THEN [r EXCEPT !.at = "message"] ELSE Lost(r)

ReadOpen(r, index, block) ==
  IF r.at = "message" /\ ~r.open /\ index = Len(r.blocks)
  THEN [r EXCEPT !.open = TRUE, !.signed = FALSE, !.blocks = Append(@, block)]
  ELSE Lost(r)

ReadDelta(r, index, kind, at) ==
  IF InBlock(r, index) /\ r.blocks[Len(r.blocks)].kind = kind
  THEN [r EXCEPT !.got = Append(@, Piece(r.blocks[Len(r.blocks)], index, at))]
  ELSE Lost(r)

ReadSignature(r, index) ==
  IF InBlock(r, index) THEN [r EXCEPT !.signed = TRUE] ELSE Lost(r)

ReadStop(r, index) ==
  IF /\ InBlock(r, index)
     /\ r.signed = (r.blocks[Len(r.blocks)].kind = "thinking")
  THEN [r EXCEPT !.open = FALSE]
  ELSE Lost(r)

(* message_delta and message_stop, which are sent together.                *)
ReadEnd(r, reason, usage) ==
  IF r.at = "message" /\ ~r.open
  THEN [r EXCEPT !.at = "stopped", !.reason = reason, !.usage = usage]
  ELSE Lost(r)

ReadPing(r) == IF r.at = "message" THEN r ELSE Lost(r)

ReadError(r) == IF r.at \in {"none", "message"} THEN [r EXCEPT !.at = "failed"] ELSE Lost(r)

-----------------------------------------------------------------------------
(* The emitter.  Its operators take and return its state e with the client *)
(* r that reads what it emits.                                             *)

(* Seeded fault: a thinking block is closed without its signature.         *)
CloseBlockUnsigned(s) ==
  IF s.e.block = None THEN s
  ELSE [e |-> [s.e EXCEPT !.block = None], r |-> ReadStop(s.r, s.e.nextIndex - 1)]

CloseBlock(s) ==
  IF s.e.block = None THEN s
  ELSE LET index == s.e.nextIndex - 1
           signed == IF s.e.block.kind = "thinking" THEN ReadSignature(s.r, index) ELSE s.r
       IN  [e |-> [s.e EXCEPT !.block = None], r |-> ReadStop(signed, index)]

(* Seeded fault: the index of a tool call is not looked at.                *)
OpenBlockOfKind(s, block) ==
  IF s.e.block # None /\ s.e.block.kind = block.kind THEN s
  ELSE LET c == CloseBlock(s)
       IN  [e |-> [c.e EXCEPT !.block = block, !.nextIndex = @ + 1,
                              !.sawToolBlock = IF block.kind = "tool" THEN TRUE ELSE @],
            r |-> ReadOpen(c.r, c.e.nextIndex, block)]

(* The open block is closed and a new one opened, unless it is the one.    *)
OpenBlock(s, block) ==
  IF s.e.block = block THEN s
  ELSE LET c == CloseBlock(s)
       IN  [e |-> [c.e EXCEPT !.block = block, !.nextIndex = @ + 1,
                              !.sawToolBlock = IF block.kind = "tool" THEN TRUE ELSE @],
            r |-> ReadOpen(c.r, c.e.nextIndex, block)]

PushDelta(s, kind, at) ==
  [e |-> s.e, r |-> ReadDelta(s.r, s.e.nextIndex - 1, kind, at)]

EnsureStarted(s) ==
  IF s.e.started THEN s
  ELSE [e |-> [s.e EXCEPT !.started = TRUE], r |-> ReadStart(s.r)]

Say(s, says, block, at) ==
  IF says THEN PushDelta(OpenBlock(s, block), block.kind, at) ELSE s

CallTool(s, call, at) ==
  IF call = None THEN s
  ELSE LET opened == OpenBlock(s, Tool(call.tool))
       IN  IF call.args THEN PushDelta(opened, "tool", at) ELSE opened

(* Seeded fault: more cached than prompt tokens make a negative count.     *)
FreshTokensUnchecked(total, cached) ==
  IF total = None THEN None ELSE total - (IF cached = None THEN 0 ELSE cached)

FreshTokens(total, cached) ==
  IF total = None THEN None ELSE Max0(total - (IF cached = None THEN 0 ELSE cached))

(* mapOpenAiFinishReason                                                   *)
StopReason(e) ==
  CASE e.finishReason = "tool_calls" -> "tool_use"
    [] e.finishReason = "length" -> "max_tokens"
    [] e.finishReason = "content_filter" -> "refusal"
    [] OTHER -> IF e.sawToolBlock THEN "tool_use" ELSE "end_turn"

Orr(a, b) == IF a # None THEN a ELSE b

FinalUsage(e) ==
  [input |-> IF e.promptTokens # None THEN FreshTokens(e.promptTokens, e.cachedTokens)
             ELSE FreshTokens(e.progressTotal, e.progressCache),
   cacheRead |-> Orr(e.cachedTokens, e.progressCache),
   output |-> Orr(e.completionTokens, 0)]

Finalize(s) ==
  LET f == [e |-> [s.e EXCEPT !.finished = TRUE], r |-> s.r]
      c == CloseBlock(f)
  IN  IF ~s.e.started \/ s.e.finished THEN f
      ELSE [e |-> c.e, r |-> ReadEnd(c.r, StopReason(c.e), FinalUsage(c.e))]

(* prompt_progress and usage are kept for the usage of the answer.         *)
Counted(e, p) ==
  LET told == IF p.usage # None THEN p.usage
              ELSE [prompt |-> None, cached |-> None, completion |-> None]
      reached == IF p.progress # None THEN p.progress
                 ELSE [total |-> e.progressTotal, cache |-> e.progressCache]
  IN  [e EXCEPT !.progressTotal = reached.total, !.progressCache = reached.cache,
                !.promptTokens = Orr(told.prompt, @),
                !.cachedTokens = Orr(told.cached, @),
                !.completionTokens = Orr(told.completion, @)]

Answered(s, p, at) ==
  LET thought == Say(s, p.think, Thinking, at)
      called == CallTool(CallTool(thought, p.call, at), p.next, at)
      told == Say(called, p.text, Text, at)
  IN  IF p.finish = None THEN told
      ELSE CloseBlock([e |-> [told.e EXCEPT !.finishReason = p.finish], r |-> told.r])

(* What the upstream says: a turn is a run of thoughts, of text or of      *)
(* pieces of one call that nothing else, and no finish reason, breaks off. *)
Turn(q, block) ==
  IF q.of = block THEN q ELSE [q EXCEPT !.of = block, !.turns = @ + 1]

Tell(q, says, block, at) ==
  IF says THEN LET t == Turn(q, block)
               IN  [t EXCEPT !.pieces = Append(@, Piece(block, t.turns - 1, at))]
  ELSE q

Ask(q, call, at) ==
  IF call = None THEN q
  ELSE Tell(Turn(q, Tool(call.tool)), call.args, Tool(call.tool), at)

Spoken(q, p, at) ==
  LET thought == Tell(q, p.think, Thinking, at)
      told == Tell(Ask(Ask(thought, p.call, at), p.next, at), p.text, Text, at)
  IN  IF p.finish = None THEN told ELSE [told EXCEPT !.of = None]

-----------------------------------------------------------------------------
Init ==
  /\ n = 0 /\ stream = "open"
  /\ sent = [of |-> None, turns |-> 0, pieces |-> << >>]
  /\ emitter = [started |-> FALSE, finished |-> FALSE, nextIndex |-> 0, block |-> None,
                sawToolBlock |-> FALSE, finishReason |-> None, promptTokens |-> None,
                cachedTokens |-> None, completionTokens |-> None,
                progressTotal |-> None, progressCache |-> None]
  /\ reader = [at |-> "none", open |-> FALSE, signed |-> FALSE, blocks |-> << >>,
               got |-> << >>, reason |-> None, usage |-> None]

Now == [e |-> emitter, r |-> reader]
Becomes(s) == emitter' = s.e /\ reader' = s.r

Arrives == stream = "open" /\ n < MaxPayloads /\ n' = n + 1 /\ UNCHANGED stream

(* A payload with a choice, usage or progress.                             *)
Push(p) ==
  /\ Arrives
  /\ ~emitter.finished
  /\ LET started == EnsureStarted([e |-> Counted(emitter, p), r |-> reader])
         s == Answered(started, p, n)
         silent == emitter.started /\ s.r = reader
     IN  /\ emitter' = s.e
         /\ reader' = IF silent /\ p.progress # None THEN ReadPing(s.r) ELSE s.r
  /\ sent' = Spoken(sent, p, n)

(* An error frame: the emitter is not finished by it.                      *)
PushError ==
  /\ Arrives
  /\ ~emitter.finished
  /\ Becomes([e |-> emitter, r |-> ReadError(reader)])
  /\ UNCHANGED sent

(* [DONE]                                                                  *)
PushDone ==
  /\ Arrives
  /\ ~emitter.finished
  /\ Becomes(Finalize(Now))
  /\ UNCHANGED sent

(* What comes behind [DONE] is ignored.                                    *)
PushLate ==
  /\ Arrives
  /\ emitter.finished
  /\ UNCHANGED <<emitter, reader, sent>>

(* The body of the upstream ends, with or without a [DONE]: flush.         *)
Flush ==
  /\ stream = "open" /\ stream' = "ended"
  /\ Becomes(Finalize(Now))
  /\ UNCHANGED <<n, sent>>

(* The upstream breaks off or the client leaves: nothing is flushed.       *)
Break ==
  /\ stream = "open" /\ stream' = "broken"
  /\ UNCHANGED <<n, emitter, reader, sent>>

Next ==
  \/ \E p \in Payloads : Push(p)
  \/ PushError \/ PushDone \/ PushLate \/ Flush \/ Break

Spec == Init /\ [][Next]_vars

-----------------------------------------------------------------------------
Emitters ==
  [started : BOOLEAN, finished : BOOLEAN, nextIndex : Nat, block : Opt(Blocks),
   sawToolBlock : BOOLEAN, finishReason : Opt(Reasons), promptTokens : Opt(Nat),
   cachedTokens : Opt(Nat), completionTokens : Opt(Nat),
   progressTotal : Opt(Nat), progressCache : Opt(Nat)]
Speakers == [of : Opt(Blocks), turns : Nat, pieces : Seq(Pieces)]
Usages == [input : Opt(Nat), cacheRead : Opt(Nat), output : Nat]
Readers ==
  [at : {"none", "message", "stopped", "failed", "lost"}, open : BOOLEAN,
   signed : BOOLEAN, blocks : Seq(Blocks), got : Seq(Pieces),
   reason : Opt({"tool_use", "max_tokens", "refusal", "end_turn"}), usage : Opt(Usages)]

(* The variables stay in their types: no count of tokens is negative.      *)
TypeOK ==
  /\ n \in Nat
  /\ stream \in {"open", "ended", "broken"}
  /\ emitter \in Emitters
  /\ reader \in Readers
  /\ sent \in Speakers

(* Every event fits what the client was told before: it is never lost, and *)
(* until an error it has the very block open that the emitter thinks of.   *)
ReaderFollows ==
  /\ reader.at # "lost"
  /\ reader.at = "message" =>
       /\ Len(reader.blocks) = emitter.nextIndex
       /\ reader.open = (emitter.block # None)
       /\ reader.open => reader.blocks[Len(reader.blocks)] = emitter.block

(* Without an error the client has, in order, all that the upstream has    *)
(* said, every turn of it in a content block of its own; when the upstream *)
(* has ended, the message is closed, and its reason tells of the tools it  *)
(* must run.  docs/ANTHROPIC_OPENAI_BRIDGE.md has each index of a tool     *)
(* call open its own block; that holds for a call that is sent in one      *)
(* turn, and one that is come back to gets a second block.                 *)
AnswerIsComplete ==
  reader.at # "failed" =>
    /\ reader.got = sent.pieces
    /\ stream = "ended" => reader.at = IF emitter.started THEN "stopped" ELSE "none"
    /\ reader.at = "stopped" /\ emitter.finishReason \notin {"length", "content_filter"} =>
         /\ ~reader.open
         /\ (\E i \in DOMAIN reader.blocks : reader.blocks[i].kind = "tool")
              => reader.reason = "tool_use"
=============================================================================
