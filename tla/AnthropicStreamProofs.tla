------------------------- MODULE AnthropicStreamProofs -------------------------
(***************************************************************************)
(* What the translated stream keeps to for every upstream, however long    *)
(* and in whatever order its payloads come.                                *)
(***************************************************************************)
EXTENDS AnthropicStream, SequenceTheorems, TLAPS

States == [e : Emitters, r : Readers]

(* As long as it has read no error, the client is where the emitter is.    *)
Same(e, r, q) ==
  /\ r.at = IF ~e.started THEN "none" ELSE IF e.finished THEN "stopped" ELSE "message"
  /\ e.block # None => e.started /\ ~e.finished
  /\ Len(r.blocks) = e.nextIndex
  /\ r.open <=> e.block # None
  /\ r.open => ~r.signed /\ r.blocks[Len(r.blocks)] = e.block
  /\ (\E i \in DOMAIN r.blocks : r.blocks[i].kind = "tool") => e.sawToolBlock
  /\ r.got = q.pieces
  /\ r.at = "stopped" => r.reason = StopReason(e)

(* The emitter has opened a block for every turn of the upstream.          *)
Mirrors(s, q) ==
  /\ s \in States
  /\ s.e.nextIndex = q.turns
  /\ s.e.block # None => s.e.nextIndex > 0
  /\ s.r.at # "lost"
  /\ s.r.at # "failed" => Same(s.e, s.r, q)

IInv ==
  /\ n \in Nat
  /\ stream \in {"open", "ended", "broken"}
  /\ stream = "ended" => emitter.finished
  /\ sent \in Speakers
  /\ ~emitter.finished => emitter.block = sent.of
  /\ Mirrors(Now, sent)

(* Between the start of the message and its end, in the turn of q.         *)
Writing(s, q) ==
  Mirrors(s, q) /\ q \in Speakers /\ s.e.started /\ ~s.e.finished /\ s.e.block = q.of

-----------------------------------------------------------------------------
(* The emitter's operators keep the client where the emitter is.           *)

LEMMA Kinds ==
  /\ Thinking \in Blocks /\ Text \in Blocks /\ \A i \in Nat : Tool(i) \in Blocks
  /\ None \notin Blocks
  BY StreamAssumption DEF Thinking, Text, Tool, Blocks

LEMMA ReadersReads ==
  ASSUME NEW r \in Readers
  PROVE  /\ ReadStart(r) \in Readers /\ ReadPing(r) \in Readers /\ ReadError(r) \in Readers
         /\ \A i \in Nat : ReadSignature(r, i) \in Readers /\ ReadStop(r, i) \in Readers
         /\ \A i \in Nat, b \in Blocks : ReadOpen(r, i, b) \in Readers
         /\ \A kind : \A i \in Nat, at \in Nat : ReadDelta(r, i, kind, at) \in Readers
<1>1. Lost(r) \in Readers
  BY DEF Lost, Readers
<1>2. /\ ReadStart(r) \in Readers /\ ReadPing(r) \in Readers /\ ReadError(r) \in Readers
      /\ \A i \in Nat : ReadSignature(r, i) \in Readers /\ ReadStop(r, i) \in Readers
  <2>1. [r EXCEPT !.at = "message"] \in Readers /\ [r EXCEPT !.at = "failed"] \in Readers
    BY DEF Readers
  <2>2. [r EXCEPT !.signed = TRUE] \in Readers /\ [r EXCEPT !.open = FALSE] \in Readers
    BY DEF Readers
  <2> QED
    BY <1>1, <2>1, <2>2 DEF ReadStart, ReadSignature, ReadStop, ReadPing, ReadError
<1>3. ASSUME NEW i \in Nat, NEW b \in Blocks
      PROVE  ReadOpen(r, i, b) \in Readers
  <2>1. Append(r.blocks, b) \in Seq(Blocks)
    BY AppendProperties DEF Readers
  <2> QED BY <1>1, <2>1 DEF ReadOpen, Readers
<1>4. ASSUME NEW i \in Nat, NEW kind, NEW at \in Nat
      PROVE  ReadDelta(r, i, kind, at) \in Readers
  <2>1. CASE InBlock(r, i)
    <3> DEFINE last == r.blocks[Len(r.blocks)]
    <3>1. r.blocks \in Seq(Blocks) /\ r.got \in Seq(Pieces) /\ Len(r.blocks) \in Nat
      BY DEF Readers
    <3>2. last \in Blocks
      BY <2>1, <3>1, ElementOfSeq DEF InBlock
    <3>3. Piece(last, i, at) \in Pieces
      BY <3>2 DEF Pieces, Piece
    <3>4. Append(r.got, Piece(last, i, at)) \in Seq(Pieces)
      BY <3>1, <3>3, AppendProperties
    <3> QED BY <1>1, <3>4 DEF ReadDelta, Readers
  <2>2. CASE ~InBlock(r, i)
    BY <1>1, <2>2 DEF ReadDelta
  <2> QED BY <2>1, <2>2
<1> QED BY <1>1, <1>2, <1>3, <1>4

(* After an error nothing moves the client.                                *)
LEMMA FailedStays ==
  ASSUME NEW r \in Readers, r.at = "failed"
  PROVE  /\ ReadStart(r) = r /\ ReadPing(r) = r /\ ReadError(r) = r
         /\ \A i : ReadSignature(r, i) = r /\ ReadStop(r, i) = r
         /\ \A i, b : ReadOpen(r, i, b) = r
         /\ \A i, kind, at : ReadDelta(r, i, kind, at) = r
         /\ \A reason, u : ReadEnd(r, reason, u) = r
  BY DEF Lost, InBlock, ReadStart, ReadOpen, ReadDelta, ReadSignature, ReadStop, ReadPing,
         ReadError, ReadEnd

LEMMA BlockForgotten ==
  ASSUME NEW e \in Emitters
  PROVE  [e EXCEPT !.block = None] \in Emitters
  BY DEF Emitters, Opt

LEMMA CloseBlockMirrors ==
  ASSUME NEW s, NEW q, Mirrors(s, q)
  PROVE  /\ Mirrors(CloseBlock(s), q)
         /\ CloseBlock(s).e = [s.e EXCEPT !.block = None]
<1> DEFINE c == CloseBlock(s)
           i == s.e.nextIndex - 1
           signed == IF s.e.block.kind = "thinking" THEN ReadSignature(s.r, i) ELSE s.r
<1>1. s \in States /\ s.e \in Emitters /\ s.r \in Readers
  BY DEF Mirrors, States
<1>2. CASE s.e.block = None
  <2>1. c = s /\ [s.e EXCEPT !.block = None] = s.e
    BY <1>1, <1>2 DEF CloseBlock, Emitters
  <2> QED BY <2>1
<1>3. CASE s.e.block # None
  <2>1. c = [e |-> [s.e EXCEPT !.block = None], r |-> ReadStop(signed, i)]
    BY <1>3 DEF CloseBlock
  <2>2. [s.e EXCEPT !.block = None] \in Emitters
    BY <1>1, BlockForgotten
  <2>3. i \in Nat /\ s.e.block \in Blocks
    BY <1>1, <1>3 DEF Mirrors, Emitters, Opt
  <2>4. signed \in Readers
    BY <1>1, <2>3, ReadersReads, Kinds
  <2>5. ReadStop(signed, i) \in Readers
    BY <2>3, <2>4, ReadersReads, Kinds
  <2>6. c \in States /\ c.e = [s.e EXCEPT !.block = None]
    BY <2>1, <2>2, <2>5 DEF States
  <2>7. CASE s.r.at = "failed"
    <3>1. signed = s.r /\ ReadStop(signed, i) = s.r
      BY <1>1, <2>7, FailedStays
    <3>2. c.r = s.r /\ c.e.block = None
      BY <1>1, <2>1, <2>6, <3>1 DEF Emitters
    <3> QED BY <2>6, <2>7, <3>2 DEF Mirrors
  <2>8. CASE s.r.at # "failed"
    <3>1. Same(s.e, s.r, q)
      BY <2>8 DEF Mirrors
    <3>2. s.r.at = "message" /\ s.r.open /\ Len(s.r.blocks) = s.e.nextIndex
      BY <1>3, <3>1 DEF Same
    <3>3. InBlock(s.r, i)
      BY <3>2, <2>3 DEF InBlock
    <3>4. /\ signed.blocks = s.r.blocks /\ signed.at = "message" /\ signed.open
          /\ signed.got = s.r.got
          /\ IF s.e.block.kind = "thinking" THEN signed.signed = TRUE ELSE signed.signed = FALSE
      <4>1. CASE s.e.block.kind = "thinking"
        <5>1. signed = [s.r EXCEPT !.signed = TRUE]
          BY <3>3, <4>1 DEF ReadSignature
        <5> QED BY <1>1, <3>2, <4>1, <5>1 DEF Readers
      <4>2. CASE s.e.block.kind # "thinking"
        <5>1. signed = s.r
          BY <4>2
        <5>2. s.r.signed = FALSE
          BY <1>1, <3>1, <3>2 DEF Same, Readers
        <5> QED BY <3>2, <4>2, <5>1, <5>2
      <4> QED BY <4>1, <4>2
    <3>5. ReadStop(signed, i) = [signed EXCEPT !.open = FALSE]
      <4>1. s.r.blocks[Len(s.r.blocks)] = s.e.block
        BY <3>1, <3>2 DEF Same
      <4>2. InBlock(signed, i) /\ signed.blocks[Len(signed.blocks)] = s.e.block
        BY <3>3, <3>4, <4>1 DEF InBlock
      <4>3. signed.signed = (signed.blocks[Len(signed.blocks)].kind = "thinking")
        BY <3>4, <4>2
      <4> QED BY <4>2, <4>3 DEF ReadStop
    <3>6. /\ c.r.at = "message" /\ c.r.blocks = s.r.blocks /\ c.r.got = s.r.got /\ ~c.r.open
      BY <2>1, <2>4, <3>4, <3>5 DEF Readers
    <3>7. /\ c.e.block = None /\ c.e.started = s.e.started /\ c.e.finished = s.e.finished
          /\ c.e.nextIndex = s.e.nextIndex /\ c.e.sawToolBlock = s.e.sawToolBlock
      BY <1>1, <2>6 DEF Emitters
    <3>8. Same(c.e, c.r, q)
      BY <3>1, <3>2, <3>6, <3>7 DEF Same
    <3> QED BY <2>6, <3>6, <3>7, <3>8 DEF Mirrors
  <2>9. Mirrors(c, q)
    BY <2>7, <2>8
  <2> QED BY <2>6, <2>9
<1> QED BY <1>2, <1>3

LEMMA OpenBlockMirrors ==
  ASSUME NEW s, NEW q, NEW b \in Blocks, Writing(s, q)
  PROVE  Writing(OpenBlock(s, b), Turn(q, b)) /\ Turn(q, b).of = b
<1> DEFINE t == Turn(q, b)
           c == CloseBlock(s)
           o == OpenBlock(s, b)
<1>0. b # None
  BY Kinds
<1>1. CASE s.e.block = b
  BY <1>1 DEF OpenBlock, Turn, Writing
<1>2. CASE s.e.block # b
  <2>0. /\ t \in Speakers /\ t.of = b /\ t.turns = q.turns + 1 /\ t.pieces = q.pieces
        /\ q.turns \in Nat
    <3>1. q \in Speakers /\ q.of # b
      BY <1>2 DEF Writing
    <3>2. t = [q EXCEPT !.of = b, !.turns = q.turns + 1]
      BY <3>1 DEF Turn
    <3>3. q.turns \in Nat /\ q.turns + 1 \in Nat /\ b \in Opt(Blocks)
      BY <3>1 DEF Speakers, Opt
    <3> QED BY <3>1, <3>2, <3>3 DEF Speakers
  <2> HIDE DEF t
  <2>1. Mirrors(c, q) /\ c.e = [s.e EXCEPT !.block = None]
    BY CloseBlockMirrors DEF Writing
  <2>2. s.e \in Emitters /\ c.e \in Emitters /\ c.r \in Readers
    BY <2>1 DEF Writing, Mirrors, States
  <2>3. c.e.block = None /\ c.e.started /\ ~c.e.finished /\ c.e.nextIndex \in Nat
    BY <2>1, <2>2 DEF Writing, Emitters
  <2> DEFINE saw == IF b.kind = "tool" THEN TRUE ELSE c.e.sawToolBlock
  <2>4. /\ o.e = [c.e EXCEPT !.block = b, !.nextIndex = @ + 1, !.sawToolBlock = saw]
        /\ o.r = ReadOpen(c.r, c.e.nextIndex, b)
        /\ o = [e |-> o.e, r |-> o.r]
    BY <1>2 DEF OpenBlock
  <2>5. /\ o.e.block = b /\ o.e.nextIndex = c.e.nextIndex + 1
        /\ o.e.started = c.e.started /\ o.e.finished = c.e.finished
        /\ o.e.sawToolBlock <=> c.e.sawToolBlock \/ b.kind = "tool"
    BY <2>2, <2>4 DEF Emitters
  <2>10. o.e.nextIndex = t.turns
    BY <2>0, <2>1, <2>5 DEF Mirrors
  <2>6. o.e \in Emitters
    <3>1. c.e.sawToolBlock \in BOOLEAN
      BY <2>2 DEF Emitters
    <3>2. saw \in BOOLEAN
      BY <3>1
    <3>3. c.e.nextIndex + 1 \in Nat /\ b \in Opt(Blocks)
      BY <2>3 DEF Opt
    <3> HIDE DEF saw
    <3> QED BY <2>2, <2>4, <3>2, <3>3 DEF Emitters
  <2>7. o \in States
    <3>1. ReadOpen(c.r, c.e.nextIndex, b) \in Readers
      BY <2>2, <2>3, ReadersReads
    <3> QED BY <2>4, <2>6, <3>1 DEF States
  <2>8. CASE c.r.at = "failed"
    <3>1. o.r = c.r
      BY <2>2, <2>4, <2>8, FailedStays
    <3> QED BY <2>0, <2>3, <2>5, <2>7, <2>8, <2>10, <3>1 DEF Writing, Mirrors, t
  <2>9. CASE c.r.at # "failed"
    <3>1. Same(c.e, c.r, q)
      BY <2>1, <2>9 DEF Mirrors
    <3>2. c.r.at = "message" /\ ~c.r.open /\ c.e.nextIndex = Len(c.r.blocks)
      BY <2>3, <3>1 DEF Same
    <3>3. o.r = [c.r EXCEPT !.open = TRUE, !.signed = FALSE, !.blocks = Append(@, b)]
      BY <2>4, <3>2 DEF ReadOpen
    <3>4. /\ o.r.at = "message" /\ o.r.open /\ ~o.r.signed /\ o.r.got = c.r.got
          /\ o.r.blocks = Append(c.r.blocks, b)
      BY <2>2, <3>2, <3>3 DEF Readers
    <3>5. c.r.blocks \in Seq(Blocks)
      BY <2>2 DEF Readers
    <3>6. /\ Len(o.r.blocks) = o.e.nextIndex
          /\ o.r.blocks[Len(o.r.blocks)] = b
      BY <2>3, <2>5, <3>2, <3>4, <3>5, AppendProperties
    <3>7. (\E i \in DOMAIN o.r.blocks : o.r.blocks[i].kind = "tool") => o.e.sawToolBlock
      <4> SUFFICES ASSUME NEW i \in DOMAIN o.r.blocks, o.r.blocks[i].kind = "tool"
                   PROVE  o.e.sawToolBlock
        OBVIOUS
      <4>1. CASE i = Len(o.r.blocks)
        BY <2>5, <3>6, <4>1
      <4>2. CASE i # Len(o.r.blocks)
        <5>1. i \in DOMAIN c.r.blocks /\ o.r.blocks[i] = c.r.blocks[i]
          BY <3>4, <3>5, <4>2, AppendProperties
        <5> QED BY <2>5, <3>1, <5>1 DEF Same
      <4> QED BY <4>1, <4>2
    <3>8. Same(o.e, o.r, t)
      BY <1>0, <2>0, <2>3, <2>5, <3>1, <3>4, <3>6, <3>7 DEF Same
    <3>9. o.e.nextIndex > 0
      BY <2>3, <2>5
    <3> QED BY <2>0, <2>3, <2>5, <2>7, <2>10, <3>4, <3>8, <3>9 DEF Writing, Mirrors, t
  <2> QED BY <2>0, <2>8, <2>9 DEF t
<1> QED BY <1>1, <1>2

LEMMA PushDeltaMirrors ==
  ASSUME NEW s, NEW q, NEW b \in Blocks, NEW at \in Nat,
         Writing(s, q), q.of = b
  PROVE  Writing(PushDelta(s, b.kind, at),
                 [q EXCEPT !.pieces = Append(@, Piece(b, q.turns - 1, at))])
<1> DEFINE d == PushDelta(s, b.kind, at)
           i == s.e.nextIndex - 1
           piece == Piece(b, i, at)
           t == [q EXCEPT !.pieces = Append(@, Piece(b, q.turns - 1, at))]
<1>1. /\ s \in States /\ s.e \in Emitters /\ s.r \in Readers /\ b # None
      /\ q \in Speakers /\ i = q.turns - 1 /\ s.e.block = b
  BY Kinds DEF Writing, Mirrors, States
<1>2. d.e = s.e /\ d.r = ReadDelta(s.r, i, b.kind, at) /\ d = [e |-> d.e, r |-> d.r]
  BY <1>1 DEF PushDelta, States
<1>3. i \in Nat
  BY <1>1 DEF Writing, Mirrors, Emitters
<1>4. d \in States
  <2>1. ReadDelta(s.r, i, b.kind, at) \in Readers
    BY <1>1, <1>3, ReadersReads
  <2> QED BY <1>1, <1>2, <2>1 DEF States
<1>5. t \in Speakers /\ t.of = b /\ t.turns = q.turns /\ t.pieces = Append(q.pieces, piece)
  <2>1. piece \in Pieces
    BY <1>3 DEF Piece, Pieces
  <2>2. t = [q EXCEPT !.pieces = Append(q.pieces, piece)]
    BY <1>1
  <2> HIDE DEF piece, t
  <2>3. q.pieces \in Seq(Pieces)
    BY <1>1 DEF Speakers
  <2>4. Append(q.pieces, piece) \in Seq(Pieces)
    BY <2>1, <2>3, AppendProperties
  <2> QED BY <1>1, <2>2, <2>4 DEF Speakers
<1> HIDE DEF t
<1>6. CASE s.r.at = "failed"
  <2>1. d.r = s.r
    BY <1>1, <1>2, <1>6, FailedStays
  <2> QED BY <1>1, <1>2, <1>4, <1>5, <1>6, <2>1 DEF Writing, Mirrors, t
<1>7. CASE s.r.at # "failed"
  <2>1. Same(s.e, s.r, q)
    BY <1>7 DEF Writing, Mirrors
  <2>2. s.r.at = "message" /\ s.r.open /\ s.r.blocks[Len(s.r.blocks)] = b /\ InBlock(s.r, i)
    BY <1>1, <2>1 DEF Writing, Same, InBlock
  <2>3. d.r = [s.r EXCEPT !.got = Append(@, piece)]
    BY <1>2, <2>2 DEF ReadDelta
  <2> HIDE DEF piece
  <2>4. /\ d.r.at = s.r.at /\ d.r.open = s.r.open /\ d.r.signed = s.r.signed
        /\ d.r.blocks = s.r.blocks /\ d.r.reason = s.r.reason
        /\ d.r.got = Append(q.pieces, piece)
    BY <1>1, <2>1, <2>3 DEF Readers, Same
  <2>5. Same(d.e, d.r, t)
    BY <1>2, <1>5, <2>1, <2>4 DEF Same
  <2> QED BY <1>1, <1>2, <1>4, <1>5, <2>2, <2>4, <2>5 DEF Writing, Mirrors, t
<1> QED BY <1>6, <1>7

LEMMA SayMirrors ==
  ASSUME NEW s, NEW q, NEW says \in BOOLEAN, NEW b \in Blocks, NEW at \in Nat, Writing(s, q)
  PROVE  Writing(Say(s, says, b, at), Tell(q, says, b, at))
<1>1. CASE says
  <2> DEFINE o == OpenBlock(s, b)
             t == Turn(q, b)
  <2>1. Writing(o, t) /\ t.of = b
    BY OpenBlockMirrors
  <2> HIDE DEF o, t
  <2>2. Writing(PushDelta(o, b.kind, at),
                [t EXCEPT !.pieces = Append(@, Piece(b, t.turns - 1, at))])
    BY <2>1, PushDeltaMirrors
  <2>3. Say(s, says, b, at) = PushDelta(o, b.kind, at)
    BY <1>1 DEF Say, o
  <2>4. Tell(q, says, b, at) = [t EXCEPT !.pieces = Append(@, Piece(b, t.turns - 1, at))]
    BY <1>1 DEF Tell, t
  <2> QED BY <2>2, <2>3, <2>4
<1>2. CASE ~says
  BY <1>2 DEF Say, Tell
<1> QED BY <1>1, <1>2

LEMMA CallToolMirrors ==
  ASSUME NEW s, NEW q, NEW call \in Opt(Calls), NEW at \in Nat, Writing(s, q)
  PROVE  Writing(CallTool(s, call, at), Ask(q, call, at))
<1>1. CASE call = None
  BY <1>1 DEF CallTool, Ask
<1>2. CASE call # None
  <2> DEFINE b == Tool(call.tool)
             o == OpenBlock(s, b)
             t == Turn(q, b)
  <2>1. call.args \in BOOLEAN /\ b \in Blocks /\ b.kind = "tool"
    BY <1>2, Kinds DEF Opt, Calls, Tool
  <2>2. Ask(q, call, at) = Tell(t, call.args, b, at)
        /\ CallTool(s, call, at) = IF call.args THEN PushDelta(o, "tool", at) ELSE o
    BY <1>2 DEF Ask, CallTool
  <2> HIDE DEF b
  <2>3. Writing(o, t) /\ t.of = b
    BY <2>1, OpenBlockMirrors
  <2> HIDE DEF o, t
  <2>4. CASE call.args
    <3>1. Turn(t, b) = t
      BY <2>3 DEF Turn
    <3>2. Ask(q, call, at) = [t EXCEPT !.pieces = Append(@, Piece(b, t.turns - 1, at))]
      BY <2>2, <2>4, <3>1 DEF Tell
    <3>3. CallTool(s, call, at) = PushDelta(o, b.kind, at)
      BY <2>1, <2>2, <2>4
    <3>4. Writing(PushDelta(o, b.kind, at),
                  [t EXCEPT !.pieces = Append(@, Piece(b, t.turns - 1, at))])
      BY <2>1, <2>3, PushDeltaMirrors
    <3> QED BY <3>2, <3>3, <3>4
  <2>5. CASE ~call.args
    BY <2>2, <2>3, <2>5 DEF Tell
  <2> QED BY <2>1, <2>4, <2>5
<1> QED BY <1>1, <1>2

LEMMA FreshTokensIsACount ==
  ASSUME NEW total \in Opt(Nat), NEW cached \in Opt(Nat)
  PROVE  FreshTokens(total, cached) \in Opt(Nat)
<1>1. CASE total = None
  BY <1>1 DEF FreshTokens, Opt
<1>2. CASE total # None
  <2> DEFINE rest == total - (IF cached = None THEN 0 ELSE cached)
  <2>1. total \in Nat /\ rest \in Int
    BY <1>2 DEF Opt
  <2>2. FreshTokens(total, cached) = Max0(rest)
    BY <1>2 DEF FreshTokens
  <2>3. Max0(rest) \in Nat
    BY <2>1 DEF Max0
  <2> QED BY <2>2, <2>3 DEF Opt
<1> QED BY <1>1, <1>2

LEMMA FinalUsageIsOne ==
  ASSUME NEW e \in Emitters
  PROVE  /\ FinalUsage(e) \in Opt(Usages)
         /\ StopReason(e) \in Opt({"tool_use", "max_tokens", "refusal", "end_turn"})
<1>1. /\ e.promptTokens \in Opt(Nat) /\ e.cachedTokens \in Opt(Nat)
      /\ e.completionTokens \in Opt(Nat)
      /\ e.progressTotal \in Opt(Nat) /\ e.progressCache \in Opt(Nat)
  BY DEF Emitters
<1>2. /\ FreshTokens(e.promptTokens, e.cachedTokens) \in Opt(Nat)
      /\ FreshTokens(e.progressTotal, e.progressCache) \in Opt(Nat)
  BY <1>1, FreshTokensIsACount
<1>3. Orr(e.cachedTokens, e.progressCache) \in Opt(Nat) /\ Orr(e.completionTokens, 0) \in Nat
  BY <1>1 DEF Orr, Opt
<1>4. FinalUsage(e) \in Usages
  BY <1>2, <1>3 DEF FinalUsage, Usages
<1>5. StopReason(e) \in {"tool_use", "max_tokens", "refusal", "end_turn"}
  BY DEF StopReason
<1> QED BY <1>4, <1>5 DEF Opt

LEMMA FinalizeMirrors ==
  ASSUME NEW s, NEW q, Mirrors(s, q)
  PROVE  Mirrors(Finalize(s), q) /\ Finalize(s).e.finished
<1> DEFINE f == [e |-> [s.e EXCEPT !.finished = TRUE], r |-> s.r]
           c == CloseBlock(f)
           z == Finalize(s)
<1>1. s \in States /\ s.e \in Emitters /\ s.r \in Readers
  BY DEF Mirrors, States
<1>2. f.e = [s.e EXCEPT !.finished = TRUE] /\ f.r = s.r /\ f.e \in Emitters
  BY <1>1 DEF Emitters
<1>3. CASE s.e.finished \/ ~s.e.started
  <2>1. z = f
    BY <1>3 DEF Finalize
  <2>2. f \in States /\ f.r = s.r
    BY <1>1, <1>2 DEF States
  <2>3. /\ f.e.finished /\ f.e.started = s.e.started /\ f.e.block = s.e.block
        /\ f.e.nextIndex = s.e.nextIndex /\ f.e.sawToolBlock = s.e.sawToolBlock
        /\ f.e.finishReason = s.e.finishReason
    BY <1>1, <1>2 DEF Emitters
  <2>4. StopReason(f.e) = StopReason(s.e)
    BY <2>3 DEF StopReason
  <2>5. Same(s.e, s.r, q) => Same(f.e, f.r, q)
    BY <1>3, <2>2, <2>3, <2>4 DEF Same
  <2>6. Mirrors(f, q)
    BY <2>2, <2>3, <2>5 DEF Mirrors
  <2> QED BY <2>1, <2>3, <2>6
<1>4. CASE s.e.started /\ ~s.e.finished
  (* The block is closed as it would be before the message is finished.    *)
  <2> DEFINE d == CloseBlock(s)
  <2>1. Mirrors(d, q) /\ d.e = [s.e EXCEPT !.block = None]
    BY CloseBlockMirrors
  <2>2. d.e \in Emitters /\ d.r \in Readers
    BY <2>1 DEF Mirrors, States
  <2>3. f.e.block = s.e.block /\ f.e.nextIndex = s.e.nextIndex
    BY <1>1, <1>2 DEF Emitters
  <2>4. c.r = d.r
    BY <1>2, <2>3 DEF CloseBlock
  <2>5. c.e = IF s.e.block = None THEN f.e ELSE [f.e EXCEPT !.block = None]
    BY <1>2, <2>3 DEF CloseBlock
  <2>6. /\ c.e.finished /\ c.e.started /\ c.e.block = None
        /\ c.e.nextIndex = s.e.nextIndex /\ c.e.sawToolBlock = s.e.sawToolBlock
    BY <1>1, <1>2, <1>4, <2>5 DEF Emitters
  <2>7. /\ d.e.started /\ ~d.e.finished /\ d.e.block = None
        /\ d.e.nextIndex = s.e.nextIndex /\ d.e.sawToolBlock = s.e.sawToolBlock
    BY <1>1, <1>4, <2>1 DEF Emitters
  <2>8. c.e \in Emitters
    <3>1. [f.e EXCEPT !.block = None] \in Emitters
      BY <1>2, BlockForgotten
    <3> HIDE DEF f, c
    <3> QED BY <1>2, <2>5, <3>1
  <2>9. /\ z.e = c.e /\ z.r = ReadEnd(c.r, StopReason(c.e), FinalUsage(c.e))
        /\ z = [e |-> z.e, r |-> z.r]
    BY <1>4 DEF Finalize
  <2>10. CASE d.r.at = "failed"
    <3>1. z.r = d.r
      BY <2>2, <2>4, <2>9, <2>10, FailedStays
    <3> QED BY <2>2, <2>6, <2>8, <2>9, <2>10, <3>1 DEF Mirrors, States
  <2>11. CASE d.r.at # "failed"
    <3>1. Same(d.e, d.r, q)
      BY <2>1, <2>11 DEF Mirrors
    <3>2. d.r.at = "message" /\ ~d.r.open
      BY <2>7, <3>1 DEF Same
    <3>3. z.r = [d.r EXCEPT !.at = "stopped", !.reason = StopReason(c.e), !.usage = FinalUsage(c.e)]
      BY <2>4, <2>9, <3>2 DEF ReadEnd
    <3>4. z.r \in Readers
      <4>1. FinalUsage(c.e) \in Opt(Usages)
            /\ StopReason(c.e) \in Opt({"tool_use", "max_tokens", "refusal", "end_turn"})
        BY <2>8, FinalUsageIsOne
      <4> QED BY <2>2, <3>3, <4>1 DEF Readers
    <3>5. /\ z.r.at = "stopped" /\ z.r.open = d.r.open /\ z.r.blocks = d.r.blocks
          /\ z.r.got = d.r.got /\ z.r.reason = StopReason(c.e)
      BY <2>2, <3>3 DEF Readers
    <3>6. Same(z.e, z.r, q)
      BY <2>6, <2>7, <2>9, <3>1, <3>2, <3>5 DEF Same
    <3> QED BY <2>6, <2>8, <2>9, <3>4, <3>5, <3>6 DEF Mirrors, States
  <2> QED BY <2>6, <2>9, <2>10, <2>11
<1> QED BY <1>3, <1>4

LEMMA CountedMirrors ==
  ASSUME NEW e \in Emitters, NEW p \in PayloadRecords
  PROVE  /\ Counted(e, p) \in Emitters
         /\ Counted(e, p).started = e.started /\ Counted(e, p).finished = e.finished
         /\ Counted(e, p).block = e.block /\ Counted(e, p).nextIndex = e.nextIndex
         /\ Counted(e, p).sawToolBlock = e.sawToolBlock
         /\ Counted(e, p).finishReason = e.finishReason
<1> DEFINE told == IF p.usage # None THEN p.usage
                   ELSE [prompt |-> None, cached |-> None, completion |-> None]
           reached == IF p.progress # None THEN p.progress
                      ELSE [total |-> e.progressTotal, cache |-> e.progressCache]
<1>1. told.prompt \in Opt(Nat) /\ told.cached \in Opt(Nat) /\ told.completion \in Opt(Nat)
  BY DEF PayloadRecords, Opt
<1>2. reached.total \in Opt(Nat) /\ reached.cache \in Opt(Nat)
  BY DEF PayloadRecords, Opt, Emitters
<1>3. /\ Orr(told.prompt, e.promptTokens) \in Opt(Nat)
      /\ Orr(told.cached, e.cachedTokens) \in Opt(Nat)
      /\ Orr(told.completion, e.completionTokens) \in Opt(Nat)
  BY <1>1 DEF Orr, Emitters
<1>4. Counted(e, p) =
        [e EXCEPT !.progressTotal = reached.total, !.progressCache = reached.cache,
                  !.promptTokens = Orr(told.prompt, e.promptTokens),
                  !.cachedTokens = Orr(told.cached, e.cachedTokens),
                  !.completionTokens = Orr(told.completion, e.completionTokens)]
  BY DEF Counted, Emitters
<1> HIDE DEF told, reached
<1>5. Counted(e, p) \in Emitters
  <2>1. ASSUME NEW u \in Opt(Nat), NEW v \in Opt(Nat), NEW x \in Opt(Nat), NEW y \in Opt(Nat),
               NEW z \in Opt(Nat)
        PROVE  [e EXCEPT !.progressTotal = u, !.progressCache = v, !.promptTokens = x,
                         !.cachedTokens = y, !.completionTokens = z] \in Emitters
    BY DEF Emitters
  <2>2. [e EXCEPT !.progressTotal = reached.total, !.progressCache = reached.cache,
                  !.promptTokens = Orr(told.prompt, e.promptTokens),
                  !.cachedTokens = Orr(told.cached, e.cachedTokens),
                  !.completionTokens = Orr(told.completion, e.completionTokens)] \in Emitters
    BY <1>2, <1>3, <2>1
  <2> QED BY <1>4, <2>2
<1> QED BY <1>4, <1>5 DEF Emitters

LEMMA EnsureStartedMirrors ==
  ASSUME NEW s, NEW q \in Speakers, Mirrors(s, q), ~s.e.finished, s.e.block = q.of
  PROVE  Writing(EnsureStarted(s), q)
<1> DEFINE z == EnsureStarted(s)
<1>1. s \in States /\ s.e \in Emitters /\ s.r \in Readers
  BY DEF Mirrors, States
<1>2. CASE s.e.started
  BY <1>2 DEF EnsureStarted, Writing
<1>3. CASE ~s.e.started
  <2>1. z.e = [s.e EXCEPT !.started = TRUE] /\ z.r = ReadStart(s.r) /\ z = [e |-> z.e, r |-> z.r]
    BY <1>3 DEF EnsureStarted
  <2>2. z \in States /\ z.e \in Emitters
    <3>1. z.r \in Readers
      BY <1>1, <2>1, ReadersReads
    <3> QED BY <1>1, <2>1, <3>1 DEF Emitters, States
  <2>3. /\ z.e.started /\ ~z.e.finished /\ z.e.block = s.e.block
        /\ z.e.nextIndex = s.e.nextIndex /\ z.e.sawToolBlock = s.e.sawToolBlock
    BY <1>1, <2>1 DEF Emitters
  <2>4. CASE s.r.at = "failed"
    <3>1. z.r = s.r
      BY <1>1, <2>1, <2>4, FailedStays
    <3> QED BY <2>2, <2>3, <2>4, <3>1 DEF Writing, Mirrors
  <2>5. CASE s.r.at # "failed"
    <3>1. Same(s.e, s.r, q)
      BY <2>5 DEF Mirrors
    <3>2. s.r.at = "none" /\ s.e.block = None
      BY <1>3, <3>1 DEF Same
    <3>3. z.r = [s.r EXCEPT !.at = "message"]
      BY <2>1, <3>2 DEF ReadStart
    <3>4. /\ z.r.at = "message" /\ z.r.open = s.r.open /\ z.r.signed = s.r.signed
          /\ z.r.blocks = s.r.blocks /\ z.r.got = s.r.got
      BY <1>1, <3>3 DEF Readers
    <3>5. Same(z.e, z.r, q)
      BY <2>3, <3>1, <3>2, <3>4 DEF Same
    <3> QED BY <2>2, <2>3, <3>2, <3>4, <3>5 DEF Writing, Mirrors
  <2> QED BY <2>4, <2>5
<1> QED BY <1>2, <1>3

LEMMA AnsweredMirrors ==
  ASSUME NEW s, NEW q, NEW p \in PayloadRecords, NEW at \in Nat, Writing(s, q)
  PROVE  Writing(Answered(s, p, at), Spoken(q, p, at))
<1> DEFINE thought == Say(s, p.think, Thinking, at)
           called == CallTool(thought, p.call, at)
           both == CallTool(called, p.next, at)
           told == Say(both, p.text, Text, at)
           closing == [e |-> [told.e EXCEPT !.finishReason = p.finish], r |-> told.r]
           a == Tell(q, p.think, Thinking, at)
           b == Ask(a, p.call, at)
           c == Ask(b, p.next, at)
           d == Tell(c, p.text, Text, at)
           ended == [d EXCEPT !.of = None]
<1>1. /\ p.think \in BOOLEAN /\ p.text \in BOOLEAN
      /\ p.call \in Opt(Calls) /\ p.next \in Opt(Calls) /\ p.finish \in Opt(Reasons)
      /\ Thinking \in Blocks /\ Text \in Blocks
  BY Kinds DEF PayloadRecords
<1>2. Writing(thought, a)
  BY <1>1, SayMirrors
<1>3. Writing(called, b)
  BY <1>1, <1>2, CallToolMirrors
<1>4. Writing(both, c)
  BY <1>1, <1>3, CallToolMirrors
<1>5. Writing(told, d)
  BY <1>1, <1>4, SayMirrors
<1>6. /\ Answered(s, p, at) = IF p.finish = None THEN told ELSE CloseBlock(closing)
      /\ Spoken(q, p, at) = IF p.finish = None THEN d ELSE ended
  BY DEF Answered, Spoken
<1> HIDE DEF told, d
<1>7. CASE p.finish = None
  BY <1>5, <1>6, <1>7
<1>8. CASE p.finish # None
  <2>1. told.e \in Emitters /\ told.r \in Readers /\ d \in Speakers
    BY <1>5 DEF Writing, Mirrors, States
  <2>2. /\ closing.e.started = told.e.started /\ closing.e.finished = told.e.finished
        /\ closing.e.block = told.e.block /\ closing.e.nextIndex = told.e.nextIndex
        /\ closing.e.sawToolBlock = told.e.sawToolBlock /\ closing.r = told.r
    BY <2>1 DEF Emitters
  <2>3. closing \in States
    BY <1>1, <2>1 DEF Emitters, States
  <2>4. ended \in Speakers /\ ended.of = None /\ ended.turns = d.turns /\ ended.pieces = d.pieces
    BY <2>1 DEF Speakers, Opt
  <2> HIDE DEF closing, ended
  <2>5. Mirrors(closing, ended)
    <3>1. told.r.at # "failed" => Same(closing.e, closing.r, ended)
      BY <1>5, <2>2, <2>4 DEF Writing, Mirrors, Same
    <3> QED BY <1>5, <2>2, <2>3, <2>4, <3>1 DEF Writing, Mirrors
  <2>6. /\ Mirrors(CloseBlock(closing), ended)
        /\ CloseBlock(closing).e = [closing.e EXCEPT !.block = None]
    BY <2>5, CloseBlockMirrors
  <2>7. /\ CloseBlock(closing).e.started /\ ~CloseBlock(closing).e.finished
        /\ CloseBlock(closing).e.block = None
    BY <1>5, <2>2, <2>3, <2>6 DEF Writing, States, Emitters
  <2> QED BY <1>6, <1>8, <2>4, <2>6, <2>7 DEF Writing
<1> QED BY <1>7, <1>8

-----------------------------------------------------------------------------
LEMMA InitIInv == Init => IInv
<1> SUFFICES ASSUME Init PROVE IInv
  OBVIOUS
<1>1. emitter \in Emitters
  BY DEF Init, Emitters, Opt
<1>6. sent \in Speakers /\ sent.of = None /\ sent.turns = 0 /\ sent.pieces = << >>
  BY DEF Init, Speakers, Opt
<1>2. /\ reader.blocks = << >> /\ reader.got = << >> /\ reader.reason = None /\ reader.usage = None
      /\ reader = [at |-> "none", open |-> FALSE, signed |-> FALSE, blocks |-> << >>,
                   got |-> << >>, reason |-> None, usage |-> None]
  BY DEF Init
<1>3. reader \in Readers
  <2>1. << >> \in Seq(Blocks) /\ << >> \in Seq(Pieces)
    OBVIOUS
  <2> QED BY <1>2, <2>1 DEF Readers, Opt
<1>4. Same(emitter, reader, sent)
  <2>1. DOMAIN reader.blocks = {} /\ Len(reader.blocks) = 0
    BY <1>2
  <2> QED BY <1>2, <1>6, <2>1 DEF Init, Same
<1>5. Mirrors(Now, sent)
  BY <1>1, <1>3, <1>4, <1>6 DEF Init, Now, Mirrors, States
<1> QED BY <1>5, <1>6 DEF Init, IInv

LEMMA PushKeeps ==
  ASSUME IInv, NEW p \in Payloads, Push(p)
  PROVE  IInv'
<1> DEFINE counted == [e |-> Counted(emitter, p), r |-> reader]
           started == EnsureStarted(counted)
           s == Answered(started, p, n)
<1>1. /\ n \in Nat /\ n' \in Nat /\ stream = "open" /\ stream' = "open" /\ ~emitter.finished
      /\ sent \in Speakers /\ emitter.block = sent.of /\ p \in PayloadRecords
      /\ emitter \in Emitters /\ reader \in Readers /\ Mirrors(Now, sent)
  BY StreamAssumption DEF IInv, Push, Arrives, Mirrors, States, Now
<1>2. Mirrors(counted, sent) /\ ~counted.e.finished /\ counted.e.block = sent.of
  <2>1. /\ counted.e \in Emitters
        /\ counted.e.started = emitter.started /\ counted.e.finished = emitter.finished
        /\ counted.e.block = emitter.block /\ counted.e.nextIndex = emitter.nextIndex
        /\ counted.e.sawToolBlock = emitter.sawToolBlock
    BY <1>1, CountedMirrors
  <2>2. counted \in States /\ counted.r = reader
    BY <1>1, <2>1 DEF States
  <2> HIDE DEF counted
  <2>3. reader.at # "failed" => Same(counted.e, counted.r, sent)
    BY <1>1, <2>1, <2>2 DEF Mirrors, Now, Same
  <2> QED BY <1>1, <2>1, <2>2, <2>3 DEF Mirrors, Now
<1>3. Writing(s, Spoken(sent, p, n))
  BY <1>1, <1>2, EnsureStartedMirrors, AnsweredMirrors
<1>4. emitter' = s.e /\ sent' = Spoken(sent, p, n) /\ reader' \in {s.r, ReadPing(s.r)}
  BY DEF Push
<1> HIDE DEF s
<1>5. ReadPing(s.r) = s.r
  <2>1. s.r \in Readers /\ s.r.at \in {"message", "failed"}
    BY <1>3 DEF Writing, Mirrors, States, Same
  <2> QED BY <2>1, FailedStays DEF ReadPing
<1>6. Mirrors([e |-> s.e, r |-> s.r], sent')
  BY <1>3, <1>4 DEF Writing, Mirrors, States
<1>7. Now' = [e |-> s.e, r |-> s.r]
  BY <1>4, <1>5 DEF Now
<1>8. sent' \in Speakers /\ emitter'.block = sent'.of
  BY <1>3, <1>4 DEF Writing
<1> QED BY <1>1, <1>6, <1>7, <1>8 DEF IInv

LEMMA FinalizeKeeps ==
  ASSUME IInv, Becomes(Finalize(Now)), UNCHANGED sent, n' \in Nat,
         stream' \in {"open", "ended", "broken"}
  PROVE  IInv'
<1> DEFINE z == Finalize(Now)
<1>1. Mirrors(z, sent) /\ z.e.finished
  BY FinalizeMirrors DEF IInv
<1>2. emitter' = z.e /\ reader' = z.r /\ z \in States
  BY <1>1 DEF Becomes, Mirrors
<1> HIDE DEF z
<1>3. Now' = [e |-> z.e, r |-> z.r] /\ z = [e |-> z.e, r |-> z.r]
  BY <1>2 DEF Now, States
<1> QED BY <1>1, <1>2, <1>3 DEF IInv

LEMMA NextKeeps == IInv /\ [Next]_vars => IInv'
<1> SUFFICES ASSUME IInv, [Next]_vars PROVE IInv'
  OBVIOUS
<1>1. CASE \E p \in Payloads : Push(p)
  BY <1>1, PushKeeps
<1>2. CASE PushError
  <2>1. /\ emitter' = emitter /\ reader' = ReadError(reader) /\ sent' = sent
        /\ n' \in Nat /\ stream' = "open"
    BY <1>2 DEF PushError, Becomes, Arrives, IInv
  <2>2. ~emitter.finished /\ emitter \in Emitters /\ reader \in Readers
    BY <1>2 DEF PushError, IInv, Mirrors, States, Now
  <2>3. reader.at \in {"none", "message", "failed"}
    BY <2>2 DEF IInv, Mirrors, Same, Now
  <2>4. reader'.at = "failed" /\ reader' \in Readers
    BY <2>1, <2>2, <2>3, FailedStays, ReadersReads DEF ReadError, Readers
  <2>5. Mirrors(Now, sent)'
    BY <2>1, <2>2, <2>4 DEF IInv, Mirrors, States, Now
  <2> QED BY <2>1, <2>5 DEF IInv
<1>3. CASE PushDone
  BY <1>3, FinalizeKeeps DEF PushDone, Arrives, IInv
<1>4. CASE PushLate
  BY <1>4 DEF PushLate, Arrives, IInv, Now
<1>5. CASE Flush
  BY <1>5, FinalizeKeeps DEF Flush, IInv
<1>6. CASE Break
  BY <1>6 DEF Break, IInv, Now
<1>7. CASE UNCHANGED vars
  BY <1>7 DEF vars, IInv, Now
<1> QED BY <1>1, <1>2, <1>3, <1>4, <1>5, <1>6, <1>7 DEF Next

(* The client is where the emitter is in every reachable state.            *)
THEOREM StreamInvariant == Spec => []IInv
  BY InitIInv, NextKeeps, PTL DEF Spec

(* The state stays in its types: no count of tokens that is sent is        *)
(* negative, whatever counts an upstream reports.                          *)
THEOREM TypeCorrect == Spec => []TypeOK
<1>1. IInv => TypeOK
  BY DEF IInv, TypeOK, Mirrors, States, Now
<1> QED BY <1>1, StreamInvariant, PTL

(* Every event an answer is translated into fits what the client was told  *)
(* before, for every order of payloads, errors and ends of the upstream.   *)
THEOREM ReaderIsNeverLost == Spec => []ReaderFollows
<1>1. IInv => ReaderFollows
  <2> SUFFICES ASSUME IInv PROVE ReaderFollows
    OBVIOUS
  <2>1. reader.at # "lost" /\ (reader.at # "failed" => Same(emitter, reader, sent))
    BY DEF IInv, Mirrors, Now
  <2>2. reader.open \in BOOLEAN
    BY DEF IInv, Mirrors, States, Now, Readers
  <2> QED BY <2>1, <2>2 DEF ReaderFollows, Same
<1> QED BY <1>1, StreamInvariant, PTL

(* Unless the upstream reports an error, the client has all it said, in    *)
(* order and every turn in a block of its own, and when the upstream has   *)
(* ended, a closed message whose stop reason tells of the tools it must    *)
(* run.                                                                    *)
THEOREM AnswersAreComplete == Spec => []AnswerIsComplete
<1>1. IInv => AnswerIsComplete
  <2> SUFFICES ASSUME IInv, reader.at # "failed"
               PROVE  /\ reader.got = sent.pieces
                      /\ stream = "ended" =>
                           reader.at = IF emitter.started THEN "stopped" ELSE "none"
                      /\ /\ reader.at = "stopped"
                         /\ emitter.finishReason \notin {"length", "content_filter"}
                         => /\ ~reader.open
                            /\ (\E i \in DOMAIN reader.blocks : reader.blocks[i].kind = "tool")
                                 => reader.reason = "tool_use"
    BY DEF AnswerIsComplete
  <2>1. Same(emitter, reader, sent) /\ (stream = "ended" => emitter.finished)
    BY DEF IInv, Mirrors, Now
  <2>2. reader.got = sent.pieces
    BY <2>1 DEF Same
  <2>3. stream = "ended" => reader.at = IF emitter.started THEN "stopped" ELSE "none"
    BY <2>1 DEF Same
  <2>4. ASSUME reader.at = "stopped", emitter.finishReason \notin {"length", "content_filter"}
        PROVE  /\ ~reader.open
               /\ (\E i \in DOMAIN reader.blocks : reader.blocks[i].kind = "tool")
                    => reader.reason = "tool_use"
    <3>1. ~reader.open
      BY <2>1, <2>4 DEF Same
    <3>2. emitter.sawToolBlock => StopReason(emitter) = "tool_use"
      BY <2>4 DEF StopReason
    <3> QED BY <2>1, <2>4, <3>1, <3>2 DEF Same
  <2> QED BY <2>2, <2>3, <2>4
<1> QED BY <1>1, StreamInvariant, PTL
=============================================================================
