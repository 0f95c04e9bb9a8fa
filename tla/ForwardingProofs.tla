--------------------------- MODULE ForwardingProofs ---------------------------
(***************************************************************************)
(* What one request keeps to under every mix of preemptions, forced        *)
(* answers, stops, failures and the sweep, for every bound on attempts,    *)
(* thoughts, tokens and pieces.                                            *)
(***************************************************************************)
EXTENDS Forwarding, SequenceTheorems, TLAPS

(* The handler, its lease, its entry and its fetch go together.            *)
Handler ==
  /\ fetch # "none" <=> pc \in {"headers", "body"}
  /\ fetch = "open" => stops = {}
  /\ pc \in {"queued", "yielding"} => lease = "queued"
  /\ pc \in {"readying", "headers", "body"} =>
       lease = "held" \/ (lease = "released" /\ "client" \in stops)
  /\ pc # "over" => entry.at # "ended" /\ preemptions < MaxAttempts
  /\ pc = "yielding" => preemptions > 0

(* Only a resumable request is interrupted; an interrupt comes while there *)
(* is no text yet, and ends the attempt it is meant for.                   *)
Interrupts ==
  /\ mode # "resumable" => interrupt = "none" /\ ~entry.interruptible /\ ~forceNext
  /\ mode # "resumable" => pc # "yielding"
  /\ mode = "resumable" /\ fetch = "open" => interrupt = "live"
  /\ interrupt = "aborted" => state.text = << >>
  /\ forceNext => state.text = << >> /\ pc \in {"readying", "over"}

(* The phase of the entry tells what the client has been sent.             *)
Phases ==
  /\ state.text # << >> => entry.phase \in {"generating", "tool"}
  /\ InTool => entry.phase \in {"generating", "tool"}

(* The upstream stands where the buffer ends, and a next attempt without a *)
(* tail finds the buffer empty.                                            *)
Positions ==
  /\ fetch = "open" => upstream.tokens = Len(state.text)
  /\ fetch = "open" /\ ~upstream.closed => upstream.thoughts = Len(state.reasoning)
  /\ pc \in {"queued", "readying"} /\ prefix = None /\ preemptions = 0 /\ ~forceNext =>
       state.text = << >>
  /\ mode # "resumable" /\ pc \in {"queued", "readying"} =>
       /\ state.text = << >> /\ state.reasoning = << >>
       /\ upstream.tokens = 0 /\ upstream.thoughts = 0

(* So it does with the call, and no attempt is left with a call in the     *)
(* buffer, but for one that was torn.                                      *)
Calls ==
  /\ torn \/ (fetch = "open" => upstream.pieces = Len(state.call))
  /\ torn \/ (pc \in {"queued", "readying", "yielding"} => state.call = << >>)
  /\ mode # "resumable" /\ pc \in {"queued", "readying"} => upstream.pieces = 0

IInv ==
  /\ TypeOK /\ Handler /\ Interrupts /\ Phases /\ Positions /\ Calls
  /\ AnswerIsSeamless /\ ToolCallsAreWhole

-----------------------------------------------------------------------------
(* The records and their updates.                                          *)
LEMMA EntryUpdates ==
  ASSUME NEW e \in Entries
  PROVE  /\ \A a \in {"listed", "swept", "ended"} : [e EXCEPT !.at = a] \in Entries
         /\ \A p \in {"queued", "prefilling", "thinking", "generating", "tool"} :
              [e EXCEPT !.phase = p] \in Entries
         /\ \A b \in BOOLEAN : [e EXCEPT !.interruptible = b] \in Entries
  BY DEF Entries

LEMMA EntryFields ==
  ASSUME NEW e \in Entries
  PROVE  /\ e.phase \in {"queued", "prefilling", "thinking", "generating", "tool"}
         /\ e.at \in {"listed", "swept", "ended"} /\ e.interruptible \in BOOLEAN
         /\ \A a : /\ [e EXCEPT !.at = a].at = a
                  /\ [e EXCEPT !.at = a].phase = e.phase
                  /\ [e EXCEPT !.at = a].interruptible = e.interruptible
         /\ \A p : /\ [e EXCEPT !.phase = p].phase = p
                  /\ [e EXCEPT !.phase = p].at = e.at
                  /\ [e EXCEPT !.phase = p].interruptible = e.interruptible
         /\ \A b : /\ [e EXCEPT !.interruptible = b].interruptible = b
                  /\ [e EXCEPT !.interruptible = b].at = e.at
                  /\ [e EXCEPT !.interruptible = b].phase = e.phase
  BY DEF Entries

LEMMA BufferFields ==
  ASSUME NEW s \in Buffers
  PROVE  s.reasoning \in Seq(Nat) /\ s.text \in Seq(Nat) /\ s.call \in Seq(Nat)
  BY DEF Buffers

LEMMA ReasoningSet ==
  ASSUME NEW s \in Buffers, NEW r \in Seq(Nat)
  PROVE  /\ [s EXCEPT !.reasoning = r] \in Buffers
         /\ [s EXCEPT !.reasoning = r].reasoning = r
         /\ [s EXCEPT !.reasoning = r].text = s.text
         /\ [s EXCEPT !.reasoning = r].call = s.call
  BY DEF Buffers

LEMMA TextSet ==
  ASSUME NEW s \in Buffers, NEW r \in Seq(Nat)
  PROVE  /\ [s EXCEPT !.text = r] \in Buffers
         /\ [s EXCEPT !.text = r].text = r
         /\ [s EXCEPT !.text = r].reasoning = s.reasoning
         /\ [s EXCEPT !.text = r].call = s.call
  BY DEF Buffers

LEMMA CallSet ==
  ASSUME NEW s \in Buffers, NEW r \in Seq(Nat)
  PROVE  /\ [s EXCEPT !.call = r] \in Buffers
         /\ [s EXCEPT !.call = r].call = r
         /\ [s EXCEPT !.call = r].text = s.text
         /\ [s EXCEPT !.call = r].reasoning = s.reasoning
  BY DEF Buffers

LEMMA UpstreamFields ==
  ASSUME NEW u \in Upstreams
  PROVE  /\ u.thoughts \in Nat /\ u.tokens \in Nat /\ u.pieces \in Nat
         /\ u.closed \in BOOLEAN
         /\ \A n \in Nat, c \in BOOLEAN :
              /\ [u EXCEPT !.tokens = n, !.closed = c] \in Upstreams
              /\ [u EXCEPT !.tokens = n, !.closed = c].tokens = n
              /\ [u EXCEPT !.tokens = n, !.closed = c].pieces = u.pieces
              /\ [u EXCEPT !.tokens = n, !.closed = c].closed = c
         /\ \A n \in Nat, c \in BOOLEAN :
              /\ [u EXCEPT !.pieces = n, !.closed = c] \in Upstreams
              /\ [u EXCEPT !.pieces = n, !.closed = c].tokens = u.tokens
              /\ [u EXCEPT !.pieces = n, !.closed = c].pieces = n
              /\ [u EXCEPT !.pieces = n, !.closed = c].closed = c
         /\ \A n \in Nat : /\ [u EXCEPT !.thoughts = n] \in Upstreams
                         /\ [u EXCEPT !.thoughts = n].tokens = u.tokens
                         /\ [u EXCEPT !.thoughts = n].pieces = u.pieces
                         /\ [u EXCEPT !.thoughts = n].thoughts = n
                         /\ [u EXCEPT !.thoughts = n].closed = u.closed
  BY DEF Upstreams

LEMMA InitIInv == Init => IInv
<1> SUFFICES ASSUME Init PROVE IInv
  OBVIOUS
<1>1. /\ upstream \in Upstreams /\ entry \in Entries /\ state \in Buffers
      /\ state.text = << >> /\ state.reasoning = << >> /\ state.call = << >>
      /\ upstream.tokens = 0 /\ upstream.thoughts = 0 /\ upstream.pieces = 0
      /\ entry.at = "listed" /\ ~entry.interruptible
  BY DEF Init, Upstreams, Entries, Buffers
<1>2. TypeOK
  <2>1. mode \in AllModes
    BY ForwardingAssumption DEF Init
  <2>2. preemptions \in 0..MaxAttempts
    BY ForwardingAssumption DEF Init
  <2>3. QED
    BY <1>1, <2>1, <2>2 DEF Init, TypeOK, Results
<1>3. Handler /\ Interrupts /\ Phases /\ Positions /\ Calls
  BY <1>1, ForwardingAssumption
     DEF Init, Handler, Interrupts, Phases, InTool, Positions, Calls
<1>4. AnswerIsSeamless /\ ToolCallsAreWhole
  BY <1>1 DEF Init, AnswerIsSeamless, ToolCallsAreWhole, InTool, UpTo
<1>5. QED
  BY <1>2, <1>3, <1>4 DEF IInv

LEMMA SeamlessAppend ==
  ASSUME NEW s \in Seq(Nat), s = UpTo(Len(s)), NEW n \in Nat, n = Len(s) + 1
  PROVE  Append(s, n) = UpTo(Len(Append(s, n)))
  BY DEF UpTo

-----------------------------------------------------------------------------
(* What a step does to the entry, to the upstream and to the buffer.       *)

LEMMA Tails ==
  ASSUME TypeOK
  PROVE  /\ NextTail(prefix).think \in Seq(Nat) \cup {None}
         /\ NextTail(prefix).text \in {<< >>, state.text}
         /\ NextTail(prefix).text \in Seq(Nat)
         /\ forceNext => NextTail(prefix).think # None /\ NextTail(prefix).text = << >>
         /\ ~forceNext /\ (prefix # None \/ preemptions # 0) =>
              NextTail(prefix).text = state.text
         /\ ~forceNext /\ prefix # None => NextTail(prefix).think # None
<1>1. state.reasoning \in Seq(Nat) /\ state.text \in Seq(Nat) /\ << >> \in Seq(Nat)
  BY BufferFields DEF TypeOK
<1>2. prefix \in Seq(Nat) \cup {None} /\ None \notin Seq(Nat)
  BY ForwardingAssumption DEF TypeOK
<1>3. CASE forceNext
  BY <1>1, <1>2, <1>3 DEF NextTail
<1>4. CASE ~forceNext /\ prefix # None
  BY <1>1, <1>2, <1>4 DEF NextTail
<1>5. CASE ~forceNext /\ prefix = None /\ preemptions = 0
  BY <1>1, <1>2, <1>5 DEF NextTail
<1>6. CASE ~forceNext /\ prefix = None /\ preemptions # 0
  BY <1>1, <1>2, <1>6 DEF NextTail
<1>7. QED
  BY <1>3, <1>4, <1>5, <1>6

LEMMA UpstreamStep ==
  ASSUME TypeOK, [Next]_vars
  PROVE  /\ upstream' \in Upstreams
         /\ \/ UNCHANGED upstream
            \/ BeginAttempt /\ upstream'.pieces = 0
            \/ Thought /\ upstream'.tokens = upstream.tokens
                  /\ upstream'.thoughts = upstream.thoughts + 1
                  /\ upstream'.pieces = upstream.pieces
                  /\ upstream'.closed = upstream.closed
            \/ Token /\ upstream'.tokens = upstream.tokens + 1 /\ upstream'.closed = TRUE
                  /\ upstream'.pieces = upstream.pieces
            \/ ToolCall /\ upstream'.tokens = upstream.tokens /\ upstream'.closed = TRUE
                  /\ upstream'.pieces = upstream.pieces + 1
<1>t. upstream \in Upstreams /\ state \in Buffers
  BY DEF TypeOK
<1>1. CASE BeginAttempt
  <2>1. PICK t \in {NextTail(prefix)} : upstream' = Behind(t)
    BY <1>1 DEF BeginAttempt
  <2>2. t.text \in Seq(Nat)
    BY <2>1, Tails
  <2>3. Len(t.text) \in Nat
    BY <2>2
  <2>4. (~NoTail(t)) \in BOOLEAN
    OBVIOUS
  <2>5. [thoughts |-> 0, tokens |-> Len(t.text), pieces |-> 0, closed |-> ~NoTail(t)]
        \in Upstreams
    BY <2>3, <2>4 DEF Upstreams
  <2>6. upstream'.pieces = 0
    BY <2>1 DEF Behind
  <2>7. QED
    BY <1>1, <2>1, <2>5, <2>6 DEF Behind
<1>2. CASE Thought
  <2>1. upstream' = [upstream EXCEPT !.thoughts = upstream.thoughts + 1]
    BY <1>2 DEF Thought
  <2>2. upstream.thoughts \in Nat
    BY <1>t DEF Upstreams
  <2>3. upstream.thoughts + 1 \in Nat
    BY <2>2
  <2>4. upstream' \in Upstreams /\ upstream'.tokens = upstream.tokens
        /\ upstream'.thoughts = upstream.thoughts + 1 /\ upstream'.closed = upstream.closed
        /\ upstream'.pieces = upstream.pieces
    BY <1>t, <2>1, <2>3 DEF Upstreams
  <2>5. QED
    BY <1>2, <2>4
<1>3. CASE Token
  <2>1. upstream' = [upstream EXCEPT !.tokens = upstream.tokens + 1, !.closed = TRUE]
    BY <1>3 DEF Token
  <2>2. upstream.tokens \in Nat
    BY <1>t DEF Upstreams
  <2>3. upstream.tokens + 1 \in Nat /\ TRUE \in BOOLEAN
    BY <2>2
  <2>4. upstream' \in Upstreams /\ upstream'.tokens = upstream.tokens + 1
        /\ upstream'.closed = TRUE /\ upstream'.pieces = upstream.pieces
    BY <1>t, <2>1, <2>3, UpstreamFields, Zenon
  <2>5. QED
    BY <1>3, <2>4
<1>4. CASE ToolCall
  <2>1. upstream' = [upstream EXCEPT !.pieces = upstream.pieces + 1, !.closed = TRUE]
    BY <1>4 DEF ToolCall
  <2>2. upstream.pieces \in Nat
    BY <1>t DEF Upstreams
  <2>3. upstream.pieces + 1 \in Nat /\ TRUE \in BOOLEAN
    BY <2>2
  <2>4. upstream' \in Upstreams /\ upstream'.tokens = upstream.tokens
        /\ upstream'.closed = TRUE /\ upstream'.pieces = upstream.pieces + 1
    BY <1>t, <2>1, <2>3, UpstreamFields, Zenon
  <2>5. QED
    BY <1>4, <2>4
<1>5. CASE UNCHANGED upstream
  BY <1>t, <1>5
<1>6. QED
  BY <1>1, <1>2, <1>3, <1>4, <1>5 DEF Next, vars, Granted, NotReady, Fetch, Headers,
     UpstreamEnds, UpstreamFails, AttemptAborted, FetchAborted, Preempt, ForceAnswer, Stop,
     ClientLeaves, Sweep

LEMMA BufferStep ==
  ASSUME TypeOK, [Next]_vars
  PROVE  /\ state' \in Buffers
         /\ \/ UNCHANGED state
            \/ /\ BeginAttempt
               /\ state'.text = state.text /\ state'.call = state.call
               /\ state'.reasoning =
                    IF NoTail(NextTail(prefix)) THEN << >> ELSE state.reasoning
            \/ /\ Thought
               /\ state'.text = state.text /\ state'.call = state.call
               /\ state'.reasoning = Append(state.reasoning, upstream.thoughts + 1)
            \/ /\ Token
               /\ state'.reasoning = state.reasoning /\ state'.call = state.call
               /\ state'.text = Append(state.text, upstream.tokens + 1)
            \/ /\ ToolCall
               /\ state'.reasoning = state.reasoning /\ state'.text = state.text
               /\ state'.call = Append(state.call, upstream.pieces + 1)
<1>t. state \in Buffers /\ upstream \in Upstreams
  BY DEF TypeOK
<1>n. state.reasoning \in Seq(Nat) /\ state.text \in Seq(Nat) /\ << >> \in Seq(Nat)
      /\ upstream.thoughts + 1 \in Nat /\ upstream.tokens + 1 \in Nat
      /\ state.call \in Seq(Nat) /\ upstream.pieces + 1 \in Nat
  BY <1>t DEF Buffers, Upstreams
<1>1. CASE BeginAttempt
  <2>1. state' = IF NoTail(NextTail(prefix)) THEN [state EXCEPT !.reasoning = << >>] ELSE state
    BY <1>1 DEF BeginAttempt
  <2>2. CASE NoTail(NextTail(prefix))
    <3>1. state' = [state EXCEPT !.reasoning = << >>]
      BY <2>1, <2>2
    <3>2. state' \in Buffers /\ state'.reasoning = << >>
          /\ state'.text = state.text /\ state'.call = state.call
      BY <1>t, <1>n, <3>1, ReasoningSet, Zenon
    <3>3. QED
      BY <1>1, <2>2, <3>2
  <2>3. CASE ~NoTail(NextTail(prefix))
    BY <1>1, <1>t, <2>1, <2>3
  <2>4. QED
    BY <2>2, <2>3
<1>2. CASE Thought
  <2>1. upstream'.thoughts = upstream.thoughts + 1
    <3>1. upstream' = [upstream EXCEPT !.thoughts = upstream.thoughts + 1]
      BY <1>2 DEF Thought
    <3>2. QED
      BY <1>t, <1>n, <3>1 DEF Upstreams
  <2>2. state' = [state EXCEPT !.reasoning = Append(state.reasoning, upstream.thoughts + 1)]
    BY <1>2, <2>1 DEF Thought
  <2>3. Append(state.reasoning, upstream.thoughts + 1) \in Seq(Nat)
    BY <1>n
  <2>4. state' \in Buffers /\ state'.text = state.text /\ state'.call = state.call
        /\ state'.reasoning = Append(state.reasoning, upstream.thoughts + 1)
    BY <1>t, <2>2, <2>3, ReasoningSet, Zenon
  <2>5. QED
    BY <1>2, <2>4
<1>3. CASE Token
  <2>1. upstream'.tokens = upstream.tokens + 1
    <3>1. upstream' = [upstream EXCEPT !.tokens = upstream.tokens + 1, !.closed = TRUE]
      BY <1>3 DEF Token
    <3>2. QED
      BY <1>t, <1>n, <3>1, UpstreamFields, Zenon
  <2>2. state' = [state EXCEPT !.text = Append(state.text, upstream.tokens + 1)]
    BY <1>3, <2>1 DEF Token
  <2>3. Append(state.text, upstream.tokens + 1) \in Seq(Nat)
    BY <1>n
  <2>4. state' \in Buffers /\ state'.reasoning = state.reasoning
        /\ state'.call = state.call
        /\ state'.text = Append(state.text, upstream.tokens + 1)
    BY <1>t, <2>2, <2>3, TextSet, Zenon
  <2>5. QED
    BY <1>3, <2>4
<1>4. CASE ToolCall
  <2>1. upstream'.pieces = upstream.pieces + 1
    <3>1. upstream' = [upstream EXCEPT !.pieces = upstream.pieces + 1, !.closed = TRUE]
      BY <1>4 DEF ToolCall
    <3>2. QED
      BY <1>t, <1>n, <3>1, UpstreamFields, Zenon
  <2>2. state' = [state EXCEPT !.call = Append(state.call, upstream.pieces + 1)]
    BY <1>4, <2>1 DEF ToolCall
  <2>3. Append(state.call, upstream.pieces + 1) \in Seq(Nat)
    BY <1>n
  <2>4. state' \in Buffers /\ state'.reasoning = state.reasoning
        /\ state'.text = state.text
        /\ state'.call = Append(state.call, upstream.pieces + 1)
    BY <1>t, <2>2, <2>3, CallSet, Zenon
  <2>5. QED
    BY <1>4, <2>4
<1>5. CASE UNCHANGED state
  BY <1>t, <1>5
<1>6. QED
  BY <1>1, <1>2, <1>3, <1>4, <1>5 DEF Next, vars, Granted, NotReady, Fetch, Headers,
     UpstreamEnds, UpstreamFails, AttemptAborted, FetchAborted, Preempt, ForceAnswer, Stop,
     ClientLeaves, Sweep

(* An entry ends with its handler, and its phase follows the buffer.       *)
LEMMA EntryStep ==
  ASSUME TypeOK, [Next]_vars
  PROVE  /\ entry' \in Entries
         /\ pc' # "over" /\ entry.at # "ended" => entry'.at # "ended"
         /\ entry'.interruptible \in {entry.interruptible, mode = "resumable"}
         /\ \/ entry'.phase = entry.phase
            \/ entry.phase = "queued" /\ entry'.phase = "prefilling"
            \/ entry.phase = "prefilling" /\ entry'.phase = "thinking"
            \/ Token /\ entry'.phase = "generating"
            \/ ToolCall /\ entry'.phase = "tool"
<1> DEFINE Same(e) ==
             /\ e \in Entries /\ e.interruptible = entry.interruptible
             /\ \/ e.phase = entry.phase
                \/ entry.phase = "queued" /\ e.phase = "prefilling"
<1>t. entry \in Entries
  BY DEF TypeOK
<1>d. Same(Dispatched) /\ Dispatched.at = entry.at
  <2>1. CASE entry.phase = "queued"
    <3>1. Dispatched = [entry EXCEPT !.phase = "prefilling"]
      BY <2>1 DEF Dispatched
    <3>2. QED
      BY <1>t, <2>1, <3>1, EntryUpdates, EntryFields, ZenonT(60)
  <2>2. CASE entry.phase # "queued"
    <3>1. Dispatched = [entry EXCEPT !.phase = entry.phase]
      BY <2>2 DEF Dispatched
    <3>2. QED
      BY <1>t, <3>1, EntryUpdates, EntryFields, ZenonT(60)
  <2>3. QED
    BY <2>1, <2>2
<1>s. Same(entry)
  BY <1>t
<1>o. ASSUME NEW e, Same(e), NEW r, Over(r, e)
      PROVE  Same(entry') /\ pc' = "over"
  <2>1. entry' = [e EXCEPT !.at = "ended"] /\ pc' = "over"
    BY <1>o DEF Over
  <2>2. e \in Entries
    BY <1>o
  <2>3. entry' \in Entries /\ entry'.phase = e.phase /\ entry'.interruptible = e.interruptible
    BY <2>1, <2>2, EntryUpdates, EntryFields
  <2>4. QED
    BY <1>o, <2>1, <2>3
<1>p. ASSUME NEW e, Same(e), e.at = entry.at, Preempted(e)
      PROVE  Same(entry') /\ (pc' # "over" => entry'.at = entry.at)
  <2>1. CASE preemptions + 1 >= MaxAttempts
    <3>1. Over("partial", e)
      BY <1>p, <2>1 DEF Preempted
    <3>2. QED
      BY <1>o, <1>p, <3>1
  <2>2. CASE ~(preemptions + 1 >= MaxAttempts)
    BY <1>p, <2>2 DEF Preempted
  <2>3. QED
    BY <2>1, <2>2
<1> HIDE DEF Same
<1> DEFINE Kept == Same(entry') /\ (pc' # "over" /\ entry.at # "ended" => entry'.at # "ended")
<1>1. CASE Granted
  <2> DEFINE b == mode = "resumable"
  <2>1. entry' = [entry EXCEPT !.interruptible = b]
    BY <1>1 DEF Granted
  <2>2. b \in BOOLEAN
    OBVIOUS
  <2> HIDE DEF b
  <2>3. entry' \in Entries /\ entry'.interruptible = b
        /\ entry'.phase = entry.phase /\ entry'.at = entry.at
    BY <1>t, <2>1, <2>2, EntryUpdates, EntryFields, ZenonT(60)
  <2>4. QED
    BY <2>3 DEF b
<1>2. CASE NotReady \/ UpstreamEnds \/ UpstreamFails
  <2>1. (\E r : Over(r, entry)) \/ Preempted(entry)
    BY <1>2 DEF NotReady, UpstreamEnds, UpstreamFails
  <2>2. Kept
    BY <1>o, <1>p, <1>s, <2>1
  <2>3. QED
    BY <2>2 DEF Same
<1>3. CASE BeginAttempt
  <2>1. Begins
    BY <1>3 DEF BeginAttempt
  <2>2. CASE stops # {}
    <3>1. PICK r : Over(r, Dispatched)
      BY <2>1, <2>2 DEF Begins, Stopped
    <3>2. Kept
      BY <1>o, <1>d, <3>1
    <3>3. QED
      BY <3>2 DEF Same
  <2>3. CASE stops = {} /\ preempted
    <3>1. Preempted(Dispatched)
      BY <2>1, <2>3 DEF Begins
    <3>2. Kept
      BY <1>p, <1>d, <3>1
    <3>3. QED
      BY <3>2 DEF Same
  <2>4. CASE stops = {} /\ ~preempted
    <3>1. entry' = Dispatched
      BY <2>1, <2>4 DEF Begins, Opens
    <3>2. QED
      BY <1>d, <3>1 DEF Same
  <2>5. QED
    BY <2>2, <2>3, <2>4
<1>4. CASE Fetch
  <2>1. entry' = Dispatched \/ \E r : Over(r, entry)
    BY <1>4 DEF Fetch, Opens
  <2>2. Kept
    BY <1>o, <1>s, <1>d, <2>1
  <2>3. QED
    BY <2>2 DEF Same
<1>5. CASE Thought
  <2>1. CASE entry.phase = "prefilling"
    <3>1. entry' = [entry EXCEPT !.phase = "thinking"]
      BY <1>5, <2>1 DEF Thought
    <3>2. entry' \in Entries /\ entry'.phase = "thinking" /\ entry'.at = entry.at
          /\ entry'.interruptible = entry.interruptible
      BY <1>t, <3>1, EntryUpdates, EntryFields, ZenonT(60)
    <3>3. QED
      BY <2>1, <3>2
  <2>2. CASE entry.phase # "prefilling"
    <3>1. entry' = [entry EXCEPT !.phase = entry.phase]
      BY <1>5, <2>2 DEF Thought
    <3>2. entry.phase \in {"queued", "prefilling", "thinking", "generating", "tool"}
      BY <1>t DEF Entries
    <3>3. entry' \in Entries /\ entry'.phase = entry.phase /\ entry'.at = entry.at
          /\ entry'.interruptible = entry.interruptible
      BY <1>t, <3>1, <3>2, EntryUpdates, EntryFields, ZenonT(60)
    <3>4. QED
      BY <3>3
  <2>3. QED
    BY <2>1, <2>2
<1>6. CASE Token
  <2>1. entry' = [entry EXCEPT !.phase = "generating"]
    BY <1>6 DEF Token
  <2>2. entry' \in Entries /\ entry'.phase = "generating" /\ entry'.at = entry.at
        /\ entry'.interruptible = entry.interruptible
    BY <1>t, <2>1, EntryUpdates, EntryFields, ZenonT(60)
  <2>3. QED
    BY <1>6, <2>2
<1>7. CASE ToolCall
  <2>1. entry' = [entry EXCEPT !.phase = "tool"]
    BY <1>7 DEF ToolCall
  <2>2. entry' \in Entries /\ entry'.phase = "tool" /\ entry'.at = entry.at
        /\ entry'.interruptible = entry.interruptible
    BY <1>t, <2>1, EntryUpdates, EntryFields, ZenonT(60)
  <2>3. QED
    BY <1>7, <2>2
<1>8. CASE AttemptAborted
  <2>1. (\E r : Over(r, entry)) \/ Preempted(entry) \/ UNCHANGED entry
    BY <1>8 DEF AttemptAborted, Stopped
  <2>2. Kept
    BY <1>o, <1>p, <1>s, <2>1
  <2>3. QED
    BY <2>2 DEF Same
<1>9. CASE FetchAborted
  <2>1. PICK r : Over(r, entry)
    BY <1>9 DEF FetchAborted, Stopped
  <2>2. Kept
    BY <1>o, <1>s, <2>1
  <2>3. QED
    BY <2>2 DEF Same
<1>10. CASE ClientLeaves
  <2>1. (\E r : Over(r, entry)) \/ UNCHANGED entry
    BY <1>10 DEF ClientLeaves
  <2>2. Kept
    BY <1>o, <1>s, <2>1
  <2>3. QED
    BY <2>2 DEF Same
<1>11. CASE Sweep
  <2>1. entry' = [entry EXCEPT !.at = "swept"]
    BY <1>11 DEF Sweep
  <2>2. entry' \in Entries /\ entry'.at = "swept" /\ entry'.phase = entry.phase
        /\ entry'.interruptible = entry.interruptible
    BY <1>t, <2>1, EntryUpdates, EntryFields, ZenonT(40)
  <2>3. QED
    BY <2>2, Zenon
<1>12. CASE UNCHANGED entry
  BY <1>t, <1>12
<1>13. Headers \/ Preempt \/ ForceAnswer \/ Stop("finish") \/ Stop("cancel")
       \/ UNCHANGED vars => UNCHANGED entry
  BY DEF Headers, Preempt, ForceAnswer, Stop, vars
<1>14. \/ Granted \/ NotReady \/ UpstreamEnds \/ UpstreamFails \/ BeginAttempt \/ Fetch
       \/ Thought \/ Token \/ ToolCall \/ AttemptAborted \/ FetchAborted \/ ClientLeaves
       \/ Sweep \/ UNCHANGED entry
  BY <1>13 DEF Next
<1>15. QED
  BY <1>1, <1>2, <1>3, <1>4, <1>5, <1>6, <1>7, <1>8, <1>9, <1>10, <1>11, <1>12, <1>14

-----------------------------------------------------------------------------
(* The steps of the control.                                               *)

LEMMA TypeStep ==
  ASSUME IInv, [Next]_vars
  PROVE  TypeOK'
<1> USE ForwardingAssumption DEF AllModes, Results, loopVars
<1>t. TypeOK /\ Handler
  BY DEF IInv
<1>d. upstream' \in Upstreams /\ state' \in Buffers /\ entry' \in Entries
  BY <1>t, UpstreamStep, BufferStep, EntryStep
<1>r. state.reasoning \in Seq(Nat)
  BY <1>t DEF TypeOK, Buffers
<1> DEFINE Control ==
      /\ mode \in AllModes
      /\ pc \in {"queued", "readying", "headers", "body", "yielding", "over"}
      /\ fetch \in {"none", "open", "aborted"}
      /\ lease \in {"queued", "held", "released"}
      /\ preempted \in BOOLEAN
      /\ stops \subseteq {"finish", "cancel", "client"}
      /\ interrupt \in {"none", "live", "aborted"}
      /\ preemptions \in 0..MaxAttempts /\ forceNext \in BOOLEAN
      /\ prefix \in Seq(Nat) \cup {None} /\ torn \in BOOLEAN
      /\ result \in Results
<1>c. Control
  BY <1>t DEF TypeOK
<1> SUFFICES Control'
  BY <1>d DEF TypeOK
<1>1. CASE Granted
  <2>1. /\ pc' = "readying" /\ lease' = "held" /\ preempted' = FALSE
        /\ UNCHANGED <<mode, fetch, stops, interrupt, preemptions, forceNext, prefix, torn, result>>
    BY <1>1 DEF Granted
  <2>2. QED
    BY <1>c, <2>1
<1>2. CASE NotReady \/ UpstreamEnds
  BY <1>c, <1>2 DEF NotReady, UpstreamEnds, Over
<1>13. CASE UpstreamFails
  <2>1. preemptions + 1 \in 0..MaxAttempts
    BY <1>t, <1>c, <1>13 DEF UpstreamFails, Handler
  <2>2. QED
    BY <1>c, <1>13, <2>1 DEF UpstreamFails, Preempted, Over
<1>3. CASE BeginAttempt
  <2>1. prefix' \in Seq(Nat) \cup {None}
    BY <1>t, <1>3, Tails DEF BeginAttempt
  <2>2. preemptions + 1 \in 0..MaxAttempts
    BY <1>t, <1>c, <1>3 DEF BeginAttempt, Handler
  <2>3. QED
    BY <1>c, <1>3, <2>1, <2>2 DEF BeginAttempt, Begins, Stopped, Preempted, Opens, Over
<1>4. CASE Fetch
  BY <1>c, <1>4 DEF Fetch, Opens, Over
<1>5. CASE Headers \/ Thought \/ Token \/ ToolCall \/ Sweep
  BY <1>c, <1>5 DEF Headers, Thought, Token, ToolCall, UnchangedByFrame, Sweep
<1>6. CASE AttemptAborted
  <2>1. preemptions + 1 \in 0..MaxAttempts
    BY <1>t, <1>c, <1>6 DEF AttemptAborted, Handler
  <2>2. QED
    BY <1>c, <1>6, <2>1 DEF AttemptAborted, Stopped, Preempted, Over
<1>7. CASE FetchAborted
  BY <1>c, <1>7 DEF FetchAborted, Stopped, Over
<1>8. CASE Preempt \/ ForceAnswer
  <2>1. fetch' \in {"none", "open", "aborted"}
    BY <1>c, <1>8 DEF Preempt, ForceAnswer, AbortedIf
  <2>2. interrupt' \in {"none", "live", "aborted"} /\ preempted' \in BOOLEAN
    BY <1>c, <1>8 DEF Preempt, ForceAnswer
  <2>3. UNCHANGED <<mode, pc, lease, stops, loopVars, result>>
    BY <1>8 DEF Preempt, ForceAnswer
  <2>4. QED
    BY <1>c, <2>1, <2>2, <2>3
<1>9. ASSUME NEW h \in {"finish", "cancel"}, Stop(h) PROVE Control'
  BY <1>c, <1>9 DEF Stop, AbortedIf
<1>10. CASE ClientLeaves
  <2>1. stops' \subseteq {"finish", "cancel", "client"}
    BY <1>c, <1>10 DEF ClientLeaves
  <2>2. fetch' \in {"none", "open", "aborted"} /\ lease' \in {"queued", "held", "released"}
    BY <1>c, <1>10 DEF ClientLeaves, AbortedIf, Over
  <2>3. pc' \in {"queued", "readying", "headers", "body", "yielding", "over"}
        /\ result' \in Results
    BY <1>c, <1>10 DEF ClientLeaves, Over
  <2>4. QED
    BY <1>c, <1>10, <2>1, <2>2, <2>3 DEF ClientLeaves
<1>11. CASE UNCHANGED vars
  BY <1>c, <1>11 DEF vars
<1>12. QED
  BY <1>1, <1>2, <1>3, <1>4, <1>5, <1>6, <1>7, <1>8, <1>9, <1>10, <1>11, <1>13 DEF Next

LEMMA HandlerStep ==
  ASSUME IInv, [Next]_vars
  PROVE  Handler'
<1> USE ForwardingAssumption DEF loopVars
<1>t. TypeOK /\ Handler
  BY DEF IInv
<1>e. pc' # "over" /\ entry.at # "ended" => entry'.at # "ended"
  BY <1>t, EntryStep
<1>p. preemptions \in Nat /\ MaxAttempts \in Nat
      /\ pc \in {"queued", "readying", "headers", "body", "yielding", "over"}
      /\ fetch \in {"none", "open", "aborted"}
  BY <1>t DEF TypeOK
<1>1. CASE Granted
  BY <1>t, <1>e, <1>1 DEF Granted, Handler
<1>2. CASE NotReady \/ UpstreamEnds \/ UpstreamFails
  BY <1>t, <1>e, <1>p, <1>2
     DEF NotReady, UpstreamEnds, UpstreamFails, Preempted, Over, Handler
<1>3. CASE BeginAttempt
  BY <1>t, <1>e, <1>p, <1>3 DEF BeginAttempt, Begins, Stopped, Preempted, Opens, Over, Handler
<1>4. CASE Fetch
  BY <1>t, <1>e, <1>4 DEF Fetch, Opens, Over, Handler
<1>5. CASE Headers \/ Thought \/ Token \/ ToolCall \/ Sweep
  BY <1>t, <1>e, <1>5 DEF Headers, Thought, Token, ToolCall, Frame, UnchangedByFrame, Sweep, Handler
<1>6. CASE AttemptAborted
  BY <1>t, <1>e, <1>p, <1>6 DEF AttemptAborted, Stopped, Preempted, Over, Handler
<1>7. CASE FetchAborted
  BY <1>t, <1>7 DEF FetchAborted, Stopped, Over, Handler
<1>8. CASE Preempt \/ ForceAnswer
  BY <1>t, <1>e, <1>p, <1>8 DEF Preempt, ForceAnswer, AbortedIf, Handler
<1>9. ASSUME NEW h \in {"finish", "cancel"}, Stop(h) PROVE Handler'
  BY <1>t, <1>e, <1>p, <1>9 DEF Stop, AbortedIf, Handler
<1>10. CASE ClientLeaves
  BY <1>t, <1>e, <1>p, <1>10 DEF ClientLeaves, AbortedIf, Over, Handler
<1>11. CASE UNCHANGED vars
  BY <1>t, <1>11 DEF vars, Handler
<1>12. QED
  BY <1>1, <1>2, <1>3, <1>4, <1>5, <1>6, <1>7, <1>8, <1>9, <1>10, <1>11 DEF Next

LEMMA InterruptsStep ==
  ASSUME IInv, [Next]_vars
  PROVE  Interrupts'
<1> USE DEF loopVars
<1>t. TypeOK /\ Handler /\ Interrupts /\ Phases
  BY DEF IInv
<1>m. mode' = mode
  BY DEF Next, vars, Granted, NotReady, BeginAttempt, Fetch, Headers, Thought, Token, ToolCall,
     UnchangedByFrame, UpstreamEnds, UpstreamFails, AttemptAborted, FetchAborted, Preempt,
     ForceAnswer, Stop, ClientLeaves, Sweep
<1>i. mode' # "resumable" => ~entry'.interruptible
  <2>1. entry'.interruptible \in {entry.interruptible, mode = "resumable"}
    BY <1>t, EntryStep
  <2>2. QED
    BY <1>t, <1>m, <2>1, Zenon DEF Interrupts
<1>x. ~Token => state'.text = state.text
  BY <1>t, BufferStep
<1>f. fetch \in {"none", "open", "aborted"} /\ interrupt \in {"none", "live", "aborted"}
  BY <1>t DEF TypeOK
<1>1. CASE Granted
  BY <1>t, <1>i, <1>m, <1>1 DEF Granted, Interrupts, Handler
<1>2. CASE NotReady \/ UpstreamEnds \/ UpstreamFails
  BY <1>t, <1>i, <1>m, <1>2
     DEF NotReady, UpstreamEnds, UpstreamFails, Preempted, Over, Interrupts, Handler
<1>3. CASE BeginAttempt
  BY <1>t, <1>i, <1>m, <1>x, <1>3
     DEF BeginAttempt, Begins, Stopped, Preempted, Opens, Over, Interrupts
<1>4. CASE Fetch
  BY <1>t, <1>i, <1>m, <1>4 DEF Fetch, Opens, Over, Interrupts
<1>5. CASE Headers \/ Sweep
  BY <1>t, <1>i, <1>m, <1>5 DEF Headers, Sweep, Interrupts, Handler
<1>6. CASE Thought \/ ToolCall
  BY <1>t, <1>i, <1>m, <1>x, <1>6, BufferStep
     DEF Thought, ToolCall, Frame, UnchangedByFrame, Interrupts, Handler
<1>7. CASE Token
  <2>1. interrupt # "aborted" /\ ~forceNext
    BY <1>t, <1>7 DEF Token, Frame, Interrupts
  <2>2. QED
    BY <1>t, <1>i, <1>m, <1>7, <2>1 DEF Token, UnchangedByFrame, Interrupts
<1>8. CASE AttemptAborted
  BY <1>t, <1>i, <1>m, <1>8 DEF AttemptAborted, Stopped, Preempted, Over, Interrupts, Handler
<1>9. CASE FetchAborted
  BY <1>t, <1>i, <1>m, <1>9 DEF FetchAborted, Stopped, Over, Interrupts, Handler
<1>10. CASE Preempt
  BY <1>t, <1>i, <1>m, <1>10 DEF Preempt, AbortedIf, Interrupts
<1>11. CASE ForceAnswer
  <2>1. mode = "resumable" /\ state.text = << >>
    BY <1>t, <1>11 DEF ForceAnswer, Interrupts, Phases
  <2>2. fetch' # "open"
    BY <1>t, <1>f, <1>11, <2>1 DEF ForceAnswer, AbortedIf, Interrupts
  <2>3. QED
    BY <1>t, <1>i, <1>m, <1>11, <2>1, <2>2 DEF ForceAnswer, Interrupts
<1>12. ASSUME NEW h \in {"finish", "cancel"}, Stop(h) PROVE Interrupts'
  BY <1>t, <1>i, <1>m, <1>12 DEF Stop, AbortedIf, Interrupts
<1>13. CASE ClientLeaves
  BY <1>t, <1>i, <1>m, <1>13 DEF ClientLeaves, AbortedIf, Over, Interrupts
<1>14. CASE UNCHANGED vars
  BY <1>t, <1>14 DEF vars, Interrupts
<1>15. QED
  BY <1>1, <1>2, <1>3, <1>4, <1>5, <1>6, <1>7, <1>8, <1>9, <1>10, <1>11, <1>12, <1>13,
     <1>14 DEF Next

LEMMA PhasesStep ==
  ASSUME IInv, [Next]_vars
  PROVE  Phases'
<1>t. TypeOK /\ Phases
  BY DEF IInv
<1>1. CASE Token
  BY <1>t, <1>1, BufferStep DEF Token, Phases, InTool
<1>2. CASE ToolCall
  BY <1>t, <1>2, BufferStep DEF ToolCall, Phases, InTool
<1>3. CASE ~Token /\ ~ToolCall
  <2>1. state'.text = state.text /\ state'.call = state.call
    BY <1>t, <1>3, BufferStep
  <2>2. \/ entry'.phase = entry.phase
        \/ entry.phase = "queued" \/ entry.phase = "prefilling"
    BY <1>t, <1>3, EntryStep
  <2>3. QED
    BY <1>t, <2>1, <2>2 DEF Phases, InTool
<1>4. QED
  BY <1>1, <1>2, <1>3

LEMMA PositionsStep ==
  ASSUME IInv, [Next]_vars
  PROVE  Positions'
<1> USE DEF loopVars
<1>t. TypeOK /\ Handler /\ Interrupts /\ Positions
  BY DEF IInv
<1>n. /\ state.text \in Seq(Nat) /\ state.reasoning \in Seq(Nat)
      /\ upstream.tokens \in Nat /\ upstream.thoughts \in Nat
      /\ fetch \in {"none", "open", "aborted"}
      /\ pc \in {"queued", "readying", "headers", "body", "yielding", "over"}
  BY <1>t DEF TypeOK, Buffers, Upstreams
<1>1. CASE Token
  <2>1. upstream'.tokens = upstream.tokens + 1 /\ upstream'.closed = TRUE
    BY <1>t, <1>1, UpstreamStep DEF Token, Thought, ToolCall, BeginAttempt, Frame
  <2>2. state'.text = Append(state.text, upstream.tokens + 1)
    BY <1>t, <1>1, BufferStep DEF Token, Thought, ToolCall, BeginAttempt, Frame
  <2>3. QED
    BY <1>t, <1>n, <1>1, <2>1, <2>2 DEF Token, Frame, UnchangedByFrame, Positions
<1>2. CASE Thought
  <2>1. /\ upstream'.tokens = upstream.tokens /\ upstream'.thoughts = upstream.thoughts + 1
        /\ upstream'.closed = upstream.closed
    BY <1>t, <1>2, UpstreamStep DEF Token, Thought, ToolCall, BeginAttempt, Frame
  <2>2. /\ state'.reasoning = Append(state.reasoning, upstream.thoughts + 1)
        /\ state'.text = state.text
    BY <1>t, <1>2, BufferStep DEF Token, Thought, ToolCall, BeginAttempt, Frame
  <2>3. QED
    BY <1>t, <1>n, <1>2, <2>1, <2>2 DEF Thought, Frame, UnchangedByFrame, Positions
<1>3. CASE ToolCall
  <2>1. upstream'.tokens = upstream.tokens /\ upstream'.closed = TRUE
    BY <1>t, <1>3, UpstreamStep DEF Token, Thought, ToolCall, BeginAttempt, Frame
  <2>2. state'.reasoning = state.reasoning /\ state'.text = state.text
    BY <1>t, <1>3, BufferStep DEF Token, Thought, ToolCall, BeginAttempt, Frame
  <2>3. QED
    BY <1>t, <1>3, <2>1, <2>2 DEF ToolCall, Frame, UnchangedByFrame, Positions
<1>4. CASE BeginAttempt
  <2> DEFINE t == NextTail(prefix)
  <2>1. upstream' = Behind(t) /\ pc = "readying" /\ mode = "resumable" /\ mode' = mode
    BY <1>4 DEF BeginAttempt
  <2>2. t.text = state.text
    <3>1. t.text \in {<< >>, state.text}
      BY <1>t, Tails
    <3>2. CASE forceNext
      BY <1>t, <3>1, <3>2 DEF Interrupts
    <3>3. CASE ~forceNext /\ (prefix # None \/ preemptions # 0)
      BY <1>t, <3>3, Tails
    <3>4. CASE ~forceNext /\ prefix = None /\ preemptions = 0
      BY <1>t, <2>1, <3>1, <3>4 DEF Positions
    <3>5. QED
      BY <3>2, <3>3, <3>4
  <2>3. state'.text = state.text /\ (NoTail(t) => state'.reasoning = << >>)
    BY <1>4, <1>n, <1>t, ReasoningSet DEF BeginAttempt, TypeOK
  <2> HIDE DEF t
  <2>4. /\ upstream'.tokens = Len(t.text) /\ upstream'.thoughts = 0
        /\ upstream'.closed = ~NoTail(t)
    BY <2>1 DEF Behind
  <2>5. pc' \in {"headers", "over", "yielding"}
    BY <1>4 DEF BeginAttempt, Begins, Stopped, Preempted, Opens, Over
  <2>6. ~upstream'.closed => NoTail(t)
    BY <2>4
  <2>7. QED
    BY <2>1, <2>2, <2>3, <2>4, <2>5, <2>6 DEF Positions
<1>5. CASE UNCHANGED <<upstream, state>> /\ ~BeginAttempt
  <2>1. CASE Granted
    BY <1>t, <1>5, <2>1 DEF Granted, Handler, Interrupts, Positions
  <2>2. CASE NotReady \/ UpstreamEnds \/ UpstreamFails
    BY <1>t, <1>n, <1>5, <2>2
       DEF NotReady, UpstreamEnds, UpstreamFails, Preempted, Over, Positions
  <2>3. CASE Fetch
    BY <1>t, <1>n, <1>5, <2>3 DEF Fetch, Opens, Over, Positions
  <2>4. CASE Headers \/ Sweep
    BY <1>t, <1>5, <2>4 DEF Headers, Sweep, Positions
  <2>5. CASE AttemptAborted
    BY <1>t, <1>n, <1>5, <2>5 DEF AttemptAborted, Stopped, Preempted, Over, Positions, Handler
  <2>6. CASE FetchAborted
    BY <1>5, <2>6 DEF FetchAborted, Stopped, Over, Positions
  <2>7. CASE Preempt \/ ForceAnswer
    BY <1>t, <1>5, <2>7 DEF Preempt, ForceAnswer, AbortedIf, Positions
  <2>8. ASSUME NEW h \in {"finish", "cancel"}, Stop(h) PROVE Positions'
    BY <1>t, <1>5, <2>8 DEF Stop, AbortedIf, Positions
  <2>9. CASE ClientLeaves
    BY <1>t, <1>5, <2>9 DEF ClientLeaves, AbortedIf, Over, Positions
  <2>10. CASE UNCHANGED vars
    BY <1>t, <2>10 DEF vars, Positions
  <2>11. CASE Thought \/ Token \/ ToolCall
    BY <1>1, <1>2, <1>3, <2>11
  <2>12. QED
    BY <1>5, <2>1, <2>2, <2>3, <2>4, <2>5, <2>6, <2>7, <2>8, <2>9, <2>10, <2>11 DEF Next
<1>6. Thought \/ Token \/ ToolCall \/ BeginAttempt \/ UNCHANGED <<upstream, state>>
  BY DEF Next, vars, Granted, NotReady, Fetch, Headers, UpstreamEnds, UpstreamFails,
     AttemptAborted, FetchAborted, Preempt, ForceAnswer, Stop, ClientLeaves, Sweep
<1>7. QED
  BY <1>1, <1>2, <1>3, <1>4, <1>5, <1>6

LEMMA SeamlessStep ==
  ASSUME IInv, [Next]_vars
  PROVE  AnswerIsSeamless'
<1>t. TypeOK /\ Positions /\ AnswerIsSeamless
  BY DEF IInv
<1>n. /\ state.text \in Seq(Nat) /\ state.reasoning \in Seq(Nat)
      /\ upstream.tokens \in Nat /\ upstream.thoughts \in Nat
  BY <1>t DEF TypeOK, Buffers, Upstreams
<1>s. state.text = UpTo(Len(state.text)) /\ state.reasoning = UpTo(Len(state.reasoning))
  BY <1>t DEF AnswerIsSeamless
<1>1. CASE Token
  <2>1. state'.text = Append(state.text, upstream.tokens + 1)
        /\ state'.reasoning = state.reasoning
    BY <1>t, <1>1, BufferStep DEF Token, Thought, ToolCall, BeginAttempt, Frame
  <2>2. upstream.tokens = Len(state.text)
    BY <1>t, <1>1 DEF Token, Frame, Positions
  <2>3. state'.text = UpTo(Len(state'.text))
    BY <1>n, <1>s, <2>1, <2>2, SeamlessAppend
  <2>4. QED
    BY <1>s, <2>1, <2>3 DEF AnswerIsSeamless
<1>2. CASE Thought
  <2>1. state'.reasoning = Append(state.reasoning, upstream.thoughts + 1)
        /\ state'.text = state.text
    BY <1>t, <1>2, BufferStep DEF Token, Thought, ToolCall, BeginAttempt, Frame
  <2>2. upstream.thoughts = Len(state.reasoning)
    BY <1>t, <1>2 DEF Thought, Frame, Positions
  <2>3. state'.reasoning = UpTo(Len(state'.reasoning))
    BY <1>n, <1>s, <2>1, <2>2, SeamlessAppend
  <2>4. QED
    BY <1>s, <2>1, <2>3 DEF AnswerIsSeamless
<1>3. CASE ~Token /\ ~Thought
  <2>1. state'.text = state.text /\ state'.reasoning \in {<< >>, state.reasoning}
    BY <1>t, <1>3, BufferStep
  <2>2. << >> = UpTo(Len(<< >>))
    BY DEF UpTo
  <2>3. QED
    BY <1>s, <2>1, <2>2 DEF AnswerIsSeamless
<1>4. QED
  BY <1>1, <1>2, <1>3

LEMMA CallsStep ==
  ASSUME IInv, [Next]_vars
  PROVE  Calls'
<1> USE DEF loopVars
<1>t. TypeOK /\ Handler /\ Interrupts /\ Calls /\ ToolCallsAreWhole
  BY DEF IInv
<1>n. /\ state.call \in Seq(Nat) /\ upstream.pieces \in Nat
      /\ fetch \in {"none", "open", "aborted"}
      /\ pc \in {"queued", "readying", "headers", "body", "yielding", "over"}
  BY <1>t DEF TypeOK, Buffers, Upstreams
<1>1. CASE Thought \/ Token
  <2>1. upstream'.pieces = upstream.pieces /\ state'.call = state.call
    <3>1. ~BeginAttempt /\ ~ToolCall
      BY <1>t, <1>1 DEF Token, Thought, ToolCall, BeginAttempt, Frame, Handler, Buffers,
         Upstreams, TypeOK
    <3>2. upstream'.pieces = upstream.pieces
      BY <1>t, <3>1, UpstreamStep
    <3>3. state'.call = state.call
      BY <1>t, <3>1, BufferStep
    <3>4. QED
      BY <3>2, <3>3
  <2>2. QED
    BY <1>t, <1>1, <2>1 DEF Thought, Token, Frame, UnchangedByFrame, Calls
<1>2. CASE ToolCall
  <2>1. upstream'.pieces = upstream.pieces + 1
    BY <1>t, <1>2, UpstreamStep DEF Token, Thought, ToolCall, BeginAttempt, Frame
  <2>2. state'.call = Append(state.call, upstream.pieces + 1)
    BY <1>t, <1>2, BufferStep DEF Token, Thought, ToolCall, BeginAttempt, Frame
  <2>3. QED
    BY <1>t, <1>n, <1>2, <2>1, <2>2 DEF ToolCall, Frame, UnchangedByFrame, Calls
<1>3. CASE BeginAttempt
  <2>1. upstream'.pieces = 0
    <3>1. PICK t \in {NextTail(prefix)} : upstream' = Behind(t)
      BY <1>3 DEF BeginAttempt
    <3>2. QED
      BY <3>1 DEF Behind
  <2>2. state'.call = state.call
    BY <1>n, <1>t, <1>3, ReasoningSet DEF BeginAttempt, TypeOK
  <2>3. pc = "readying" /\ mode = "resumable" /\ UNCHANGED <<mode, torn>>
    BY <1>3 DEF BeginAttempt
  <2>4. torn \/ state.call = << >>
    BY <1>t, <2>3 DEF Calls
  <2>5. QED
    BY <2>1, <2>2, <2>3, <2>4 DEF Calls
<1>4. CASE UNCHANGED <<upstream, state>> /\ ~BeginAttempt
  <2>1. CASE Granted
    BY <1>t, <1>4, <2>1 DEF Granted, Handler, Interrupts, Calls
  <2>2. CASE NotReady \/ UpstreamEnds
    BY <1>4, <2>2 DEF NotReady, UpstreamEnds, Over, Calls
  <2>3. CASE UpstreamFails
    BY <1>t, <1>n, <1>4, <2>3 DEF UpstreamFails, Preempted, Over, Calls
  <2>4. CASE Fetch
    BY <1>t, <1>n, <1>4, <2>4 DEF Fetch, Opens, Over, Calls
  <2>5. CASE Headers \/ Sweep
    BY <1>t, <1>4, <2>5 DEF Headers, Sweep, Calls
  <2>6. CASE AttemptAborted
    <3>1. stops # {} \/ state.call = << >>
      BY <1>t, <2>6 DEF AttemptAborted, ToolCallsAreWhole, InTool
    <3>2. QED
      BY <1>t, <1>n, <1>4, <2>6, <3>1 DEF AttemptAborted, Stopped, Preempted, Over, Calls
  <2>7. CASE FetchAborted
    BY <1>4, <2>7 DEF FetchAborted, Stopped, Over, Calls
  <2>8. CASE Preempt \/ ForceAnswer
    BY <1>t, <1>4, <2>8 DEF Preempt, ForceAnswer, AbortedIf, Calls
  <2>9. ASSUME NEW h \in {"finish", "cancel"}, Stop(h) PROVE Calls'
    BY <1>t, <1>4, <2>9 DEF Stop, AbortedIf, Calls
  <2>10. CASE ClientLeaves
    BY <1>t, <1>4, <2>10 DEF ClientLeaves, AbortedIf, Over, Calls
  <2>11. CASE UNCHANGED vars
    BY <1>t, <2>11 DEF vars, Calls
  <2>12. CASE Thought \/ Token \/ ToolCall
    BY <1>1, <1>2, <2>12
  <2>13. QED
    BY <1>4, <2>1, <2>2, <2>3, <2>4, <2>5, <2>6, <2>7, <2>8, <2>9, <2>10, <2>11, <2>12
       DEF Next
<1>5. Thought \/ Token \/ ToolCall \/ BeginAttempt \/ UNCHANGED <<upstream, state>>
  BY DEF Next, vars, Granted, NotReady, Fetch, Headers, UpstreamEnds, UpstreamFails,
     AttemptAborted, FetchAborted, Preempt, ForceAnswer, Stop, ClientLeaves, Sweep
<1>6. QED
  BY <1>1, <1>2, <1>3, <1>4, <1>5

LEMMA ToolCallsStep ==
  ASSUME IInv, [Next]_vars
  PROVE  ToolCallsAreWhole'
<1> USE DEF loopVars
<1> DEFINE Uncut == InTool /\ fetch = "aborted" => stops # {}
           Gapless == torn \/ state.call = UpTo(Len(state.call))
<1>t. TypeOK /\ Phases /\ Calls /\ Uncut /\ Gapless
  BY DEF IInv, ToolCallsAreWhole
<1>1. Uncut'
  <2>1. CASE fetch' # "aborted"
    BY <2>1
  <2>2. CASE Preempt \/ ForceAnswer
    BY <1>t, <2>2 DEF Preempt, ForceAnswer, AbortedIf, Phases, InTool
  <2>3. ASSUME NEW h, Stop(h) PROVE Uncut'
    BY <2>3 DEF Stop
  <2>4. CASE ClientLeaves
    BY <2>4 DEF ClientLeaves
  <2>5. CASE UNCHANGED vars
    BY <1>t, <2>5 DEF vars, InTool
  <2>6. CASE Sweep \/ Granted
    BY <1>t, <2>6 DEF Sweep, Granted, InTool
  <2>7. CASE \/ NotReady \/ BeginAttempt \/ Fetch \/ Headers \/ Thought \/ Token \/ ToolCall
             \/ UpstreamEnds \/ UpstreamFails \/ AttemptAborted \/ FetchAborted
    <3>1. fetch' # "aborted"
      BY <2>7 DEF NotReady, BeginAttempt, Begins, Fetch, Headers, Thought, Token, ToolCall,
         Frame, UnchangedByFrame, UpstreamEnds, UpstreamFails, AttemptAborted, FetchAborted,
         Stopped, Preempted, Opens, Over
    <3>2. QED
      BY <2>1, <3>1
  <2>8. QED
    BY <2>2, <2>3, <2>4, <2>5, <2>6, <2>7 DEF Next
<1>2. Gapless'
  <2>1. torn => torn'
    BY DEF Next, vars, Granted, NotReady, BeginAttempt, Fetch, Headers, Thought, Token,
       ToolCall, UnchangedByFrame, UpstreamEnds, UpstreamFails, AttemptAborted, FetchAborted,
       Preempt, ForceAnswer, Stop, ClientLeaves, Sweep
  <2>2. CASE ToolCall
    <3>1. state'.call = Append(state.call, upstream.pieces + 1)
      BY <1>t, <2>2, BufferStep DEF Token, Thought, ToolCall, BeginAttempt, Frame
    <3>2. torn \/ upstream.pieces = Len(state.call)
      BY <1>t, <2>2 DEF ToolCall, Frame, Calls
    <3>3. state.call \in Seq(Nat) /\ upstream.pieces \in Nat
      BY <1>t DEF TypeOK, Buffers, Upstreams
    <3>4. CASE ~torn
      <4>1. state'.call = UpTo(Len(state'.call))
        BY <1>t, <3>1, <3>2, <3>3, <3>4, SeamlessAppend
      <4>2. QED
        BY <4>1
    <3>5. QED
      BY <2>1, <3>4
  <2>3. CASE ~ToolCall
    <3>1. state'.call = state.call
      BY <1>t, <2>3, BufferStep
    <3>2. QED
      BY <1>t, <2>1, <3>1
  <2>4. QED
    BY <2>2, <2>3
<1>3. QED
  BY <1>1, <1>2 DEF ToolCallsAreWhole

-----------------------------------------------------------------------------
LEMMA StepIInv == IInv /\ [Next]_vars => IInv'
  BY TypeStep, HandlerStep, InterruptsStep, PhasesStep, PositionsStep, CallsStep,
     SeamlessStep, ToolCallsStep DEF IInv

(* The invariant of one request: its handler, lease, entry and fetch agree, *)
(* and the upstream stands where the buffer ends, unless it was torn.      *)
THEOREM ForwardingInvariant == Spec => []IInv
  BY InitIInv, StepIInv, PTL DEF Spec

(* Types are kept, and the resume loop ends after maxAttempts preemptions, *)
(* whatever bound is chosen.                                               *)
THEOREM TypeCorrect == Spec => []TypeOK
<1>1. IInv => TypeOK
  BY DEF IInv
<1>2. QED
  BY ForwardingInvariant, <1>1, PTL

(* The resume loop: however preemptions and forced answers are mixed, the  *)
(* text and the thoughts have no gap and no repetition.                    *)
THEOREM SeamlessAnswer == Spec => []AnswerIsSeamless
<1>1. IInv => AnswerIsSeamless
  BY DEF IInv
<1>2. QED
  BY ForwardingInvariant, <1>1, PTL

(* Every way of answering: what generates unstopped holds its lease and    *)
(* has its entry.                                                          *)
THEOREM GenerationUnderLease == Spec => []GeneratesUnderLease
<1>1. IInv => GeneratesUnderLease
  BY DEF IInv, Handler, GeneratesUnderLease
<1>2. QED
  BY ForwardingInvariant, <1>1, PTL

(* The deferral of preemptions: only the operator and the client abort an  *)
(* attempt that has begun a tool call, and the pieces of the call are what *)
(* one upstream sent, in order, unless an upstream broke off while a       *)
(* preemption waited for its call (torn).                                  *)
THEOREM WholeToolCalls == Spec => []ToolCallsAreWhole
<1>1. IInv => ToolCallsAreWhole
  BY DEF IInv
<1>2. QED
  BY ForwardingInvariant, <1>1, PTL
=============================================================================
