--------------------------- MODULE MCAnthropicStream ---------------------------
(* A small instance of AnthropicStream.                                    *)
EXTENDS AnthropicStream

Empty == [progress |-> None, usage |-> None, think |-> FALSE, call |-> None,
          next |-> None, text |-> FALSE, finish |-> None]
Call(i, args) == [tool |-> i, args |-> args]
Usage(prompt, cached) == [prompt |-> prompt, cached |-> cached, completion |-> 1]

MCPayloads ==
  {[Empty EXCEPT !.think = TRUE], [Empty EXCEPT !.text = TRUE],
   [Empty EXCEPT !.think = TRUE, !.text = TRUE],
   [Empty EXCEPT !.call = Call(0, FALSE)], [Empty EXCEPT !.call = Call(0, TRUE)],
   [Empty EXCEPT !.call = Call(0, TRUE), !.next = Call(1, TRUE), !.text = TRUE],
   [Empty EXCEPT !.finish = "stop"], [Empty EXCEPT !.finish = "length"],
   [Empty EXCEPT !.text = TRUE, !.finish = "tool_calls"],
   [Empty EXCEPT !.progress = [total |-> 2, cache |-> 1]],
   [Empty EXCEPT !.usage = Usage(2, None)], [Empty EXCEPT !.usage = Usage(1, 2)]}
=============================================================================
