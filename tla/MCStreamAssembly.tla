-------------------------- MODULE MCStreamAssembly --------------------------
(* Events for StreamAssembly: a start with and without the optional ids,    *)
(* text for one output and a tool call for another, with their completions, *)
(* and each of them also wrong in one way.                                  *)
EXTENDS StreamAssembly

CONSTANTS p, q, r1, r2, x, c1, c2, f, g, u, a, s1

MCRequests == [request_id : {r1}, schema : {None, s1}]
MCValidated == {[type |-> "structured", text |-> <<a>>, schema |-> s1]}

Starts == [kind : {"started"}, in_order : {TRUE}, provider : {p},
           request_id : {r1, r2}, response_id : {None, x}, model : {None}]
Lines == [kind : {"text"}, in_order : {TRUE}, provider : {p}, index : {0},
          letter : {a, Blank}]
Calls == [kind : {"tool"}, in_order : {TRUE}, provider : {p}, index : {1},
          letter : {a}, call_id : {None, c2}, name : {f}]
    \cup [kind : {"tool"}, in_order : {TRUE}, provider : {p}, index : {0},
          letter : {a}, call_id : {None}, name : {g}]
    \cup [kind : {"tool"}, in_order : {TRUE}, provider : {p}, index : {1},
          letter : {Blank}, call_id : {None}, name : {g}]
    \cup [kind : {"tool"}, in_order : {TRUE}, provider : {p}, index : {1},
          letter : {Blank}, call_id : {c1}, name : {f}]

TextOut == [type |-> "text", text |-> <<a>>]
CallOut(id) == [type |-> "tool", call_id |-> id, name |-> f, text |-> <<a>>]
LostOut == [CallOut(c1) EXCEPT !.text = None]
Refusal == [type |-> "refusal"]

Completed == [kind : {"completed"}, in_order : {TRUE}, provider : {p},
              index : {0}, output : {TextOut, Refusal} \cup MCValidated, payload : {None}]
    \cup [kind : {"completed"}, in_order : {TRUE}, provider : {p}, index : {1},
          output : {CallOut(c1), CallOut(None), LostOut, TextOut}, payload : {None}]
    \cup [kind : {"completed"}, in_order : {TRUE}, provider : {p}, index : {0},
          output : {TextOut}, payload : {q}]

Others == [kind : {"usage"}, in_order : {TRUE}, provider : {p}, usage : {u},
           payload : {None, q}]
    \cup [kind : {"unknown"}, in_order : {TRUE}, provider : {p, q}]
    \cup [kind : {"unknown"}, in_order : {FALSE}, provider : {p}]

Answer(kind, outs) ==
    [request_id |-> r1, response_id |-> x, model |-> None, provider |-> p,
     outcome |-> kind, outputs |-> outs, usage |-> u]
Right == {Answer("completed", <<TextOut>>), Answer("incomplete", <<>>),
          Answer("tool_requested", <<TextOut, CallOut(c1)>>),
          Answer("refused", <<Refusal>>)}
    \cup {Answer("completed", <<out>>) : out \in MCValidated}
Wrong == {[Answer("completed", <<TextOut>>) EXCEPT !.usage = None],
          [Answer("completed", <<TextOut>>) EXCEPT !.response_id = c1],
          [Answer("completed", <<TextOut>>) EXCEPT !.request_id = r2],
          [Answer("completed", <<TextOut>>) EXCEPT !.provider = q]}
Ends == [kind : {"terminal"}, in_order : {TRUE}, provider : {p},
         response : Right \cup Wrong]

MCEvents == Starts \cup Lines \cup Calls \cup Completed \cup Others \cup Ends
=============================================================================
