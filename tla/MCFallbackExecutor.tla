------------------------- MODULE MCFallbackExecutor -------------------------
(* FallbackExecutor for TLC: a registry of five routes and six requests.   *)
(* Route 1 offers everything; route 2 is as good and ranked before it;     *)
(* route 3 ties with route 1; route 4 is the best ranked but its profile   *)
(* is unknown; route 5 lacks the sum of the contexts the requests need.    *)
(* Route 3 does not know the keyword that the schemas use deepest.         *)
EXTENDS FallbackExecutor

MCRoutes == 1..5
MCPriority == [r \in MCRoutes |-> <<2, 1, 2, 0, 1>>[r]]

Full == [status |-> "verified", tools |-> {"search", "edit"},
         inputs |-> {"text", "image"}, outputs |-> {"text"},
         modes |-> {"text", "json", "strict"}, dialects |-> {"2020-12"},
         keywords |-> {"$schema", "properties", "items", "default", "format"},
         maxInput |-> 3, maxOutput |-> 2,
         maxTotal |-> Unlimited, streams |-> {"complete", "stream"},
         experimental |-> {"reasoning"}, maturity |-> "stable"]

MCProfile == [r \in MCRoutes |->
    CASE r = 4 -> [Full EXCEPT !.status = "unknown"]
      [] r = 5 -> [Full EXCEPT !.maxTotal = 4]
      [] r = 3 -> [Full EXCEPT !.keywords = @ \ {"format"}, !.modes = {"text", "json"},
                               !.experimental = {}]
      [] OTHER -> Full]

Plain == [tools |-> {}, inputs |-> {"text"}, outputs |-> {"text"},
          schema |-> [mode |-> "text", dialects |-> {}, keywords |-> {}],
          toolSchemas |-> {}, minInput |-> 2, minOutput |-> 2,
          stream |-> "complete", experimental |-> {}, maturities |-> {"stable"},
          answer |-> {}, arguments |-> [t \in {} |-> <<>>]]

(* A property called "not" that is a list of dates, with a default that *)
(* looks like a schema.                                                    *)
Dates ==
    [dialect |-> "2020-12",
     value |-> [p \in { <<>>, <<"$schema">>, <<"properties">>,
                        <<"properties", "not">>,
                        <<"properties", "not", "items">>,
                        <<"properties", "not", "items", "0">>,
                        <<"properties", "not", "items", "0", "format">>,
                        <<"default">>, <<"default", "not">>,
                        <<"default", "not", "pattern">> }
                |-> IF p = <<>> THEN "object"
                    ELSE CASE p[Len(p)] \in {"$schema", "format", "pattern"} -> "data"
                           [] p[Len(p)] = "items" -> "array"
                           [] OTHER -> "object"]]

Shallow == [mode |-> "json", dialects |-> {"2020-12"},
            keywords |-> {"$schema", "properties", "items", "default"}]
Deep == [Shallow EXCEPT !.keywords = @ \cup {"format"}]

MCRequests == {
    Plain,
    [Plain EXCEPT !.minInput = 3],
    [Plain EXCEPT !.tools = {"search"}, !.toolSchemas = {Deep},
                  !.arguments = [t \in {"search"} |-> Dates],
                  !.inputs = {"text", "image"}, !.minInput = 3],
    [Plain EXCEPT !.answer = {Dates}, !.schema = Deep],
    [Plain EXCEPT !.answer = {Dates}, !.schema = Shallow],
    [Plain EXCEPT !.stream = "stream"] }
=============================================================================
