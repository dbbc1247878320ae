---------------------------- MODULE Capabilities ----------------------------
(***************************************************************************)
(* Which model routes may serve a request (capabilities.py of the          *)
(* capability-fallback lesson).  A profile says what a route has been      *)
(* verified to offer, a requirement what one request needs; the router     *)
(* ranks a route only if the comparison finds no gap.                      *)
(***************************************************************************)
EXTENDS Naturals

CONSTANT Unlimited  \* a profile without max_total_tokens

(* SchemaRequirements, at most two of which a request carries: one for the *)
(* answer and, when it declares tools, one for their arguments.            *)
Schemas(req) == {req.schema} \cup req.toolSchemas

ValidSchema(s) ==
    IF s.mode = "text"
    THEN s.dialects = {} /\ s.keywords = {}
    ELSE \E d \in s.dialects : s.dialects = {d}

ValidRequirements(req) ==
    /\ ValidSchema(req.schema)
    /\ \A s \in req.toolSchemas : ValidSchema(s) /\ s.mode # "text"
    /\ req.tools = {} <=> req.toolSchemas = {}
    /\ req.inputs # {} /\ req.outputs # {} /\ req.maturities # {}
    /\ req.minInput \in Nat /\ req.minOutput \in Nat

(* check_compatibility: one entry per GapCode, true when there is a gap.   *)
GapOf(profile, req) ==
    [profile_unknown |-> profile.status = "unknown",
     missing_tools |-> ~(req.tools \subseteq profile.tools),
     input_modalities |-> ~(req.inputs \subseteq profile.inputs),
     output_modalities |-> ~(req.outputs \subseteq profile.outputs),
     schema_mode |-> \E s \in Schemas(req) : s.mode \notin profile.modes,
     schema_dialect |->
         \E s \in Schemas(req) : ~(s.dialects \subseteq profile.dialects),
     schema_keywords |->
         \E s \in Schemas(req) : ~(s.keywords \subseteq profile.keywords),
     input_context |-> req.minInput > profile.maxInput,
     output_context |-> req.minOutput > profile.maxOutput,
     total_context |-> /\ profile.maxTotal # Unlimited
                       /\ req.minInput + req.minOutput > profile.maxTotal,
     stream_mode |-> req.stream \notin profile.streams,
     experimental_features |-> ~(req.experimental \subseteq profile.experimental),
     maturity |-> profile.maturity \notin req.maturities]

Gaps(profile, req) ==
    { code \in DOMAIN GapOf(profile, req) : GapOf(profile, req)[code] }

CompatibleByParts(profile, req) ==  \* mutant: the context's sum is not compared
    Gaps(profile, req) \subseteq {"total_context"}

Compatible(profile, req) == Gaps(profile, req) = {}

----------------------------------------------------------------------------
(* The same question asked without the list of gaps: everything the        *)
(* request needs is something the profile offers, and both the parts and   *)
(* the whole of its context fit.                                           *)
Needs(req) ==
    {<<"status", "verified">>, <<"stream", req.stream>>}
    \cup { <<"tool", t>> : t \in req.tools }
    \cup { <<"input", m>> : m \in req.inputs }
    \cup { <<"output", m>> : m \in req.outputs }
    \cup { <<"feature", f>> : f \in req.experimental }
    \cup UNION { {<<"mode", s.mode>>} \cup { <<"dialect", d>> : d \in s.dialects }
                     \cup { <<"keyword", k>> : k \in s.keywords }
                 : s \in Schemas(req) }

Offers(profile) ==
    {<<"status", profile.status>>}
    \cup { <<"stream", m>> : m \in profile.streams }
    \cup { <<"tool", t>> : t \in profile.tools }
    \cup { <<"input", m>> : m \in profile.inputs }
    \cup { <<"output", m>> : m \in profile.outputs }
    \cup { <<"feature", f>> : f \in profile.experimental }
    \cup { <<"mode", m>> : m \in profile.modes }
    \cup { <<"dialect", d>> : d \in profile.dialects }
    \cup { <<"keyword", k>> : k \in profile.keywords }

Suits(profile, req) ==
    /\ Needs(req) \subseteq Offers(profile)
    /\ profile.maturity \in req.maturities
    /\ req.minInput <= profile.maxInput
    /\ req.minOutput <= profile.maxOutput
    /\ \/ profile.maxTotal = Unlimited
       \/ req.minInput + req.minOutput <= profile.maxTotal
=============================================================================
