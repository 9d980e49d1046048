----------------------------- MODULE GateInputs ------------------------------
(* Everything a gate reads from outside: its configuration at the start, then *)
(* the metrics of the backends it is configured with, and the bodies of the   *)
(* requests it routes (the first lines of app.py's _handle_generation).       *)
EXTENDS ConfigLoad, Exposition, TokenEstimate

CONSTANT Requests     \* the bodies a client may send

ASSUME RequestsAssumption ==
  \A body \in Requests :
    IsBody(body) /\ (Readable(body) => body.model \in Models \cup {None})

VARIABLES
  request,       \* the last request body, None before the first
  model,         \* what the handler has read in it, None if it has not
  ctx_tokens,
  is_stream,
  raised         \* an exception has left the handler

requestVars == <<request, model, ctx_tokens, is_stream, raised>>
vars == <<loadVars, expositionVars, requestVars>>

TypeOK ==
  /\ stage \in {"defaults", "merged", "overridden", "accepted", "refused"}
  /\ ExpositionTypeOK
  /\ request \in Requests \cup {None}
  /\ model \in Models \cup {"unknown", None}
  /\ ctx_tokens \in Nat \cup {None}
  /\ is_stream \in BOOLEAN \cup {None}
  /\ raised \in BOOLEAN

Init ==
  /\ LoadInit
  /\ ExpositionInit
  /\ request = None
  /\ model = None
  /\ ctx_tokens = None
  /\ is_stream = None
  /\ raised = FALSE

Loads == LoadNext /\ UNCHANGED <<expositionVars, requestVars>>

PollsBackend ==
  /\ stage = "accepted"
  /\ \E b \in BackendNames(data) : Polls(b)
  /\ UNCHANGED <<loadVars, requestVars>>

Exposes ==
  /\ stage = "accepted"
  /\ Scrapes
  /\ UNCHANGED <<loadVars, requestVars>>

\* The body is parsed three times: an overlong number raises in the first parse,
\* for the model, and deep nesting in the last, for `stream`.
Reads(body) ==
  /\ stage = "accepted"
  /\ request' = body
  /\ raised' = (EscapesTokens(body) \/ EscapesStreaming(body))
  /\ model' = IF EscapesTokens(body) THEN None ELSE RequestModel(body)
  /\ ctx_tokens' =
       IF EscapesTokens(body) THEN None
       ELSE EstimateContextTokens(body, data.knobs["chars_per_token"],
                                  data.knobs["default_max_tokens"])
  /\ is_stream' = IF raised' THEN None ELSE IsStreaming(body)
  /\ UNCHANGED <<loadVars, expositionVars>>

Next == Loads \/ PollsBackend \/ Exposes \/ \E body \in Requests : Reads(body)

Spec == Init /\ [][Next]_vars

-----------------------------------------------------------------------------
(* Properties.                                                                *)

\* Every text of a readable request, with its place.
Texts(body) ==
  IF body.messages # None
  THEN LET items == body.messages.items
           whole == {i \in DOMAIN items : items[i].is = "text"}
           cut   == {i \in DOMAIN items : items[i].is = "parts"}
       IN  {<<i, 0, items[i].length>> : i \in whole}
             \cup UNION {{<<i, j, items[i].parts[j].length>> :
                            j \in {j \in DOMAIN items[i].parts : items[i].parts[j].text}} : i \in cut}
  ELSE IF body.prompt.is = "text" THEN {<<1, 0, body.prompt.length>>}
  ELSE {<<i, 0, body.prompt.pieces[i]>> : i \in DOMAIN body.prompt.pieces}

\* An estimate has room for all the text and the completion, and for not one
\* token more, however the text is cut into messages and parts and whatever
\* configuration was accepted (tokens.py:17-20, 100-128, config.py:555-558).
EstimateCovers ==
  ctx_tokens # None =>
    LET chars_per_token == data.knobs["chars_per_token"]
        text == SumFunction([t \in Texts(request) |-> t[3]])
        room == ctx_tokens - Headroom(request, data.knobs["default_max_tokens"])
    IN  /\ room * chars_per_token >= text
        /\ room > 0 => (room - 1) * chars_per_token < text

\* A body the gate cannot parse, deeply nested JSON among them, is forwarded for
\* the backend to answer (tokens.py:22-26 and 134, app.py:336-345).
UnreadableIsForwarded == ~raised
=============================================================================
