---------------------------- MODULE TokenEstimate ----------------------------
(* tokens.py: the size of a request in tokens, from its JSON body.  A text is *)
(* its number of characters.                                                  *)
EXTENDS RawValues, Sequences, Functions

\* A body: [is |-> "unreadable"] for bytes json.loads refuses as JSON; "nested"
\* for those it gives up on by a RecursionError, and "overlong" by the plain
\* ValueError of an integer with more digits than int() takes; "value" for JSON
\* that is no object; "recoded" for an object in UTF-16, UTF-32 or behind a BOM,
\* which json.loads takes as bytes but not as text; else an object, with None
\* for a key that is absent.
Readable(body) == body.is = "object"

TextPart == [text : BOOLEAN, length : Nat]

Content == [is : {"text"}, length : Nat] \cup [is : {"parts"}, parts : Seq(TextPart)]
      \cup [is : {"other"}]

\* What the values of the keys read here may be.
IsBody(body) ==
  /\ body.is \in {"unreadable", "nested", "overlong", "value", "recoded", "object"}
  /\ body.is = "recoded" => body.stream \in BOOLEAN
  /\ Readable(body) =>
       /\ body.messages # None /\ body.messages.is = "list" => body.messages.items \in Seq(Content)
       /\ body.prompt # None /\ body.prompt.is = "text" => body.prompt.length \in Nat
       /\ body.prompt # None /\ body.prompt.is = "list" => body.prompt.pieces \in Seq(Nat \cup {None})
       /\ body.max_completion_tokens # None => body.max_completion_tokens \in Raw
       /\ body.max_tokens # None => body.max_tokens \in Raw
       /\ body.stream \in BOOLEAN

\* The text of one message: a string, or the text parts of a list.
ContentChars(content) ==
  CASE content.is = "text"  -> content.length
    [] content.is = "parts" -> SumFunction([i \in DOMAIN content.parts |->
                                 IF content.parts[i].text THEN content.parts[i].length ELSE 0])
    [] content.is = "other" -> 0

\* messages, and a prompt only where they are absent; None if it is not a prompt
\* the gate can read.
PromptChars(body) ==
  CASE body.messages # None ->
         IF body.messages.is = "list"
         THEN SumFunction([i \in DOMAIN body.messages.items |-> ContentChars(body.messages.items[i])])
         ELSE None
    [] body.messages = None /\ body.prompt # None ->
         IF body.prompt.is = "text" THEN body.prompt.length
         ELSE IF body.prompt.is = "list" /\ None \notin Range(body.prompt.pieces)
         THEN SumFunction(body.prompt.pieces)
         ELSE None
    [] OTHER -> None

Limits(raw) == raw # None /\ IsInt(raw) /\ raw.value > 0

\* The room for the completion.
Headroom(body, default_max_tokens) ==
  IF Limits(body.max_completion_tokens) THEN body.max_completion_tokens.value
  ELSE IF Limits(body.max_tokens) THEN body.max_tokens.value
  ELSE default_max_tokens

\* Mutant of Tokens: the division rounds down.
TokensFloor(chars, chars_per_token) == chars \div chars_per_token

Tokens(chars, chars_per_token) == -((-chars) \div chars_per_token)

EstimateContextTokens(body, chars_per_token, default_max_tokens) ==
  IF ~Readable(body) \/ PromptChars(body) = None THEN None
  ELSE Tokens(PromptChars(body), chars_per_token) + Headroom(body, default_max_tokens)

\* The model, where it is a text that is not blank.
RequestModel(body) == IF Readable(body) /\ body.model # None THEN body.model ELSE "unknown"

\* app.py's own reading of the same bytes, which it does not decode first.
IsStreaming(body) == body.is \in {"object", "recoded"} /\ body.stream

\* What json.loads raises and its caller does not catch: in tokens.py a
\* ValueError that is no JSONDecodeError, in app.py a RecursionError.
EscapesTokens(body) == body.is = "overlong"

EscapesStreaming(body) == body.is = "nested"
=============================================================================
