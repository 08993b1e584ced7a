---------------------------- MODULE ResponseParser ----------------------------
(***************************************************************************)
(* ResponseAdapter: it turns what the response parser of the transformers  *)
(* library says of a reply, region by region, into the deltas of a         *)
(* streamed answer.  The parser itself is external; it may cut the text of *)
(* a region into chunks as it likes.  It is taken at the adapter's word:   *)
(* the whole message has no blanks in front of a closing region, and none  *)
(* in front of its content.                                                *)
(***************************************************************************)
EXTENDS Integers, Sequences, SequencesExt, FiniteSets

CONSTANTS
  Chunks,        \* texts a chunk may have: sequences of "a" and " "
  Replies        \* bound on the chunks and closings of a reply

ASSUME ParserAssumption == Chunks \subseteq Seq(STRING)

Fields == {"thinking", "content", "tool_calls"}
TextFields == {"thinking", "content"}

VARIABLES
  region,        \* the field whose region is open
  body,          \* its text so far
  message,       \* what the parser makes of the regions closed so far
  pending,       \* _pending
  first_content, \* _first_content
  broken,
  deltas,        \* the streamed text of a field, the index of each tool call
  reply_state,   \* "open" or "finalized"
  cuts           \* of the bound

parser_vars == <<region, body, message, pending, first_content, broken, deltas, reply_state, cuts>>

ParserIdle ==
  /\ region = "thinking" /\ body = <<>>
  /\ message = [f \in Fields |-> <<>>]
  /\ pending = [f \in TextFields |-> <<>>]
  /\ first_content = TRUE /\ broken = FALSE
  /\ deltas = [f \in Fields |-> <<>>]
  /\ reply_state = "open" /\ cuts = 0

-----------------------------------------------------------------------------
(* rstrip and lstrip. *)
Blank == " "
Printed(text) == {i \in 1..Len(text) : text[i] # Blank}
RStrip(text) ==
  IF Printed(text) = {} THEN <<>> ELSE SubSeq(text, 1, CHOOSE i \in Printed(text) : \A j \in Printed(text) : j <= i)
LStrip(text) ==
  IF Printed(text) = {} THEN <<>> ELSE SubSeq(text, CHOOSE i \in Printed(text) : \A j \in Printed(text) : i <= j, Len(text))

(* The message as the library has it, the regions of a field joined. *)
Closing(msg, field, text) ==
  CASE field = "tool_calls" -> [msg EXCEPT !.tool_calls = Append(@, Len(@))]
    [] field = "thinking" -> [msg EXCEPT !.thinking = @ \o RStrip(text)]
    [] field = "content" -> [msg EXCEPT !.content = LStrip(@ \o RStrip(text))]

-----------------------------------------------------------------------------
(* The adapter: [pending, first_content, deltas]. *)
Adapter == [pending |-> pending, first_content |-> first_content, deltas |-> deltas]

(* _take: blanks at the end wait for what follows. *)
Take(a, field, text) ==
  LET all == a.pending[field] \o text
      stripped == RStrip(all)
  IN [a EXCEPT !.pending[field] = SubSeq(all, Len(stripped) + 1, Len(all)),
               !.deltas[field] = @ \o stripped]

(* _chunk_delta *)
ChunkDelta(a, field, text) ==
  IF field \notin TextFields THEN a
  ELSE IF field = "content" /\ a.first_content
  THEN IF LStrip(text) = <<>> THEN a
       ELSE Take([a EXCEPT !.first_content = FALSE], field, LStrip(text))
  ELSE Take(a, field, text)

(* Mutant: what was withheld stays when its region closes. *)
ClosedKeeping(a, field) ==
  IF field = "tool_calls" THEN [a EXCEPT !.deltas.tool_calls = Append(@, Len(@))] ELSE a

(* A closing region: what was withheld never happened; _tool_call_delta.     *)
Closed(a, field) ==
  IF field = "tool_calls" THEN [a EXCEPT !.deltas.tool_calls = Append(@, Len(@))]
  ELSE [a EXCEPT !.pending[field] = <<>>]

Becomes(a) == pending' = a.pending /\ first_content' = a.first_content /\ deltas' = a.deltas

Cut == reply_state = "open" /\ cuts < Replies /\ cuts' = cuts + 1

-----------------------------------------------------------------------------
(* feed: the parser yields a chunk, or closes the region and opens another. *)
FeedChunk ==
  /\ Cut /\ ~ broken
  /\ \E text \in Chunks :
       /\ body' = body \o text
       /\ Becomes(ChunkDelta(Adapter, region, text))
  /\ UNCHANGED <<region, message, broken, reply_state>>

FeedClose ==
  /\ Cut /\ ~ broken
  /\ message' = Closing(message, region, body)
  /\ Becomes(Closed(Adapter, region))
  /\ region' \in Fields \ {region} /\ body' = <<>>
  /\ UNCHANGED <<broken, reply_state>>

(* The parser raises: from now on text is passed on as it comes, as content. *)
FeedRaw ==
  /\ Cut
  /\ \E text \in Chunks : deltas' = [deltas EXCEPT !.content = @ \o text]
  /\ broken' = TRUE
  /\ UNCHANGED <<region, body, message, pending, first_content, reply_state>>

(* finalize: what is withheld is dropped; then the parser gives out the text *)
(* that it held back itself, as it might have begun a marker, and the last   *)
(* region closes.  Of a parser that raises no message is left.               *)
Finalize ==
  /\ reply_state = "open"
  /\ reply_state' = "finalized"
  /\ LET cleared == [Adapter EXCEPT !.pending = [f \in TextFields |-> <<>>]]
     IN \/ \E text \in Chunks \cup {<<>>} :
             /\ body' = body \o text
             /\ message' = Closing(message, region, body \o text)
             /\ Becomes(Closed(ChunkDelta(cleared, region, text), region))
             /\ UNCHANGED broken
        \/ /\ message' = [f \in Fields |-> <<>>]
           /\ Becomes(cleared)
           /\ broken' = TRUE
           /\ UNCHANGED body
  /\ UNCHANGED <<region, cuts>>

ParserNext == FeedChunk \/ FeedClose \/ FeedRaw \/ Finalize

ParserSpec == ParserIdle /\ [][ParserNext]_parser_vars

-----------------------------------------------------------------------------
(* What was streamed of a text when the reply ends: the message to the last  *)
(* letter, but for the blanks that were withheld when the parser still had    *)
(* text to follow them.                                                       *)
WholeUpToFlush(f) ==
  LET rest == SubSeq(deltas'[f], Len(deltas[f]) + 1, Len(deltas'[f]))
  IN /\ deltas'[f] = deltas[f] \o rest
     /\ message'[f] = deltas[f] \o (IF rest = <<>> THEN <<>> ELSE pending[f]) \o rest

(* Wherever a reply that the parser does not fail on was cut into chunks, and *)
(* wherever it ends, every tool call was sent once and in order, and every    *)
(* text up to what is lost in that one place.                                 *)
StreamedToTheEnd ==
  [][reply_state' # reply_state /\ ~ broken' =>
       /\ deltas'["tool_calls"] = message'["tool_calls"]
       /\ \A f \in TextFields : WholeUpToFlush(f)]_parser_vars
=============================================================================
