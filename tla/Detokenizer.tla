------------------------------ MODULE Detokenizer ------------------------------
(***************************************************************************)
(* The detokenizer turns the tokens of a request into text, a piece for    *)
(* every message.  A token is a sequence of bytes and may end inside a     *)
(* character; the text of the tokens since the last complete one is        *)
(* guessed at, and guessed again when more is known.                       *)
(***************************************************************************)
EXTENDS Integers, Sequences, SequencesExt, FiniteSets, FiniteSetsExt, Functions

CONSTANTS
  Uids,
  Vocabulary,  \* tokens, as sequences of bytes
  Eos,         \* eos_token_id, one of them
  Batch,       \* bound on the messages of one call
  LongestText  \* bound on the tokens of all uids

VARIABLES
  decode_map,  \* uid -> DecodeStatus
  sent,        \* the text that a uid has got
  tokens,      \* the tokens that make up its text
  ended,       \* the uids whose last message was seen
  withdrawn    \* those for which a guess was followed by a shorter one

detokenizer_vars == <<decode_map, sent, tokens, ended, withdrawn>>

-----------------------------------------------------------------------------
(* tokenizer.decode.  Text is made of letters, blanks, newlines, "han", a    *)
(* CJK character, and "eta", one of another script, of two bytes each; what  *)
(* is not a character is replaced by "?".                                    *)
Characters == [han |-> <<"h1", "h2">>, eta |-> <<"e1", "e2">>]
Pairs == Range(Characters)
Single == {"a", " ", "\n", "eos"}

Decode(ids) ==
  LET b == FlattenSeq(ids)
      starts == SelectSeq([i \in 1..Len(b) |-> i], LAMBDA i : i = 1 \/ <<b[i - 1], b[i]>> \notin Pairs)
      char(i) == IF i < Len(b) /\ <<b[i], b[i + 1]>> \in Pairs
                 THEN CHOOSE c \in DOMAIN Characters : Characters[c] = <<b[i], b[i + 1]>>
                 ELSE IF b[i] \in Single THEN b[i] ELSE "?"
  IN [k \in 1..Len(starts) |-> char(starts[k])]

IsChineseChar(c) == c = "han"

(* rfind(" ") + 1 *)
UpToLastSpace(text) ==
  LET spaces == {i \in 1..Len(text) : text[i] = " "}
  IN IF spaces = {} THEN <<>> ELSE SubSeq(text, 1, CHOOSE i \in spaces : \A j \in spaces : j <= i)

FindPrintableText(text) ==
  IF text # <<>> /\ Last(text) = "\n" THEN text
  ELSE IF text # <<>> /\ IsChineseChar(Last(text)) THEN text
  ELSE IF Len(text) > 1 /\ IsChineseChar(text[Len(text) - 1]) THEN Front(text)
  ELSE UpToLastSpace(text)

-----------------------------------------------------------------------------
Fresh == [decoded_ids |-> <<>>, decoded_str |-> <<>>, read_offset |-> 0, surr_offset |-> 0, sent_offset |-> 0]
StatusOf(map, uid) == IF uid \in DOMAIN map THEN map[uid] ELSE Fresh

(* The body of the loop: r is what the messages before have come to, and the *)
(* ranges to decode are those of `ranges`.                                   *)
Apply(ranges, r, msg) ==
  LET uid == msg.uid
      s == StatusOf(r.map, uid)
      surr == StatusOf(ranges, uid).surr_offset
      read == StatusOf(ranges, uid).read_offset
      ids == IF msg.finished /\ msg.next_token = Eos THEN s.decoded_ids ELSE Append(s.decoded_ids, msg.next_token)
      read_str == Decode(SubSeq(ids, surr + 1, Len(ids)))
      surr_str == Decode(SubSeq(ids, surr + 1, read))
      new_text == SubSeq(read_str, Len(surr_str) + 1, Len(read_str))
      complete == new_text # <<>> /\ Last(new_text) # "?"
      output_str == s.decoded_str \o (IF complete THEN new_text ELSE FindPrintableText(new_text))
      status == [decoded_ids |-> ids,
                 decoded_str |-> IF complete THEN output_str ELSE s.decoded_str,
                 surr_offset |-> IF complete THEN read ELSE surr,
                 read_offset |-> IF complete THEN Len(ids) ELSE read,
                 sent_offset |-> Len(output_str)]
  IN [map |-> IF msg.finished THEN Restrict(r.map, DOMAIN r.map \ {uid})
              ELSE [u \in DOMAIN r.map \cup {uid} |-> IF u = uid THEN status ELSE r.map[u]],
      strs |-> Append(r.strs, SubSeq(output_str, s.sent_offset + 1, Len(output_str))),
      shorter |-> r.shorter \cup (IF Len(output_str) < s.sent_offset THEN {uid} ELSE {})]

Start(map) == [map |-> map, strs |-> <<>>, shorter |-> {}]

(* Mutant: the ranges of all messages are read before the first is applied.  *)
DetokenizedUpFront(map, msgs) ==
  FoldLeft(LAMBDA r, msg : Apply(map, r, msg), Start(map), msgs)

(* detokenize *)
Detokenized(map, msgs) ==
  FoldLeft(LAMBDA r, msg : Apply(r.map, r, msg), Start(map), msgs)

-----------------------------------------------------------------------------
DetokenizerIdle ==
  /\ decode_map = <<>>
  /\ sent = [u \in Uids |-> <<>>]
  /\ tokens = [u \in Uids |-> <<>>]
  /\ ended = {} /\ withdrawn = {}

(* What is left of the bound. *)
Room == LongestText - MapThenSumSet(LAMBDA u : Len(tokens[u]), Uids)

(* What the scheduler sends: no uid has a message after its last one, and a  *)
(* request whose tokens run out is finished by one that need not be eos.     *)
Calls ==
  {msgs \in UNION {[1..n -> [uid : Uids \ ended, next_token : Vocabulary, finished : BOOLEAN]] :
                     n \in {k \in 1..Batch : k <= Room}} :
     \A i, j \in 1..Len(msgs) : i < j /\ msgs[i].finished => msgs[j].uid # msgs[i].uid}

Detokenize ==
  \E msgs \in Calls :
     LET r == Detokenized(decode_map, msgs)
         mine(s, u) == FoldLeft(LAMBDA t, i : IF msgs[i].uid = u THEN t \o s[i] ELSE t,
                                <<>>, [i \in 1..Len(msgs) |-> i])
         kept == [i \in 1..Len(msgs) |->
                    IF msgs[i].finished /\ msgs[i].next_token = Eos THEN <<>> ELSE <<msgs[i].next_token>>]
     IN /\ decode_map' = r.map
        /\ sent' = [u \in Uids |-> sent[u] \o mine(r.strs, u)]
        /\ tokens' = [u \in Uids |-> tokens[u] \o mine(kept, u)]
        /\ ended' = ended \cup {msgs[i].uid : i \in {k \in 1..Len(msgs) : msgs[k].finished}}
        /\ withdrawn' = withdrawn \cup r.shorter

-----------------------------------------------------------------------------
(* However the tokens come in batches and wherever they cut characters: what *)
(* a uid has got is the beginning of the text its tokens make, and all of it *)
(* as soon as the text does not end inside a character; unless a guess was   *)
(* withdrawn, which takes a token with the end of a CJK character and the    *)
(* beginning of another one, see the README.                                 *)
TextExact ==
  \A u \in Uids \ withdrawn :
    LET text == Decode(tokens[u])
    IN /\ IsPrefix(sent[u], text)
       /\ text # <<>> /\ Last(text) # "?" => sent[u] = text
=============================================================================
