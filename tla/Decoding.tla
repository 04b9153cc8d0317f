------------------------------ MODULE Decoding ------------------------------
(***************************************************************************)
(* What two of the entry scripts change about a request while it is being  *)
(* decoded, one request at a time.                                         *)
(*                                                                         *)
(* patch_suppress_stops_in_reasoning.py: the detokenizer gets the output   *)
(* in chunks of up to MaxChunk characters (a step with accepted drafts     *)
(* yields several tokens) and looks for a stop string, but not before the  *)
(* reasoning that the prompt opened is closed.  min_tokens is 0.           *)
(*                                                                         *)
(* patch_xgrammar_termination.py: the grammar of a structured request is   *)
(* advanced by the tokens of each step, and before it by the drafts, for   *)
(* the bitmasks, and then rolled back.  The matcher is xgrammar's own: a   *)
(* sequence of accepted tokens, over once the stop token is accepted, to   *)
(* which no token may be given then.  The steps around it are those of     *)
(* vllm's manager and scheduler (external), as the scripts use them.       *)
(*                                                                         *)
(* WindowFromOffset, AcceptUpstreamLast, AdvanceUnvalidated: mistaken      *)
(* variants (the last two the code before the patch); no action uses them. *)
(***************************************************************************)
EXTENDS Integers, FiniteSets, SequencesExt

CONSTANTS
  MaxChunk,     \* bound: characters, or drafts, of a step
  MaxText,      \* bound: characters of an output
  MaxContent    \* bound: the longest output of the grammar

VARIABLES
  request,      \* what is being decoded: "none", "text" or "structured"
  armed,        \* _reasoning_stop_guard
  closed,       \* _reasoning_closed
  text,         \* output_text
  stopped,      \* a stop string was found
  matcher,      \* the tokens the matcher has accepted
  isTerminated, \* _is_terminated
  processed,    \* num_processed_tokens
  inReasoning,  \* the reasoning of the structured request is still open
  drafts,       \* the drafts of the current step
  step,         \* the step is before or after its bitmasks
  complaints    \* what went wrong with the grammar, ever

textVars == <<armed, closed, text, stopped>>
grammarVars == <<matcher, isTerminated, processed>>
structuredVars == <<grammarVars, inReasoning, drafts, step, complaints>>
decodingVars == <<request, textVars, structuredVars>>

-----------------------------------------------------------------------------
(* Stop strings.  The marker and the stop string have two characters each. *)

Chars == {"<", ">", "q"}
Marker == <<"<", ">">>
StopString == <<"q", "q">>
UpTo(S, n) == UNION {[1..k -> S] : k \in 1..n}

\* Python's find: the positions from which `part` is found, counted from 0.
Found(string, part, from) ==
  {i \in from..(Len(string) - Len(part)) : SubSeq(string, i + 1, i + Len(part)) = part}
Find(string, part, from) ==
  LET all == Found(string, part, from) IN IF all = {} THEN -1 ELSE Min(all)

\* Where the search for the marker begins: a marker may have begun in an earlier chunk.
WindowFromOffset(offset) == offset
Window(offset) == Max({0, offset - (Len(Marker) - 1)})

\* The offset from which stops count: behind the marker, where the chunk has it.
OffsetBehind(offset, found) == Max({offset, found + Len(Marker)})

\* check_stop_strings: is a stop string completed behind the offset?
StopBehind(string, offset) ==
  Found(string, StopString, Max({0, offset + 1 - Len(StopString)})) # {}

\* The request with stop strings arrives; the guard is armed when the prompt ends
\* with the reasoning's start.
TextRequest(guard) ==
  /\ request = "none" /\ request' = "text"
  /\ armed' = guard /\ closed' = FALSE /\ text' = <<>> /\ stopped' = FALSE
  /\ UNCHANGED structuredVars

\* IncrementalDetokenizer.update.
Detokenize(chunk) ==
  LET output == text \o chunk
      offset == Len(text)
      found  == IF armed /\ ~ closed THEN Find(output, Marker, Window(offset)) ELSE -1
      behind == IF found # -1 THEN OffsetBehind(offset, found) ELSE offset IN
  /\ request = "text" /\ ~ stopped
  /\ Len(output) <= MaxText
  /\ text' = output
  /\ closed' = (closed \/ found # -1)
  /\ stopped' = ((~ armed \/ closed') /\ StopBehind(output, behind))
  /\ UNCHANGED <<request, armed, structuredVars>>

-----------------------------------------------------------------------------
(* Structured output.  "g" is content of the grammar, "E" its stop token,  *)
(* "b" neither, "/" the end of the reasoning.                              *)

Tokens == {"g", "E", "b", "/"}
Grammar == [matcher |-> matcher, isTerminated |-> isTerminated, processed |-> processed]
Fresh == [matcher |-> <<>>, isTerminated |-> FALSE, processed |-> 0]
SetGrammar(g) ==
  matcher' = g.matcher /\ isTerminated' = g.isTerminated /\ processed' = g.processed

\* xgrammar's matcher.
Over(m) == m # <<>> /\ Last(m) = "E"
Allows(m, t) == /\ ~ Over(m)
                /\ \/ t = "g" /\ Len(m) < MaxContent
                   \/ t = "E" /\ m # <<>>
Misfed(m) == IF Over(m) THEN {"given a token after termination"} ELSE {}

\* The length of the longest prefix the matcher would accept.
Accepted(m, tokens) ==
  Max({n \in 0..Len(tokens) : \A i \in 1..n : Allows(m \o SubSeq(tokens, 1, i - 1), tokens[i])})

\* accept_tokens, token by token: r is the grammar so far, whether the call goes on,
\* its result and its complaints.
AcceptOne(r, t) ==
  LET m == Append(r.g.matcher, t) IN
  IF ~ r.on THEN r
  ELSE IF ~ Allows(r.g.matcher, t)
    THEN [r EXCEPT !.on = FALSE, !.ok = FALSE, !.bad = @ \cup Misfed(r.g.matcher)]
    ELSE [r EXCEPT !.on = ~ Over(m),
                   !.g = [matcher |-> m, isTerminated |-> Over(m), processed |-> @.processed + 1]]
Begin(g) == [g |-> g, on |-> ~ g.isTerminated, ok |-> TRUE, bad |-> {}]
\* The code before the patch: the flag is set after the last token only.
AcceptUpstreamLast(g, tokens) ==
  LET n == Accepted(g.matcher, tokens)
      m == g.matcher \o SubSeq(tokens, 1, n)
      all == n = Len(tokens) IN
  [Begin(g) EXCEPT !.ok = all, !.bad = IF all THEN {} ELSE Misfed(m),
     !.g = [matcher |-> m, isTerminated |-> all /\ Over(m), processed |-> @.processed + n]]
AcceptTokens(g, tokens) ==
  LET after[n \in 0..Len(tokens)] ==
        IF n = 0 THEN Begin(g) ELSE AcceptOne(after[n - 1], tokens[n])
  IN  after[Len(tokens)]

\* validate_tokens: the longest prefix the matcher accepts, up to its termination;
\* the matcher is rolled back.
ValidateTokens(g, tokens) ==
  IF g.isTerminated THEN <<>> ELSE SubSeq(tokens, 1, Accepted(g.matcher, tokens))

\* The manager advances over one draft of the window; behind a mid-window end of the
\* reasoning the draft is validated first.
AdvanceUnvalidated(r, t, behindEnd) ==
  LET a == AcceptTokens(r.g, <<t>>)
      lost == IF a.ok THEN {} ELSE {"failed to advance"} IN
  IF r.g.isTerminated THEN r ELSE [g |-> a.g, bad |-> r.bad \cup a.bad \cup lost]
Advance(r, t, behindEnd) ==
  LET a == AcceptTokens(r.g, <<t>>)
      lost == IF a.ok THEN {} ELSE {"failed to advance"}
      invalid == behindEnd /\ ValidateTokens(r.g, <<t>>) = <<>> IN
  IF r.g.isTerminated \/ invalid THEN r ELSE [g |-> a.g, bad |-> r.bad \cup a.bad \cup lost]
AdvanceOver(part) ==
  LET after[n \in 0..Len(part)] ==
        IF n = 0 THEN [g |-> Grammar, bad |-> {}] ELSE Advance(after[n - 1], part[n], inReasoning)
  IN  after[Len(part)]

\* What of a step's tokens the grammar sees: nothing of the reasoning.
GrammarPart(tokens) ==
  LET end == SelectInSeq(tokens, LAMBDA t : t = "/") IN
  IF ~ inReasoning THEN tokens
  ELSE IF end = 0 THEN <<>> ELSE SubSeq(tokens, end + 1, Len(tokens))

StructuredRequest(reasons) ==
  /\ request = "none" /\ request' = "structured"
  /\ SetGrammar(Fresh)
  /\ inReasoning' = reasons /\ drafts' = <<>> /\ step' = "drafts" /\ complaints' = {}
  /\ UNCHANGED textVars

\* The drafter proposes; once the grammar is in force its proposals are validated
\* (scheduler.py:1980-1983).
Draft(proposed) ==
  /\ request = "structured" /\ step = "drafts"
  /\ drafts' = IF inReasoning THEN proposed ELSE ValidateTokens(Grammar, proposed)
  /\ step' = "mask"
  /\ UNCHANGED <<request, textVars, grammarVars, inReasoning, complaints>>

\* grammar_bitmask: over the drafts and back.
FillBitmask ==
  /\ request = "structured" /\ step = "mask"
  /\ LET r == AdvanceOver(GrammarPart(drafts))
         back == SubSeq(r.g.matcher, 1, Len(r.g.matcher) - (r.g.processed - processed)) IN
       /\ SetGrammar([matcher |-> back, isTerminated |-> Over(back), processed |-> processed])
       /\ complaints' = complaints \cup r.bad
  /\ step' = "sample"
  /\ UNCHANGED <<request, textVars, inReasoning, drafts>>

\* The tokens of a step: a prefix of the drafts and one more; while the grammar is in
\* force the bitmask lets only its tokens through, after its end any.
Obeys(tokens) ==
  LET part == GrammarPart(tokens) IN
  \A i \in DOMAIN part :
    LET m == matcher \o SubSeq(part, 1, i - 1) IN
    (\A j \in 1..(i - 1) : part[j] # "E") /\ ~ Over(matcher) => Allows(m, part[i])
Sampled == {SubSeq(drafts, 1, n) \o <<t>> : n \in 0..Len(drafts), t \in Tokens}

\* update_from_output: a request whose stop token ends it loses the tokens after it;
\* otherwise (ignore_eos) the grammar gets them too.
Trimmed(tokens) ==
  LET end == SelectInSeq(tokens, LAMBDA t : t = "E") IN
  IF end = 0 THEN tokens ELSE SubSeq(tokens, 1, end)

Sample(tokens, stopsAtEnd) ==
  LET part == GrammarPart(IF stopsAtEnd THEN Trimmed(tokens) ELSE tokens)
      r == AcceptTokens(Grammar, part) IN
  /\ request = "structured" /\ step = "sample"
  /\ tokens \in Sampled /\ Obeys(tokens)
  /\ SetGrammar(r.g)
  /\ complaints' = complaints \cup r.bad \cup (IF r.ok THEN {} ELSE {"rejected its own tokens"})
  /\ inReasoning' = (inReasoning /\ ~ Contains(tokens, "/"))
  /\ drafts' = <<>> /\ step' = "drafts"
  /\ UNCHANGED <<request, textVars>>

\* reset: the grammar starts over.
Reset(g) == [g EXCEPT !.matcher = <<>>, !.processed = 0, !.isTerminated = FALSE]
ResetGrammar ==
  /\ request = "structured" /\ step = "drafts"
  /\ SetGrammar(Reset(Grammar))
  /\ UNCHANGED <<request, textVars, inReasoning, drafts, step, complaints>>

-----------------------------------------------------------------------------
DecodingInit ==
  /\ request = "none"
  /\ armed = FALSE /\ closed = FALSE /\ text = <<>> /\ stopped = FALSE
  /\ matcher = <<>> /\ isTerminated = FALSE /\ processed = 0
  /\ inReasoning = FALSE /\ drafts = <<>> /\ step = "drafts" /\ complaints = {}

DecodingStep ==
  \/ \E yes \in BOOLEAN : TextRequest(yes) \/ StructuredRequest(yes)
  \/ \E chunk \in UpTo(Chars, MaxChunk) : Detokenize(chunk)
  \/ \E proposed \in UpTo(Tokens, MaxChunk) : Draft(proposed)
  \/ FillBitmask
  \/ \E tokens \in UpTo(Tokens, MaxChunk + 1), stops \in BOOLEAN : Sample(tokens, stops)
  \/ ResetGrammar

-----------------------------------------------------------------------------
(* A stop string ends the request exactly when it is completed behind the end of
   the reasoning ("keep client stop strings dormant until </think>", "a stop in
   that tail cannot fire", :2-14), however the output is cut into chunks: none
   fires inside the reasoning, and none is missed behind it. *)
StopsExactlyAfterReasoning ==
  request = "text" =>
    LET end == Find(text, Marker, 0)
        from == IF ~ armed THEN 0 ELSE IF end = -1 THEN Len(text) ELSE end + Len(Marker) IN
    stopped <=> \E i \in Found(text, StopString, 0) : i + Len(StopString) > from

(* "The cached termination flag can become inconsistent with the matcher" (:6-8) no
   longer: between two calls flag and count are the matcher's. *)
FlagIsTheMatchers ==
  isTerminated = Over(matcher) /\ processed = Len(matcher)

(* No token is given to a terminated matcher, no draft makes an error ("a spurious
   Failed to advance FSM", :15-19), and the tokens of a step, which the bitmask
   let through, are not rejected, whatever follows the grammar's stop token. *)
GrammarIsNotMisfed == complaints = {}
=============================================================================
