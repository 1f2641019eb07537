---------------------------- MODULE GeminiRequest ----------------------------
(***************************************************************************)
(* A Gemini client's request on its way to an OpenAI-compatible model      *)
(* server (translate_gemini_to_openai_request in                           *)
(* providers/translation.py).  Gemini pairs a tool's answer with its call  *)
(* by the function's name and the order, or by an id if the client sends   *)
(* them; OpenAI by an id always, which the translation makes up anew each  *)
(* time the conversation is sent.                                          *)
(***************************************************************************)
EXTENDS Filter, FiniteSets, SequencesExt, TLC

CONSTANTS
    Functions,     \* names of tools
    MaxItems,      \* bound on the conversation
    MaxCalls       \* bound on the calls of a reply

ASSUME RequestAssumption == MaxItems \in Nat /\ MaxCalls \in Nat

VARIABLES
    style,         \* which parts the client gives ids: none, the calls, both
    contents       \* the conversation
requestVars == <<style, contents>>

Styles == {"none", "calls", "both"}

\* A part is a text, a call or an answer; n is its place, the k-th part of the
\* i-th item being <<i, k>>, and of an answer it is its call's, as is its id.
Part(type, name, id, n) == [type |-> type, name |-> name, id |-> id, n |-> n]
Item(role, parts) == [role |-> role, parts |-> parts]

\* The id a client gives the call at n; a made-up one is <<text>>.
NoId == <<>>
ClientId(n, given) == IF given THEN <<"id", n>> ELSE NoId
-----------------------------------------------------------------------------
(* The translation, a fold over the parts of each item and over the items.   *)

\* The second call of f is call_f_2.
CallId(name, count) ==
    <<IF count = 1 THEN "call_" \o name ELSE "call_" \o name \o "_" \o ToString(count)>>

\* _format_function_call: pending are the ids of the calls so far, by name, less
\* those that an answer without an id took.
FormatCall(acc, part) ==
    LET count == acc.counts[part.name] + 1
        id    == IF part.id # NoId THEN part.id ELSE CallId(part.name, count)
    IN  [acc EXCEPT !.counts[part.name] = IF part.id # NoId THEN @ ELSE count,
                    !.pending[part.name] = Append(@, id),
                    !.calls = Append(@, [id |-> id, n |-> part.n])]

\* _process_content_part
Process(acc, part) ==
    CASE part.type = "text" -> [acc EXCEPT !.texts = Append(@, part.n)]
      [] part.type = "call" -> FormatCall(acc, part)
      [] part.type = "answer" -> [acc EXCEPT !.answers = Append(@, part)]

ToolMessage(id, n) == [role |-> "tool", texts |-> <<>>, calls |-> <<>>, id |-> id, n |-> n]

\* Mutant: an answer is to the latest call of its name.
MutantAnswerCall(acc, part) ==
    LET pending == acc.pending[part.name]
        id      == IF part.id # NoId THEN part.id
                   ELSE IF pending # <<>> THEN Last(pending) ELSE CallId(part.name, 1)
    IN  [acc EXCEPT !.pending[part.name] = IF part.id # NoId \/ @ = <<>> THEN @ ELSE Front(@),
                    !.messages = Append(@, ToolMessage(id, part.n))]

\* _translate_tool_responses: the earliest call of its name that is left.
AnswerCall(acc, part) ==
    LET pending == acc.pending[part.name]
        id      == IF part.id # NoId THEN part.id
                   ELSE IF pending # <<>> THEN Head(pending) ELSE CallId(part.name, 1)
    IN  [acc EXCEPT !.pending[part.name] = IF part.id # NoId \/ @ = <<>> THEN @ ELSE Tail(@),
                    !.messages = Append(@, ToolMessage(id, part.n))]

Processed(acc, parts) ==
    LET done[k \in 0..Len(parts)] ==
            IF k = 0 THEN acc ELSE Process(done[k - 1], parts[k])
    IN  done[Len(parts)]

Answered(acc, answers) ==
    LET done[k \in 0..Len(answers)] ==
            IF k = 0 THEN acc ELSE AnswerCall(done[k - 1], answers[k])
    IN  done[Len(answers)]

MessageOf(role, acc) ==
    [role |-> role, texts |-> acc.texts, calls |-> acc.calls, id |-> NoId, n |-> <<0, 0>>]

\* _translate_single_content_item: of an item with answers only these are sent.
TranslateItem(acc, item) ==
    LET begun == [acc EXCEPT !.texts = <<>>, !.calls = <<>>, !.answers = <<>>]
        done  == Processed(begun, item.parts)
    IN  IF done.answers # <<>> THEN Answered(done, done.answers)
        ELSE [done EXCEPT !.messages = Append(@, MessageOf(item.role, done))]

Nothing ==
    [pending |-> [f \in Functions |-> <<>>], counts |-> [f \in Functions |-> 0],
     texts |-> <<>>, calls |-> <<>>, answers |-> <<>>, messages |-> <<>>]

\* _translate_contents
Translated ==
    LET done[i \in 0..Len(contents)] ==
            IF i = 0 THEN Nothing ELSE TranslateItem(done[i - 1], contents[i])
    IN  done[Len(contents)].messages
-----------------------------------------------------------------------------
(* The client. *)

Adds(item) ==
    /\ Len(contents) < MaxItems
    /\ contents' = Append(contents, item) /\ UNCHANGED style
LastIs(role) == contents # <<>> /\ Last(contents).role = role
Spoken(k, speaks) == IF speaks THEN <<Part("text", "", NoId, <<Len(contents) + 1, k>>)>> ELSE <<>>

\* A question, also in place of the answers to calls the user has interrupted.
UserAsksFor ==
    /\ ~LastIs("user")
    /\ Adds(Item("user", Spoken(1, TRUE)))

\* A text, calls, or both.
ModelReplies ==
    /\ LastIs("user")
    /\ \E m \in 0..MaxCalls, speaks \in BOOLEAN : \E called \in [1..m -> Functions] :
          /\ m = 0 => speaks
          /\ LET text == Spoken(1, speaks)
                 at(k) == <<Len(contents) + 1, Len(text) + k>>
                 call(k) == Part("call", called[k], ClientId(at(k), style # "none"), at(k))
             IN  Adds(Item("assistant", text \o [k \in 1..m |-> call(k)]))

\* The answers to all the calls, those of one function in the order of its calls;
\* the user may add a word.
ToolsReply ==
    /\ LastIs("assistant")
    /\ LET parts == Last(contents).parts
           calls == {k \in DOMAIN parts : parts[k].type = "call"}
           m == Cardinality(calls)
           answer(c) == Part("answer", c.name, ClientId(c.n, style = "both"), c.n)
       IN  /\ calls # {}
           /\ \E order \in Bijection(1..m, calls), speaks \in BOOLEAN :
                 /\ \A i, j \in 1..m :
                       i < j /\ parts[order[i]].name = parts[order[j]].name => order[i] < order[j]
                 /\ Adds(Item("user", [i \in 1..m |-> answer(parts[order[i]])] \o Spoken(m + 1, speaks)))

RequestInit == style \in Styles /\ contents = <<>>
RequestNext == UserAsksFor \/ ModelReplies \/ ToolsReply
RequestSpec == RequestInit /\ [][RequestNext]_requestVars
-----------------------------------------------------------------------------
(* Properties. *)

PartsOf(item, type) == Keep(item.parts, {p \in ToSet(item.parts) : p.type = type})
AnswersIn(item) == {p.n : p \in ToSet(PartsOf(item, "answer"))}
CallsIn(item) == {p.n : p \in ToSet(PartsOf(item, "call"))}
Interrupted(i) == CallsIn(contents[i]) # {} /\ i < Len(contents) /\ AnswersIn(contents[i + 1]) = {}

\* Made-up ids of different functions can be the same: f called twice and f_2.
Distinguishable ==
    LET many == 1..((MaxCalls + 1) * MaxItems)
    IN  \A f, g \in Functions, c, d \in many : CallId(f, c) = CallId(g, d) => f = g /\ c = d

(* Every answer reaches the model server with the id of the very call it     *)
(* answers, which no other call has, right after that call's message         *)
(* (translation.py:27-108), with ids made up or the client's, whatever was   *)
(* called how often, and in which order the answers come.  It needs that the *)
(* user interrupted no call: its id is left over, and the next answer of the *)
(* function takes it.                                                        *)
BridgedAnswersFindTheirCalls ==
    (\A i \in DOMAIN contents : ~Interrupted(i)) /\ Distinguishable =>
        LET out   == Translated
            calls == UNION {ToSet(out[i].calls) : i \in DOMAIN out}
        IN  /\ \A c, d \in calls : c.id = d.id => c = d
            /\ \A i \in DOMAIN out : out[i].role = "tool" =>
                  /\ [id |-> out[i].id, n |-> out[i].n] \in calls
                  /\ \E j \in 1..(i - 1) :
                        /\ [id |-> out[i].id, n |-> out[i].n] \in ToSet(out[j].calls)
                        /\ \A k \in (j + 1)..i : out[k].role = "tool"

(* Nothing that was said is lost or said twice, calls along with texts, but  *)
(* for what is said beside an answer (translation.py:127-137).               *)
SaidIn(item) ==
    IF AnswersIn(item) # {} THEN <<>>
    ELSE LET t == PartsOf(item, "text") IN [k \in DOMAIN t |-> t[k].n]
BridgedTextsAreKept ==
    LET out  == Translated
        made == UNION {CallsIn(contents[i]) : i \in DOMAIN contents}
    IN  /\ FlattenSeq([i \in DOMAIN out |-> out[i].texts])
              = FlattenSeq([i \in DOMAIN contents |-> SaidIn(contents[i])])
        /\ {c.n : c \in UNION {ToSet(out[i].calls) : i \in DOMAIN out}} = made

(* The OpenAI request says what the Gemini client said, and its answers find *)
(* their calls (translation.py:27-149).                                      *)
BridgedRequestIsFaithful == BridgedAnswersFindTheirCalls /\ BridgedTextsAreKept
=============================================================================
