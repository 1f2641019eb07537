--------------------------- MODULE ContextCleaner ---------------------------
(***************************************************************************)
(* The context cleaner (payload_cleaner.py and the clean methods of        *)
(* providers/anthropic.py, openai.py and gemini.py): what an agent's whole *)
(* conversation, sent again with every request, looks like when it leaves  *)
(* the proxy.                                                              *)
(*                                                                         *)
(* The conversation grows the way an agent grows it; the cleaner keeps no  *)
(* state between requests, so it is an operator on the conversation.  The  *)
(* three formats differ in how they hold a message, and in a few decisions *)
(* which are kept apart here; a body is a text, known by its length class. *)
(***************************************************************************)
EXTENDS Integers, Sequences, FiniteSets, SequencesExt, Filter

CONSTANTS
    Bodies,        \* texts
    Length,        \* of each: 0 up to 100 characters, 1 up to 200, 2 above
    MaxTurns,      \* JSONContextCleaner.max_turns
    RecentTurns,   \* JSONContextCleaner.recent_turns_to_keep
    MaxMessages    \* bound on the conversation

ASSUME CleanerAssumption ==
    /\ Length \in [Bodies -> 0..2]
    /\ RecentTurns \in Nat \ {0}      \* 0 would have the search start past the end
    /\ MaxTurns \in Nat /\ RecentTurns < MaxTurns

VARIABLES
    provider,      \* the format
    history,       \* the conversation
    sent           \* the messages of the last request, cleaned; <<>> between requests
cleanVars == <<provider, history, sent>>

Systems == {"none", "string", "plain", "marked"}    \* of an Anthropic request
ToolLists == {"none", "plain", "marked"}

\* A block is a text, a tool call or a tool result; ref is the turn it refers
\* to once it has been replaced, marked its cache_control.
Block(type, body, id) == [type |-> type, body |-> body, id |-> id, ref |-> 0, marked |-> FALSE]
\* A message holds a string, or a list of blocks (parts).
Message(role, str, blocks) == [role |-> role, str |-> str, blocks |-> blocks]

Calls(m) == {m.blocks[i].id : i \in {j \in DOMAIN m.blocks : m.blocks[j].type = "call"}}
Results(m) == {m.blocks[i].id : i \in {j \in DOMAIN m.blocks : m.blocks[j].type = "result"}}
-----------------------------------------------------------------------------
(* deduplicate_*: seen_content_hashes is the turn of each content last left *)
(* in full, 0 for none; the code counts turns from 0.                       *)

\* The lengths up to which a content is left alone: 200 characters for a
\* message's own string, 100 for a block, a part or a tool message.
Limit(m) == IF m.str /\ m.role # "tool" THEN 1 ELSE 0

LeftAlone(m, b) == b.type = "call" \/ Length[b.body] <= Limit(m)

Repeats(seen, m, b, older) == ~LeftAlone(m, b) /\ older /\ seen[b.body] # 0

\* Mutant: the latest place a content was seen at is remembered, replaced or not.
MutantRemember(seen, m, b, turn, older) ==
    IF LeftAlone(m, b) THEN seen ELSE [seen EXCEPT ![b.body] = turn]

Remember(seen, m, b, turn, older) ==
    IF LeftAlone(m, b) \/ Repeats(seen, m, b, older) THEN seen
    ELSE [seen EXCEPT ![b.body] = turn]

\* What has been seen after each block of a message.
SeenAlong(m, turn, older, before) ==
    LET seen[j \in 0..Len(m.blocks)] ==
            IF j = 0 THEN before ELSE Remember(seen[j - 1], m, m.blocks[j], turn, older)
    IN  seen

\* Mutant: a message among the newest is replaced like any other.
MutantOlder(turn, messages) == turn <= Len(messages)

\* The newest two messages are never replaced.
Older(turn, messages) == turn + 2 <= Len(messages)

\* What has been seen after each message.
SeenAfter(messages) ==
    LET seen[t \in 0..Len(messages)] ==
            IF t = 0 THEN [b \in Bodies |-> 0]
            ELSE SeenAlong(messages[t], t, Older(t, messages), seen[t - 1])[Len(messages[t].blocks)]
    IN  seen

DedupBlock(seen, m, b, older) ==
    IF Repeats(seen, m, b, older) THEN [b EXCEPT !.ref = seen[b.body]] ELSE b

DedupMessage(m, turn, older, before) ==
    LET seen == SeenAlong(m, turn, older, before)
    IN  [m EXCEPT !.blocks =
            [j \in 1..Len(m.blocks) |-> DedupBlock(seen[j - 1], m, m.blocks[j], older)]]

Dedup(messages) ==
    [t \in 1..Len(messages) |->
        DedupMessage(messages[t], t, Older(t, messages), SeenAfter(messages)[t - 1])]
-----------------------------------------------------------------------------
(* summarize_*_history *)

\* Mutant: a message of tool results is taken for a question.
MutantCleanUser(p, m) == m.role = "user"

\* _is_clean_*_user_message: only Anthropic's looks for tool results.
CleanUser(p, m) == m.role = "user" /\ (p = "anthropic" => Results(m) = {})

PrefixLen(p, messages) ==
    IF p = "openai" /\ Len(messages) > 1 /\ messages[1].role = "system" /\ messages[2].role = "user"
    THEN 2 ELSE 1

\* Where the clean user messages are, counted from 0.
CleanAt(p, messages) == {i \in 0..(Len(messages) - 1) : CleanUser(p, messages[i + 1])}

\* _find_*_suffix_idx among n messages, counted from 0; 0 stands for None.  Anthropic
\* and Gemini look back from the target, then forward; OpenAI forward, then back.
SuffixFrom(p, clean, prefix, n) ==
    LET kept    == n - RecentTurns
        target  == IF p = "openai" /\ kept < prefix + 1 THEN prefix + 1 ELSE kept
        back    == IF p = "openai" THEN {i \in clean : prefix < i /\ i < target}
                                   ELSE {i \in clean : 0 < i /\ i <= target}
        forward == IF p = "openai" THEN {i \in clean : i >= target} ELSE {i \in clean : i > target}
    IN  IF p = "openai"
        THEN IF forward # {} THEN Min(forward) ELSE IF back # {} THEN Max(back) ELSE 0
        ELSE IF back # {} THEN Max(back) ELSE IF forward # {} THEN Min(forward) ELSE 0

SuffixIdx(p, messages) ==
    SuffixFrom(p, CleanAt(p, messages), PrefixLen(p, messages), Len(messages))

\* _merge_two_messages: lists are joined; of OpenAI's second message only the
\* content is, and its tool_calls and tool_call_id are lost.
Content(m) ==
    LET kept == Keep(m.blocks, {b \in Range(m.blocks) : b.type # "call"})
    IN  [i \in 1..Len(kept) |-> [kept[i] EXCEPT !.type = "text", !.id = 0]]

Joined(p, prev, curr) ==
    [prev EXCEPT !.str = @ /\ curr.str,
                 !.blocks = @ \o (IF p = "openai" THEN Content(curr) ELSE curr.blocks)]

\* The messages merged so far, and one more.
MergeNext(p, merged, m) ==
    IF merged # <<>> /\ Last(merged).role = m.role
    THEN Append(Front(merged), Joined(p, Last(merged), m))
    ELSE Append(merged, m)

\* The messages merged, after each of them.
Merging(p, messages) ==
    LET merged[n \in 0..Len(messages)] ==
            IF n = 0 THEN <<>> ELSE MergeNext(p, merged[n - 1], messages[n])
    IN  merged

MergeConsecutiveRoles(p, messages) == Merging(p, messages)[Len(messages)]

SummaryOf(n) == Message("assistant", TRUE, <<Block("summary", "omitted", n)>>)

Summarize(p, messages) ==
    LET at == SuffixIdx(p, messages)
        n  == PrefixLen(p, messages)
    IN  IF at <= n THEN messages
        ELSE SubSeq(messages, 1, n) \o <<SummaryOf(at - n)>> \o SubSeq(messages, at + 1, Len(messages))

Summarized(p, messages) ==
    /\ Len(messages) > MaxTurns
    /\ SuffixIdx(p, messages) > PrefixLen(p, messages)

\* clean: the Anthropic one merges roles even when nothing was summarized.
CleanMessages(p, messages) ==
    LET deduped == Dedup(messages) IN
    IF Len(messages) <= MaxTurns THEN deduped
    ELSE IF p = "anthropic" \/ Summarized(p, messages)
    THEN MergeConsecutiveRoles(p, Summarize(p, deduped))
    ELSE deduped
-----------------------------------------------------------------------------
(* inject_anthropic_cache_control: at most four marks with the client's own. *)

Marks(messages) ==
    UNION {{i} \X {j \in 1..Len(messages[i].blocks) : messages[i].blocks[j].marked}
              : i \in 1..Len(messages)}

CountExisting(sys, tls, messages) ==
    (IF sys = "marked" THEN 1 ELSE 0) + (IF tls = "marked" THEN 1 ELSE 0)
      + Cardinality(Marks(messages))

MarkLast(m) == [m EXCEPT !.str = FALSE, !.blocks[Len(m.blocks)].marked = TRUE]

\* _inject_messages_cache: the last block but one message, unless it is marked.
MayMark(messages) ==
    /\ Len(messages) >= 2
    /\ LET m == messages[Len(messages) - 1]
       IN  m.str \/ (m.blocks # <<>> /\ ~Last(m.blocks).marked)

\* Mutant: the mark on the system prompt is not taken from what is left.
MutantInject(sys, tls, messages) ==
    LET budget == 4 - CountExisting(sys, tls, messages)
    IN  [system   |-> IF budget > 0 /\ sys \in {"string", "plain"} THEN "marked" ELSE sys,
         tools    |-> IF budget > 0 /\ tls = "plain" THEN "marked" ELSE tls,
         messages |-> IF budget > 0 /\ MayMark(messages)
                      THEN [messages EXCEPT ![Len(messages) - 1] = MarkLast(@)] ELSE messages]

Inject(sys, tls, messages) ==
    LET budget    == 4 - CountExisting(sys, tls, messages)
        system    == budget > 0 /\ sys \in {"string", "plain"}
        left      == budget - (IF system THEN 1 ELSE 0)
        toolsToo  == left > 0 /\ tls = "plain"
        rest      == left - (IF toolsToo THEN 1 ELSE 0)
    IN  [system   |-> IF system THEN "marked" ELSE sys,
         tools    |-> IF toolsToo THEN "marked" ELSE tls,
         messages |-> IF rest > 0 /\ MayMark(messages)
                      THEN [messages EXCEPT ![Len(messages) - 1] = MarkLast(@)] ELSE messages]
-----------------------------------------------------------------------------
(* The agent: a conversation as each format allows it, sent whole with every *)
(* request.                                                                  *)

\* A question is a string, in Gemini's format a part.
User(body) == Message("user", provider # "gemini", <<Block("text", body, 0)>>)
System(body) == Message("system", TRUE, <<Block("text", body, 0)>>)

\* Calls of the last assistant message that have no result yet.
Unanswered(messages) ==
    LET from == {i \in DOMAIN messages : messages[i].role = "assistant"} IN
    IF from = {} THEN {}
    ELSE Calls(messages[Max(from)])
             \ UNION {Results(messages[i]) : i \in {j \in DOMAIN messages : j > Max(from)}}
Pending == Unanswered(history)

\* Turns that end in a question or in the last tool result are requests.
Says(m) ==
    /\ Len(history) < MaxMessages
    /\ history' = Append(history, m)
    /\ sent' = IF m.role \in {"user", "tool"} /\ Unanswered(history') = {}
               THEN CleanMessages(provider, history') ELSE <<>>
    /\ UNCHANGED provider

UserAsks ==
    /\ Pending = {}
    /\ history # <<>> => Last(history).role \notin {"user", "tool"}
    /\ \E b \in Bodies :
          \/ Says(User(b))
          \/ (provider = "openai" /\ history = <<>> /\ Says(System(b)))

\* A text, or calls numbered by their message.
AssistantAnswers ==
    /\ Pending = {} /\ history # <<>> /\ Last(history).role \in {"user", "tool"}
    /\ LET n == 2 * Len(history)
           call(k) == Block("call", "call", n + k)
       IN  \/ \E b \in Bodies : Says(Message("assistant", provider = "openai", <<Block("text", b, 0)>>))
           \/ Says(Message("assistant", FALSE, <<call(1)>>))
           \/ Says(Message("assistant", FALSE, <<call(1), call(2)>>))

\* The results of all the calls in one message; OpenAI's one message each.
ToolsAnswer ==
    /\ Pending # {}
    /\ \E b \in Bodies :
          IF provider = "openai" THEN Says(Message("tool", TRUE, <<Block("result", b, Min(Pending))>>))
          ELSE LET calls == Last(history).blocks
               IN  Says(Message("user", FALSE,
                                [i \in 1..Len(calls) |-> Block("result", b, calls[i].id)]))

CleanInit == provider \in {"anthropic", "openai", "gemini"} /\ history = <<>> /\ sent = <<>>
CleanNext == UserAsks \/ AssistantAnswers \/ ToolsAnswer
CleanSpec == CleanInit /\ [][CleanNext]_cleanVars
-----------------------------------------------------------------------------
(* Properties. *)

\* The tool messages that follow a message at once.
Following(messages, i) ==
    IF provider # "openai" THEN (IF i < Len(messages) THEN Results(messages[i + 1]) ELSE {})
    ELSE UNION {Results(messages[j]) : j \in {k \in DOMAIN messages :
            k > i /\ \A l \in (i + 1)..k : messages[l].role = "tool"}}

(* Tool calls keep their results: what reaches an Anthropic or an OpenAI     *)
(* endpoint has no result whose call was summarized away, and no call that   *)
(* lost its answer; the endpoint rejects the request otherwise               *)
(* (anthropic.py:135-152, openai.py:129-150).  A single call per message is  *)
(* all it holds for with OpenAI, whose parallel results are merged, and it   *)
(* does not hold for Gemini, where a tool result may open what is kept.      *)
CallsKeepResults ==
    (\/ provider = "anthropic"
     \/ provider = "openai" /\ \A i \in DOMAIN history : \A x, y \in Calls(history[i]) : x = y)
    => \A i \in DOMAIN sent :
          /\ Results(sent[i]) # {} => \E j \in 1..(i - 1) : Results(sent[i]) \subseteq Calls(sent[j])
          /\ Calls(sent[i]) # {} => Calls(sent[i]) = Following(sent, i)

(* While nothing is summarized, a replaced content names a turn that is      *)
(* there, is older, and holds the content in full (anthropic.py:31-132).     *)
ReferencesResolve ==
    ~Summarized(provider, history) =>
        \A i \in DOMAIN sent : \A j \in DOMAIN sent[i].blocks :
            LET b == sent[i].blocks[j] IN
            b.ref # 0 => /\ b.ref <= i
                         /\ \E k \in DOMAIN sent[b.ref].blocks :
                               LET full == sent[b.ref].blocks[k]
                               IN  full.ref = 0 /\ full.body = b.body /\ full.type # "call"

(* "Active working turns are never deduplicated"                             *)
(* (docs/token_reduction_ab_testing.md:183): the newest message reaches the  *)
(* model as it was sent, at the end, whatever is replaced, summarized or     *)
(* merged before it; the first message is still the first.                   *)
NewestIsVerbatim ==
    sent # <<>> =>
        LET newest == Last(history).blocks
            end    == Last(sent).blocks
        IN  /\ Len(end) >= Len(newest)
            /\ \A i \in DOMAIN newest :
                   LET b == end[Len(end) - Len(newest) + i]
                   IN  b.body = newest[i].body /\ b.ref = 0
            /\ sent[1].role = history[1].role

\* Something is summarized, of a conversation in which the agent has asked
\* something before its recent turns.
KeepsRecent ==
    /\ sent # <<>> /\ provider # "openai" /\ Summarized(provider, history)
    /\ \E i \in 2..(Len(history) - RecentTurns + 1) : CleanUser(provider, history[i])

RecentPlaces == (Len(history) - RecentTurns + 1)..Len(history)
\* What became of a turn, counted from the end.
Outgoing(t) == sent[Len(sent) - (Len(history) - t)]

(* The recent turns survive a summary (payload_cleaner.py:24): no fewer than *)
(* configured stay turns of their own, in their order, with Anthropic and    *)
(* Gemini, block for block what they were; what was repeated may be a        *)
(* reference, but not in the newest two.  OpenAI's search looks forward      *)
(* first and may keep fewer.                                                 *)
RecentTurnsSurvive ==
    KeepsRecent => \A t \in RecentPlaces :
        LET c == Outgoing(t)
            h == history[t]
        IN  /\ c.role = h.role /\ Len(c.blocks) = Len(h.blocks)
            /\ \A j \in DOMAIN h.blocks :
                   /\ c.blocks[j].body = h.blocks[j].body
                   /\ c.blocks[j].type = h.blocks[j].type /\ c.blocks[j].id = h.blocks[j].id
                   /\ ~Older(t, history) => c.blocks[j].ref = 0

(* As many recent turns reach the model as are configured, the newest as it  *)
(* was sent.  It is less than "preserved verbatim" (payload_cleaner.py:24)   *)
(* and "never pruned" (docs/ab_testing_guide.md:157): deduplication leaves   *)
(* only the newest two messages alone (anthropic.py:127-132).                *)
RecentTurnsAreKept == NewestIsVerbatim /\ RecentTurnsSurvive

(* The marks of a request never pass the provider's limit of four because of *)
(* the proxy, whatever the client marked already, and the message before the *)
(* newest is marked whenever the limit leaves room (anthropic.py:297-319).   *)
CacheMarksWithinLimit ==
    provider = "anthropic" /\ sent # <<>> =>
        \A sys \in Systems, tls \in ToolLists, own \in SUBSET {1, Len(sent) - 1, Len(sent)} :
            LET n       == Len(sent)
                request == [i \in 1..n |-> IF i \in own THEN MarkLast(sent[i]) ELSE sent[i]]
                out     == Inject(sys, tls, request)
                before  == CountExisting(sys, tls, request)
                after   == CountExisting(out.system, out.tools, out.messages)
            IN  /\ after <= Max({4, before})
                /\ after < 4 /\ n >= 2 => Last(out.messages[n - 1].blocks).marked
=============================================================================
