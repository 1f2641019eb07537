------------------------------ MODULE AgentLoop ------------------------------
(***************************************************************************)
(* An agent that does not stream, and the response cache: which of its     *)
(* requests the cache takes for one it has answered (get and put of        *)
(* hybrid_cache.py with extract_cache_key_parts of the three providers).   *)
(*                                                                         *)
(* HybridCache knows the likeness of two requests as a relation; here it   *)
(* is worked out from the conversations.  The system prompt is always the  *)
(* same, nothing expires, and texts are too short for the cleaner to       *)
(* replace one by a reference.                                             *)
(***************************************************************************)
EXTENDS Naturals, Sequences, FiniteSets, SequencesExt

CONSTANTS
    Questions,      \* what a user says
    Results,        \* what a tool says
    Words,          \* the words of either
    Threshold,      \* similarity_threshold, of 100
    MaxMessages,    \* bound on a conversation
    MaxReplies      \* bound on the model's replies

VARIABLES
    format,         \* the provider's
    history,        \* the conversation
    stored,         \* the rows of the cache, in the order of their making
    replies,        \* replies the model has made
    served          \* the last request the cache has answered, with the row it took
loopVars == <<format, history, stored, replies, served>>

Formats == {"anthropic", "openai", "gemini"}
RecentTurns == 2
Says(role, text) == [role |-> role, text |-> text, calls |-> FALSE]
-----------------------------------------------------------------------------
(* The likeness of two requests. *)

\* A tool's answer is a user's message to Anthropic and Gemini, to OpenAI it is not.
IsUser(m) == m.role = "user" \/ (m.role = "tool" /\ format # "openai")

\* Its text counts with Anthropic; a functionResponse of Gemini has none.
TextOf(m) == IF m.role = "tool" /\ format = "gemini" THEN {} ELSE Words[m.text]

UserWords(request) ==
    LET users  == SelectSeq(request, IsUser)
        recent == SubSeq(users, IF Len(users) > RecentTurns THEN Len(users) - RecentTurns + 1 ELSE 1, Len(users))
    IN  UNION {TextOf(recent[i]) : i \in DOMAIN recent}

\* The Jaccard score of the words reaches the threshold; without words there is none.
Similar(r, s) ==
    LET a == UserWords(r)
        b == UserWords(s)
    IN  a # {} /\ b # {} /\ 100 * Cardinality(a \cap b) >= Threshold * Cardinality(a \cup b)

\* get: the row of the very request, else the newest that is similar.
Found(request) ==
    LET exact == {i \in DOMAIN stored : stored[i].asked = request}
        like  == {i \in DOMAIN stored : Similar(request, stored[i].asked)}
    IN  IF exact # {} THEN exact ELSE {i \in like : \A j \in like : j <= i}
-----------------------------------------------------------------------------
IsAsking == history # <<>> /\ Last(history).role # "assistant"

Serve ==
    /\ IsAsking
    /\ \E i \in Found(history) :
          /\ history' = Append(history, stored[i].reply)
          /\ served' = <<[asked |-> history, row |-> stored[i]]>>
    /\ UNCHANGED <<format, stored, replies>>

\* A miss: the model says something new or calls a tool, and the reply is stored.
Forward ==
    /\ IsAsking /\ Found(history) = {}
    /\ replies < MaxReplies /\ replies' = replies + 1
    /\ \E calls \in BOOLEAN :
          LET reply == [role |-> "assistant", text |-> replies', calls |-> calls] IN
          /\ history' = Append(history, reply)
          /\ stored' = Append(stored, [asked |-> history, reply |-> reply])
    /\ UNCHANGED <<format, served>>

UserSays(t) ==
    /\ history # <<>> => Last(history).role = "assistant" /\ ~Last(history).calls
    /\ Len(history) < MaxMessages
    /\ history' = Append(history, Says("user", t))
    /\ UNCHANGED <<format, stored, replies, served>>

ToolAnswers(t) ==
    /\ history # <<>> /\ Last(history).calls
    /\ Len(history) < MaxMessages
    /\ history' = Append(history, Says("tool", t))
    /\ UNCHANGED <<format, stored, replies, served>>

\* Another agent's conversation, with the same cache.
Restart ==
    /\ history # <<>> /\ history' = <<>>
    /\ UNCHANGED <<format, stored, replies, served>>

LoopInit == format \in Formats /\ history = <<>> /\ stored = <<>> /\ replies = 0 /\ served = <<>>
LoopNext == Serve \/ Forward \/ (\E t \in Questions : UserSays(t)) \/ (\E t \in Results : ToolAnswers(t)) \/ Restart
LoopSpec == LoopInit /\ [][LoopNext]_loopVars
-----------------------------------------------------------------------------
(* Properties. *)

(* "The returned completion must be identical to the authentic provider      *)
(* output" (docs/methods/local_cache_layer.md:205): a request that carries   *)
(* the answer to a tool call is never served that call as its reply.  With   *)
(* OpenAI a tool's answer does not count as what the user says, with Gemini  *)
(* it has no text: the request is as like as can be to the one that led to   *)
(* the call, and the agent is told to call again (hybrid_cache.py:292-325,   *)
(* openai.py:265-274, gemini.py:236-251).                                    *)
AnsweredCallIsNotServed ==
    \A i \in DOMAIN served :
        LET reply == served[i].row.reply
        IN  reply.calls => reply \notin ToSet(served[i].asked)
=============================================================================
