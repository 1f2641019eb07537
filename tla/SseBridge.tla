----------------------------- MODULE SseBridge -----------------------------
(***************************************************************************)
(* A stream on its way from an OpenAI-compatible model server to a Gemini  *)
(* client: the tap on the response (proxy/steps/sse_tap.py), which         *)
(* translates each network chunk (providers/translation.py) and keeps a    *)
(* copy for the response hook up to a limit.                               *)
(*                                                                         *)
(* The model server emits events; the network cuts the bytes where it      *)
(* likes.  A chunk is a run of events, of which the first may have begun   *)
(* in the chunk before and the last may go on in the next: neither half of *)
(* a cut event is valid JSON, and no half is kept for later.               *)
(***************************************************************************)
EXTENDS Naturals, Sequences, SequencesExt, Filter

CONSTANTS
    LastIndex,     \* bound on the positions of parallel tool calls
    MaxEvents,     \* bound on a stream
    MaxChunk,      \* bound on the events of a chunk
    BufferLimit    \* _MAX_SSE_BUFFER_BYTES, in lines of output

ASSUME BridgeAssumption ==
    LastIndex \in Nat /\ MaxEvents \in Nat /\ MaxChunk \in Nat /\ BufferLimit \in Nat

VARIABLES
    emitted,       \* what the model server has sent, in order
    arrived,       \* how many events of it the network has delivered
    torn,          \* those it cut in two
    calls,         \* _sse_stream_state: the tool calls buffered, by index
    received,      \* the events the client got
    bytes,         \* flow.sse_bytes
    kept           \* flow.sse_chunks
bridgeVars == <<emitted, arrived, torn, calls, received, bytes, kept>>

Indices == 0..LastIndex

\* Events are numbered by their place: n stands for a text, or a piece of
\* arguments.  A fragment names its call or adds to it.
Text(n) == [kind |-> "text", n |-> n, index |-> 0]
Naming(i, n) == [kind |-> "name", n |-> n, index |-> i]
Argument(i, n) == [kind |-> "args", n |-> n, index |-> i]
Finish(reason, n) == [kind |-> reason, n |-> n, index |-> 0]
Usage(n) == [kind |-> "usage", n |-> n, index |-> 0]
Reasons == {"stop", "tool_calls", "length"}

Over == emitted # <<>> /\ Last(emitted).kind = "usage"
Finished == \E i \in DOMAIN emitted : emitted[i].kind \in Reasons
Named(i) == \E j \in DOMAIN emitted : emitted[j].kind = "name" /\ emitted[j].index = i

\* The model server: texts and calls, then a reason, then the usage.  Some say
\* "stop" after calls.
Emit ==
    /\ Len(emitted) < MaxEvents /\ ~Over
    /\ LET n == Len(emitted) + 1 IN
       \E e \in {Text(n), Usage(n)} \cup {Naming(i, n) : i \in Indices}
                \cup {Argument(i, n) : i \in Indices} \cup {Finish(r, n) : r \in Reasons} :
          /\ (e.kind = "usage") = Finished
          /\ e.kind = "name" => ~Named(e.index)
          /\ e.kind = "args" => Named(e.index)
          /\ e.kind = "tool_calls" => \E i \in Indices : Named(i)
          /\ emitted' = Append(emitted, e)
    /\ UNCHANGED <<arrived, torn, calls, received, bytes, kept>>
-----------------------------------------------------------------------------
(* translate_openai_sse_chunk_to_gemini, a fold over the lines of a chunk    *)
(* with the stream's state and the output.                                   *)

NoCall == [name |-> 0, args |-> <<>>]
NoCalls == [i \in Indices |-> NoCall]

Ascending(indices) == Keep([k \in 1..(LastIndex + 1) |-> k - 1], indices)

\* _flush_buffered_tool_calls: in order of index, without those that have no name.
Flush(buffered) ==
    LET named == Ascending({i \in Indices : buffered[i].name # 0})
    IN  [k \in DOMAIN named |-> buffered[named[k]]]

\* What the client reads: a text, calls with how the reply ends, or the usage.
Out(kind, n, functions) == [kind |-> kind, n |-> n, calls |-> functions]

\* _process_single_sse_payload
Translate(acc, e) ==
    CASE e.kind = "text" -> [acc EXCEPT !.out = Append(@, Out("text", e.n, <<>>))]
      [] e.kind = "name" -> [acc EXCEPT !.calls[e.index].name = e.n]
      [] e.kind = "args" -> [acc EXCEPT !.calls[e.index].args = Append(@, e.n)]
      [] e.kind = "tool_calls" -> [calls |-> NoCalls,
                                   out   |-> Append(acc.out, Out("STOP", e.n, Flush(acc.calls)))]
      [] e.kind = "stop" -> [acc EXCEPT !.out = Append(@, Out("STOP", e.n, <<>>))]
      [] e.kind = "length" -> [acc EXCEPT !.out = Append(@, Out("MAX_TOKENS", e.n, <<>>))]
      [] e.kind = "usage" -> [acc EXCEPT !.out = Append(@, Out("usage", e.n, <<>>))]

\* The lines of a chunk, one after the other, from the stream's state.
TranslateLines(whole, begun) ==
    LET after[n \in 0..Len(whole)] ==
            IF n = 0 THEN [calls |-> begun, out |-> <<>>] ELSE Translate(after[n - 1], whole[n])
    IN  after[Len(whole)]

\* A line that does not parse, being the end or the start of one, is passed over.
Parsed(events, cutFirst, cutLast) ==
    SubSeq(events, IF cutFirst THEN 2 ELSE 1, Len(events) - (IF cutLast THEN 1 ELSE 0))

\* Mutant: each chunk has a stream state of its own.
MutantTranslateChunk(events, cutFirst, cutLast) ==
    TranslateLines(Parsed(events, cutFirst, cutLast), NoCalls)

TranslateChunk(events, cutFirst, cutLast) == TranslateLines(Parsed(events, cutFirst, cutLast), calls)

\* Mutant: only what is kept is counted.
MutantTap(out) ==
    /\ received' = received \o out
    /\ bytes' = IF bytes + Len(out) <= BufferLimit THEN bytes + Len(out) ELSE bytes
    /\ kept' = IF bytes + Len(out) <= BufferLimit THEN Append(kept, out) ELSE kept

\* sse_stream_wrapper
Tap(out) ==
    /\ received' = received \o out
    /\ bytes' = bytes + Len(out)
    /\ kept' = IF bytes' <= BufferLimit THEN Append(kept, out) ELSE kept

\* The network delivers events up to `last`, cutting the last or not.
Deliver(last, cut) ==
    /\ last \in (arrived + 1)..Len(emitted) /\ last <= arrived + MaxChunk
    /\ LET begun  == arrived \in torn       \* the rest of a cut event comes first
           from   == IF begun THEN arrived ELSE arrived + 1
           result == TranslateChunk(SubSeq(emitted, from, last), begun, cut)
       IN  Tap(result.out) /\ calls' = result.calls
    /\ arrived' = last
    /\ torn' = IF cut THEN torn \cup {last} ELSE torn
    /\ UNCHANGED emitted

BridgeInit ==
    /\ emitted = <<>> /\ arrived = 0 /\ torn = {}
    /\ calls = NoCalls /\ received = <<>> /\ bytes = 0 /\ kept = <<>>

BridgeNext == Emit \/ \E last \in 1..MaxEvents, cut \in BOOLEAN : Deliver(last, cut)
BridgeSpec == BridgeInit /\ [][BridgeNext]_bridgeVars
-----------------------------------------------------------------------------
(* Properties. *)

\* The events of some kinds, numbers and positions.
Events(kinds, numbers, indices) == [kind : kinds, n : numbers, index : indices]
Kinds == {"text", "name", "args", "usage"} \cup Reasons

Delivered == SubSeq(emitted, 1, arrived)
Whole == Keep(Delivered, Events(Kinds, Nat \ torn, Nat))
NumbersOf(events) == [i \in DOMAIN events |-> events[i].n]

\* The calls the model server made, complete, by index.
Pieces(events, i, kind) == Keep(events, Events({kind}, Nat, {i}))
Made ==
    LET named == Ascending({i \in Indices : Named(i)})
    IN  [k \in DOMAIN named |-> [name |-> Pieces(emitted, named[k], "name")[1].n,
                                 args |-> NumbersOf(Pieces(emitted, named[k], "args"))]]

(* However the network cuts the stream, the client gets the texts that came  *)
(* whole, each once and in order, and never one twice or half of one         *)
(* (translation.py:416-433).  A cut one is lost.                             *)
TextsInOrder ==
    NumbersOf(Keep(received, [kind : {"text"}, n : Nat, calls : {<<>>}]))
        = NumbersOf(Keep(Whole, Events({"text"}, Nat, Nat)))

(* A stream no event of which was cut is delivered as it was made: when the  *)
(* client is told that the reply ends in tool calls it has all of them, in   *)
(* order, each with its whole arguments, and none is left behind for another *)
(* reply (translation.py:298-334).                                           *)
UncutCallsAreComplete ==
    torn = {} => \A i \in DOMAIN received :
        LET cause == emitted[received[i].n] IN
        cause.kind = "tool_calls" => received[i].calls = Made /\ calls = NoCalls

(* However the stream is cut, a call reaches the client with the name and    *)
(* pieces of arguments of one call of the model server, in order, never with *)
(* those of two.                                                             *)
CallsAreNotMixed ==
    \A i \in DOMAIN received : \A k \in DOMAIN received[i].calls :
        \E m \in DOMAIN Made :
            /\ received[i].calls[k].name = Made[m].name
            /\ received[i].calls[k].args = Keep(Made[m].args, (1..arrived) \ torn)

(* However the network cuts the stream, the client gets its whole texts in   *)
(* order, no call made of two, and every call complete if nothing was cut    *)
(* (translation.py:298-433).                                                 *)
StreamIsFaithful == TextsInOrder /\ UncutCallsAreComplete /\ CallsAreNotMixed

(* What the response hook accounts is the start of what the client got, a    *)
(* whole number of chunks, and at most the limit (sse_tap.py:59-61): once a  *)
(* chunk did not fit, no later one is kept.                                  *)
KeptIsPrefix ==
    /\ IsPrefix(FlattenSeq(kept), received)
    /\ Len(FlattenSeq(kept)) <= BufferLimit
    /\ bytes = Len(received)
    /\ bytes <= BufferLimit => FlattenSeq(kept) = received
=============================================================================
