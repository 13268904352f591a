----------------------------- MODULE Question -----------------------------
(***************************************************************************)
(* One question through the agent graph (app/agent/graph.py): rewrite,      *)
(* retrieve (the search of module Search), verify, then answer or refuse;   *)
(* the answer comes from a template or from a language model that may call  *)
(* tools for some rounds (app/agent/protocol.py).                           *)
(*                                                                         *)
(* A text is a sequence of pieces: words, words of the conversation so far, *)
(* and the marks [1], [2], ... that cite a source. What the model replies   *)
(* is arbitrary. A streamed reply comes in deltas, a tool call as pieces    *)
(* of its name and of its arguments.                                        *)
(***************************************************************************)
EXTENDS Search

CONSTANTS
    Modes,        \* of answering: "template", "sync", "stream" (somebody takes the tokens)
    Words,        \* the pieces of texts, and the ids and slots of calls
    Mark,         \* Mark[i] is the piece [i] that cites the i-th source
    MaxRounds,    \* requests to the model
    KeptTurns,    \* turns of the conversation that are sent: 6
    Histories,    \* conversations so far, sequences of [role, content]
    Said, Calls,  \* texts and tool calls of a reply that comes whole
    Deltas,       \* of a streamed reply: content, or a piece of a call for a slot
    MaxParts      \* bound: calls of a reply, deltas of a streamed one

Pieces == Seq(Words)

ASSUME WordsAssumption ==
    {"", "question", "cannot compute", "no conclusion", "error", "not registered", "result"}
        \subseteq Words
ASSUME RoundsAssumption == {MaxRounds, KeptTurns} \subseteq Nat \ {0} /\ MaxParts \in Nat
ASSUME MarkAssumption ==
    /\ Mark \in Pieces /\ IsInjective(Mark) /\ TopK <= Len(Mark)
    /\ ToSet(Mark) \cap {"cannot compute", "no conclusion"} = {}
ASSUME HistoriesAssumption ==
    Histories \subseteq Seq([role : {"user", "assistant"}, content : Pieces])
ASSUME RepliesAssumption ==
    /\ Said \subseteq Pieces
    /\ Calls \subseteq [id : Words, name : Pieces, args : Pieces]
    /\ Deltas \subseteq [content : Pieces, slot : Words, calls : Seq([name : Pieces, args : Pieces])]

VARIABLES
    mode,       \* how this question is answered
    phase,      \* the node of the graph that runs
    history,    \* AgentState.history
    cited,      \* AgentState.hits
    messages,   \* what the model is sent, after the system prompt
    replies,    \* auxiliary: the texts of its replies so far, one a round
    streamed,   \* what was handed to on_token
    answer      \* AgentAnswer

graph == <<mode, phase, history, cited, messages, replies, streamed, answer>>
vars == <<rows, drawn, search, graph>>

Blank    == <<>>
Sorry    == <<"cannot compute">>
Refusal  == <<"no conclusion">>
Asked    == <<"question">>
NoAnswer == [refuse |-> FALSE, text |-> Blank, citations |-> <<>>]

Message(role, content, calls, id) ==
    [role |-> role, content |-> content, calls |-> calls, id |-> id]

\* Mutant: the first mark beyond the sources is kept.
ScrubLate(text, n) == Selected(text, LAMBDA p : \A i \in DOMAIN Mark : p = Mark[i] => i <= n + 1)

\* scrub_citation_markers
Scrub(text, n) == Selected(text, LAMBDA p : \A i \in DOMAIN Mark : p = Mark[i] => i <= n)

\* The last turns of the conversation, but for those that say nothing.
Kept(turns) ==
    LET n == Len(turns)
        tail == SubSeq(turns, IF n > KeptTurns THEN n - KeptTurns + 1 ELSE 1, n)
        spoken == Selected(tail, LAMBDA t : t.content # Blank)
    IN  [i \in DOMAIN spoken |-> Message(spoken[i].role, spoken[i].content, <<>>, "")]

Parses(call) == call.args = <<"{", "}">>

\* ToolRegistry.call: an unknown name is a KeyError, raised after the arguments
\* were parsed; any other exception becomes an error result.
Outcome(call) ==
    CASE ~Parses(call) -> "error"
      [] Parses(call) /\ call.name # <<"calculate">> -> "not registered"
      [] OTHER -> "result"

\* Mutant: a call of an unknown tool gets no result.
ResultsOfKnown(calls) ==
    LET known == Selected(calls, LAMBDA c : Outcome(c) # "not registered")
    IN  [i \in DOMAIN known |-> Message("tool", <<Outcome(known[i])>>, <<>>, known[i].id)]

Results(calls) ==
    [i \in DOMAIN calls |-> Message("tool", <<Outcome(calls[i])>>, <<>>, calls[i].id)]

\* A streamed reply: its content, and its calls put together slot by slot.
Content(ds) == FlattenSeq([i \in DOMAIN ds |-> ds[i].content])
Assembled(ds) ==
    LET parts == Selected(ds, LAMBDA d : d.calls # <<>>)
        opening == Selected([i \in DOMAIN parts |-> i],
                            LAMBDA i : \A j \in 1..(i - 1) : parts[j].slot # parts[i].slot)
        slots == [k \in DOMAIN opening |-> parts[opening[k]].slot]
        of(slot) == Selected(parts, LAMBDA d : d.slot = slot)
        joined(slot, field) == FlattenSeq([i \in DOMAIN of(slot) |-> of(slot)[i].calls[1][field]])
    IN  [k \in DOMAIN slots |-> [id |-> slots[k], name |-> joined(slots[k], "name"),
                                 args |-> joined(slots[k], "args")]]
-----------------------------------------------------------------------------
Init ==
    /\ SearchInit
    /\ phase = "rewrite"
    /\ mode \in Modes
    /\ history \in Histories
    /\ cited = <<>> /\ messages = <<>> /\ replies = <<>> /\ streamed = <<>>
    /\ answer = NoAnswer

Goto(here, there) == phase = here /\ phase' = there

Rewrite ==
    /\ Goto("rewrite", "retrieve")
    /\ UNCHANGED <<rows, drawn, search, mode, history, cited, messages, replies, streamed, answer>>

\* The local variables of search() are gone.
Forget ==
    /\ step' = "snapshot" /\ entry' = {} /\ hits' = <<>>
    /\ lanes' = [vector |-> <<>>, bm25 |-> <<>>]

Retrieve ==
    /\ step = "found"
    /\ Goto("retrieve", "verify")
    /\ cited' = hits
    /\ Forget
    /\ UNCHANGED <<rows, drawn, mode, history, messages, replies, streamed, answer>>

Finish(refuse, text, citations) ==
    /\ phase' = "done"
    /\ answer' = [refuse |-> refuse, text |-> text, citations |-> citations]

\* verify_mode is "pass": any hit supports an answer.
Refuse ==
    /\ phase = "verify" /\ cited = <<>>
    /\ Finish(TRUE, Refusal, <<>>)
    /\ UNCHANGED <<rows, drawn, search, mode, history, cited, messages, replies, streamed>>

Template ==
    /\ mode = "template"
    /\ phase = "verify" /\ cited # <<>>
    /\ Finish(FALSE, [i \in DOMAIN cited |-> Mark[i]], cited)
    /\ UNCHANGED <<rows, drawn, search, mode, history, cited, messages, replies, streamed>>

Ask ==
    /\ mode # "template"
    /\ cited # <<>>
    /\ Goto("verify", "ask")
    /\ messages' = Append(Kept(history), Message("user", Asked, <<>>, ""))
    /\ UNCHANGED <<rows, drawn, search, mode, history, cited, replies, streamed, answer>>

\* One round: a reply without calls is the answer, the calls of any other are
\* executed and their results sent with the next request.
Reply(content, calls) ==
    /\ phase = "ask" /\ Len(replies) < MaxRounds
    /\ replies' = Append(replies, content)
    /\ \/ /\ calls = <<>>
          /\ Finish(FALSE, Scrub(content, Len(cited)), cited)
          /\ UNCHANGED messages
       \/ /\ calls # <<>>
          /\ messages' = Append(messages, Message("assistant", content, calls, "")) \o Results(calls)
          /\ UNCHANGED <<phase, answer>>
    /\ UNCHANGED <<rows, drawn, search, mode, history, cited>>

\* Arguments that are not JSON raise out of the loop (Raise).
ReplyWhole ==
    /\ mode = "sync"
    /\ \E content \in Said, calls \in BoundedSeq(Calls, MaxParts) :
           /\ \A i \in DOMAIN calls : Parses(calls[i])
           /\ Reply(content, calls)
    /\ UNCHANGED streamed

\* The reply is what arrived before the stream ended: nobody waits for [DONE].
ReplyStreamed ==
    /\ mode = "stream"
    /\ \E ds \in BoundedSeq(Deltas, MaxParts) :
           /\ Reply(Content(ds), Assembled(ds))
           /\ streamed' = streamed \o Content(ds)

\* What an assistant said, in the turns of the conversation so far too.
Recorded(ms) == Selected(ms, LAMBDA m : m.role = "assistant" /\ m.content # Blank)

\* Mutant: the messages are scanned from the first.
ExhaustedForward == IF Recorded(messages) = <<>> THEN Sorry ELSE Head(Recorded(messages)).content

Exhausted == IF Recorded(messages) = <<>> THEN Sorry ELSE Last(Recorded(messages)).content

GiveUp ==
    /\ phase = "ask" /\ Len(replies) = MaxRounds
    /\ Finish(FALSE, Scrub(Exhausted, Len(cited)), cited)
    /\ UNCHANGED <<rows, drawn, search, mode, history, cited, messages, replies, streamed>>

\* A query, an embedding, a request to the model or the handling of its reply raises.
Raise ==
    /\ phase \in {"retrieve"} \cup (IF mode = "template" THEN {} ELSE {"rewrite", "ask"})
    /\ phase' = "failed"
    /\ Forget /\ cited' = <<>> /\ messages' = <<>> /\ replies' = <<>>
    /\ UNCHANGED <<rows, drawn, mode, history, streamed, answer>>

Next ==
    \/ phase = "retrieve" /\ SearchNext /\ UNCHANGED graph
    \/ Rewrite \/ Retrieve \/ Refuse \/ Template \/ Ask
    \/ ReplyWhole \/ ReplyStreamed \/ GiveUp \/ Raise

Spec == Init /\ [][Next]_vars
-----------------------------------------------------------------------------
\* Whenever the model is asked, each call it has made is followed by its result,
\* in the order of the calls, and no result stands anywhere else, which is what
\* the interface demands (protocol.py:413-434 and 515-525).
ToolCallsAnswered ==
    phase = "ask" =>
        LET called(i) == Len(messages[i].calls)
            results(i) == SubSeq(messages, i + 1, i + called(i))
        IN  /\ \A i \in DOMAIN messages :
                   /\ i + called(i) <= Len(messages)
                   /\ \A k \in DOMAIN results(i) :
                          results(i)[k].role = "tool" /\ results(i)[k].id = messages[i].calls[k].id
            /\ \A j \in DOMAIN messages :
                   messages[j].role = "tool" => \E i \in 1..(j - 1) : j <= i + called(i)

Spoken(rs) == Selected(rs, LAMBDA r : r # Blank)

\* Once the model has said a word in this question, the answer is what it said last
\* in it and no turn of the conversation so far, or nothing where its last reply was
\* empty; and the browser was shown all that it said (protocol.py:436-440, 528-535).
AnswerIsLastSaid ==
    phase = "done" /\ replies # <<>> =>
        LET spoken == Spoken(replies)
        IN  /\ spoken # <<>> =>
                   \/ answer.text = Scrub(Last(spoken), Len(cited))
                   \/ answer.text = Blank /\ Last(replies) = Blank
            /\ mode = "stream" => streamed = FlattenSeq(replies)

\* Where the model never said a word in this question there is no answer but the fixed
\* apology or, from a last reply without calls, an empty one: "if there is no text in
\* the whole course, the fixed text is returned" (docs/decisions/06-tools.md:105).
SilentLoopApologises ==
    phase = "done" /\ replies # <<>> /\ Spoken(replies) = <<>> => answer.text \in {Blank, Sorry}

\* A mark in an answer has its citation, the citations are the hits in their
\* order, and an answer without citations is a refusal (protocol.py:102, nodes.py:72).
MarksCited ==
    phase = "done" =>
        /\ \A i \in DOMAIN Mark : Mark[i] \in ToSet(answer.text) => i <= Len(answer.citations)
        /\ answer.citations = cited
        /\ answer.refuse <=> cited = <<>>
=============================================================================
