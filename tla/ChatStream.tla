---------------------------- MODULE ChatStream ----------------------------
(***************************************************************************)
(* POST /chat (app/api/routes.py): the handler, the SSE generator on the   *)
(* event loop, the answering graph in a thread of a fixed pool, and the    *)
(* session the exchange is saved to.                                       *)
(*                                                                         *)
(* The generator and the thread meet only in a queue that the thread fills *)
(* through loop.call_soon_threadsafe. Between two awaits the loop runs one *)
(* coroutine: every action below but the threads' is such a section. The   *)
(* client may leave whenever the generator is suspended; the thread is not *)
(* told. Database calls may raise, and the process may die.                *)
(*                                                                         *)
(* One logged-in user and guests: what a session shows to another user is  *)
(* decided by the owner check of load_session_messages and left out here.  *)
(***************************************************************************)
EXTENDS Naturals, Sequences, FiniteSets

CONSTANTS
    Requests,     \* calls of POST /chat, numbered as they arrive; a session has
                  \* the number of the call that created it
    Threads,      \* app.state.executor: four of them (main.py:68)
    None,         \* no session (a guest), no job (an idle thread)
    MaxContext,   \* messages of the session given to the answerer (six)
    MaxHistory,   \* guest questions kept in memory (two hundred)
    MaxTokens,    \* bound on the text pieces of one answer
    MaxFaults,    \* bound on database calls that raise
    MaxCrashes    \* bound on deaths of the process

ASSUME RequestAssumption == Requests \subseteq Nat /\ None \notin Requests
ASSUME BoundAssumption ==
    /\ MaxContext \in Nat /\ MaxHistory \in Nat \ {0}
    /\ MaxTokens \in Nat /\ MaxFaults \in Nat /\ MaxCrashes \in Nat

VARIABLES
    stream,       \* [Requests -> what the generator does when it runs next]
    sess,         \* [Requests -> Requests \cup {None}]  session_id
    context,      \* [Requests -> Seq(message)]  history given to the graph
    frames,       \* [Requests -> Seq(frame)]    what was sent
    queue,        \* [Requests -> Seq(item)]     the asyncio.Queue
    graph,        \* [Requests -> position of run_graph]
    said,         \* [Requests -> Nat]  pieces the answerer has produced
    backlog,      \* Seq(Requests)      jobs the pool has not started
    job,          \* [Threads -> Requests \cup {None}]
    sink,         \* [Threads -> Requests \cup {None}]  the ContextVar
    sessions,     \* table chat_sessions
    msgs,         \* [Requests -> Seq(message)]  chat_messages, by session
    mem,          \* Seq(Requests)      app.state.history
    faults, crashes

loopVars   == <<stream, sess, context, frames>>
threadVars == <<graph, said, job, sink>>
tableVars  == <<sessions, msgs>>
vars == <<loopVars, queue, threadVars, backlog, tableVars, mem, faults, crashes>>

\* What the thread puts and what the client gets; n numbers the pieces of one
\* answer, and of is the question they belong to.
Token(r, n) == [kind |-> "token", of |-> r, n |-> n]
Plain(k, r) == [kind |-> k, of |-> r, n |-> 0]
Message(role, r) == [role |-> role, of |-> r]

Results  == {"answer", "refusal", "error"}
Progress == <<"rewriting", "searching", "verifying">>
Stages   == {"rewriting", "searching", "verifying", "token", "refusing",
             "answering", "done", "error"}
Item     == [kind : {"token"} \cup Results, of : Requests, n : Nat]
Frame    == [kind : Stages, of : Requests, n : Nat]
Messages == [role : {"user", "assistant"}, of : Requests]
\* The generator is suspended in one of these, waiting to go on.
Live     == {"begin", "consume", "finish", "save"}

TypeOK ==
    /\ stream \in [Requests -> Live \cup {"idle", "refused", "missing", "ended", "gone"}]
    /\ sess \in [Requests -> Requests \cup {None}]
    /\ context \in [Requests -> Seq(Messages)]
    /\ \A r \in Requests : Len(context[r]) <= MaxContext
    /\ frames \in [Requests -> Seq(Frame)]
    /\ queue \in [Requests -> Seq(Item)]
    /\ graph \in [Requests -> {"none", "queued", "running", "over"}]
    /\ said \in [Requests -> 0..MaxTokens]
    /\ backlog \in Seq(Requests)
    /\ job \in [Threads -> Requests \cup {None}]
    /\ sink \in [Threads -> Requests \cup {None}]
    /\ sessions \subseteq Requests
    /\ msgs \in [Requests -> Seq(Messages)]
    /\ mem \in Seq(Requests) /\ Len(mem) <= MaxHistory
    /\ faults \in Nat /\ crashes \in Nat
-----------------------------------------------------------------------------
Init ==
    /\ stream = [r \in Requests |-> "idle"]
    /\ sess = [r \in Requests |-> None]
    /\ context = [r \in Requests |-> <<>>]
    /\ frames = [r \in Requests |-> <<>>]
    /\ queue = [r \in Requests |-> <<>>]
    /\ graph = [r \in Requests |-> "none"]
    /\ said = [r \in Requests |-> 0]
    /\ backlog = <<>>
    /\ job = [w \in Threads |-> None]
    /\ sink = [w \in Threads |-> None]
    /\ sessions = {}
    /\ msgs = [r \in Requests |-> <<>>]
    /\ mem = <<>>
    /\ faults = 0 /\ crashes = 0

Arrives(r) == stream[r] = "idle" /\ \A q \in Requests : q < r => stream[q] # "idle"

Goto(r, label) == stream' = [stream EXCEPT ![r] = label]

\* The last n elements of s: s[-n:].
Recent(s, n) == SubSeq(s, IF Len(s) > n THEN Len(s) - n + 1 ELSE 1, Len(s))
-----------------------------------------------------------------------------
(* The handler: no await, so its database calls and its choice of session  *)
(* are one section of the loop.                                            *)

\* Mutant: the oldest question is not dropped.
AskGuestUnbounded(r) ==
    /\ Arrives(r)
    /\ Goto(r, "begin")
    /\ mem' = Append(mem, r)
    /\ UNCHANGED <<sess, context, frames, queue, threadVars, backlog, tableVars,
                   faults, crashes>>

\* A guest asks: no session, and the question is kept in memory.
AskGuest(r) ==
    /\ Arrives(r)
    /\ Goto(r, "begin")
    /\ mem' = Recent(Append(mem, r), MaxHistory)
    /\ UNCHANGED <<sess, context, frames, queue, threadVars, backlog, tableVars,
                   faults, crashes>>

\* Without session_id a session is created before anything is answered.
AskNew(r) ==
    /\ Arrives(r)
    /\ Goto(r, "begin")
    /\ sess' = [sess EXCEPT ![r] = r]
    /\ sessions' = sessions \cup {r}
    /\ UNCHANGED <<context, frames, queue, threadVars, backlog, msgs, mem, faults, crashes>>

\* With session_id the session's last messages become the context ...
AskResume(r, s) ==
    /\ Arrives(r)
    /\ s \in sessions
    /\ msgs[s] # <<>>
    /\ Goto(r, "begin")
    /\ sess' = [sess EXCEPT ![r] = s]
    /\ context' = [context EXCEPT ![r] = Recent(msgs[s], MaxContext)]
    /\ UNCHANGED <<frames, queue, threadVars, backlog, tableVars, mem, faults, crashes>>

\* ... and 404 answers when there are none, as if the session did not exist.
AskMissing(r, s) ==
    /\ Arrives(r)
    /\ s \in sessions
    /\ msgs[s] = <<>>
    /\ Goto(r, "missing")
    /\ sess' = [sess EXCEPT ![r] = s]
    /\ UNCHANGED <<context, frames, queue, threadVars, backlog, tableVars, mem,
                   faults, crashes>>

\* 404 on a knowledge base that is not visible.
AskRefused(r) ==
    /\ Arrives(r)
    /\ Goto(r, "refused")
    /\ UNCHANGED <<sess, context, frames, queue, threadVars, backlog, tableVars,
                   mem, faults, crashes>>

\* A database call of the handler raises: 500, and nothing was written, since
\* the INSERT of create_session is the last of them.
AskFault(r) ==
    /\ Arrives(r)
    /\ faults < MaxFaults
    /\ faults' = faults + 1
    /\ Goto(r, "refused")
    /\ UNCHANGED <<sess, context, frames, queue, threadVars, backlog, tableVars,
                   mem, crashes>>
-----------------------------------------------------------------------------
(* The generator, one yield or one queue.get() at a time.                  *)

Send(r, f) == frames' = [frames EXCEPT ![r] = Append(@, f)]

\* The three frames of progress, then run_in_executor: the job waits in the
\* pool's FIFO for a thread. A client that leaves between the frames leaves the
\* same behind as one that leaves before them.
Begin(r) ==
    /\ stream[r] = "begin"
    /\ frames' = [frames EXCEPT ![r] = [i \in 1..3 |-> Plain(Progress[i], r)]]
    /\ Goto(r, "consume")
    /\ graph' = [graph EXCEPT ![r] = "queued"]
    /\ backlog' = Append(backlog, r)
    /\ UNCHANGED <<sess, context, queue, said, job, sink, tableVars, mem, faults, crashes>>

Get(r, kind) ==
    /\ stream[r] = "consume"
    /\ queue[r] # <<>>
    /\ Head(queue[r]).kind = kind
    /\ queue' = [queue EXCEPT ![r] = Tail(@)]

TokenFrame(r) ==
    /\ Get(r, "token")
    /\ Send(r, Head(queue[r]))
    /\ UNCHANGED <<stream, sess, context, threadVars, backlog, tableVars, mem,
                   faults, crashes>>

ErrorFrame(r) ==
    /\ Get(r, "error")
    /\ Send(r, Plain("error", r))
    /\ Goto(r, "ended")
    /\ UNCHANGED <<sess, context, threadVars, backlog, tableVars, mem, faults, crashes>>

\* A refusal is announced; an answer only if none of it was streamed.
RefusalFrame(r) ==
    /\ Get(r, "refusal")
    /\ Send(r, Plain("refusing", r))
    /\ Goto(r, "finish")
    /\ UNCHANGED <<sess, context, threadVars, backlog, tableVars, mem, faults, crashes>>

Streamed(r) == Len(frames[r]) > 3

\* Mutant: the transitional frame also after streamed text.
AnswerFrameAlways(r) ==
    /\ Get(r, "answer")
    /\ Send(r, Plain("answering", r)) /\ Goto(r, "finish")
    /\ UNCHANGED <<sess, context, threadVars, backlog, tableVars, mem, faults, crashes>>

AnswerFrame(r) ==
    /\ Get(r, "answer")
    /\ IF Streamed(r)
       THEN Send(r, Plain("done", r)) /\ Goto(r, "save")
       ELSE Send(r, Plain("answering", r)) /\ Goto(r, "finish")
    /\ UNCHANGED <<sess, context, threadVars, backlog, tableVars, mem, faults, crashes>>

DoneFrame(r) ==
    /\ stream[r] = "finish"
    /\ Send(r, Plain("done", r))
    /\ Goto(r, "save")
    /\ UNCHANGED <<sess, context, queue, threadVars, backlog, tableVars, mem,
                   faults, crashes>>

Add(s, new) == msgs' = [msgs EXCEPT ![s] = @ \o new]
Exchange(r) == <<Message("user", r), Message("assistant", r)>>

\* Mutant: the two messages are written with an await between them.
SaveAwaiting(r) ==
    /\ stream[r] = "save"
    /\ IF sess[r] # None /\ Message("user", r) \notin {msgs[sess[r]][i] : i \in DOMAIN msgs[sess[r]]}
       THEN Add(sess[r], <<Message("user", r)>>) /\ UNCHANGED stream
       ELSE /\ Goto(r, "ended")
            /\ IF sess[r] # None THEN Add(sess[r], <<Message("assistant", r)>>)
                                 ELSE UNCHANGED msgs
    /\ UNCHANGED <<sess, context, frames, queue, threadVars, backlog, sessions, mem,
                   faults, crashes>>

\* Resumed after the done frame, the generator writes the two messages, two
\* transactions with no await between them, and ends.
Save(r) ==
    /\ stream[r] = "save"
    /\ Goto(r, "ended")
    /\ IF sess[r] = None THEN UNCHANGED msgs ELSE Add(sess[r], Exchange(r))
    /\ UNCHANGED <<sess, context, frames, queue, threadVars, backlog, sessions, mem,
                   faults, crashes>>

\* The first or the second of them raises, and the exception is dropped.
SaveFault(r) ==
    /\ stream[r] = "save"
    /\ sess[r] # None
    /\ faults < MaxFaults
    /\ faults' = faults + 1
    /\ Goto(r, "ended")
    /\ UNCHANGED msgs \/ Add(sess[r], <<Message("user", r)>>)
    /\ UNCHANGED <<sess, context, frames, queue, threadVars, backlog, sessions, mem, crashes>>

\* Mutant: what was asked is saved in a `finally` clause.
DisconnectSaving(r) ==
    /\ stream[r] \in Live
    /\ Goto(r, "gone")
    /\ IF sess[r] = None THEN UNCHANGED msgs ELSE Add(sess[r], Exchange(r))
    /\ UNCHANGED <<sess, context, frames, queue, threadVars, backlog, sessions,
                   mem, faults, crashes>>

\* The client leaves: the suspended generator is cancelled or closed, by an
\* exception that `except Exception` does not catch. The thread is not told.
Disconnect(r) ==
    /\ stream[r] \in Live
    /\ Goto(r, "gone")
    /\ UNCHANGED <<sess, context, frames, queue, threadVars, backlog, tableVars,
                   mem, faults, crashes>>
-----------------------------------------------------------------------------
(* run_graph in a thread of the pool.                                      *)

Put(r, item) == queue' = [queue EXCEPT ![r] = Append(@, item)]

\* Mutant: the receiver is kept in a variable of the module.
StartJobShared(w) ==
    /\ job[w] = None
    /\ backlog # <<>>
    /\ backlog' = Tail(backlog)
    /\ job' = [job EXCEPT ![w] = Head(backlog)]
    /\ sink' = [v \in Threads |-> Head(backlog)]
    /\ graph' = [graph EXCEPT ![Head(backlog)] = "running"]
    /\ UNCHANGED <<loopVars, queue, said, tableVars, mem, faults, crashes>>

\* answer_sink_set in the thread that takes the job.
StartJob(w) ==
    /\ job[w] = None
    /\ backlog # <<>>
    /\ backlog' = Tail(backlog)
    /\ job' = [job EXCEPT ![w] = Head(backlog)]
    /\ sink' = [sink EXCEPT ![w] = Head(backlog)]
    /\ graph' = [graph EXCEPT ![Head(backlog)] = "running"]
    /\ UNCHANGED <<loopVars, queue, said, tableVars, mem, faults, crashes>>

\* The answer node calls the receiver of its thread with a piece of text.
Say(w) ==
    /\ job[w] # None
    /\ said[job[w]] < MaxTokens
    /\ said' = [said EXCEPT ![job[w]] = @ + 1]
    /\ Put(sink[w], Token(job[w], said'[job[w]]))
    /\ UNCHANGED <<loopVars, graph, job, sink, backlog, tableVars, mem, faults, crashes>>

\* Mutant: a graph that raises puts nothing.
FinishSilent(w, result) ==
    /\ job[w] # None
    /\ result = "refusal" => said[job[w]] = 0
    /\ graph' = [graph EXCEPT ![job[w]] = "over"]
    /\ IF result = "error" THEN UNCHANGED queue ELSE Put(job[w], Plain(result, job[w]))
    /\ job' = [job EXCEPT ![w] = None]
    /\ sink' = [sink EXCEPT ![w] = None]
    /\ UNCHANGED <<loopVars, said, backlog, tableVars, mem, faults, crashes>>

\* invoke returns an answer or, from the refusing branch, which produces no
\* pieces, a refusal; or it raises. The receiver is reset, the thread is free.
Finish(w, result) ==
    /\ job[w] # None
    /\ result = "refusal" => said[job[w]] = 0
    /\ graph' = [graph EXCEPT ![job[w]] = "over"]
    /\ Put(job[w], Plain(result, job[w]))
    /\ job' = [job EXCEPT ![w] = None]
    /\ sink' = [sink EXCEPT ![w] = None]
    /\ UNCHANGED <<loopVars, said, backlog, tableVars, mem, faults, crashes>>
-----------------------------------------------------------------------------
\* The process dies and is started again: what was saved stays, the rest is
\* gone. It may die between the two transactions of a save.
Crash ==
    /\ crashes < MaxCrashes
    /\ crashes' = crashes + 1
    /\ stream' = [r \in Requests |-> IF stream[r] \in Live THEN "gone" ELSE stream[r]]
    /\ queue' = [r \in Requests |-> <<>>]
    /\ graph' = [r \in Requests |-> IF graph[r] = "none" THEN "none" ELSE "over"]
    /\ backlog' = <<>>
    /\ job' = [w \in Threads |-> None]
    /\ sink' = [w \in Threads |-> None]
    /\ mem' = <<>>
    /\ \/ UNCHANGED msgs
       \/ \E r \in Requests : stream[r] = "save" /\ sess[r] # None
                              /\ Add(sess[r], <<Message("user", r)>>)
    /\ UNCHANGED <<sess, context, frames, said, sessions, faults>>
-----------------------------------------------------------------------------
Ask(r) ==
    \/ AskGuest(r) \/ AskNew(r) \/ AskRefused(r) \/ AskFault(r)
    \/ \E s \in Requests : AskResume(r, s) \/ AskMissing(r, s)

\* What the event loop does for r without being asked again.
Generate(r) ==
    \/ Begin(r) \/ TokenFrame(r) \/ ErrorFrame(r) \/ RefusalFrame(r) \/ AnswerFrame(r)
    \/ DoneFrame(r) \/ Save(r)

Run(w) == StartJob(w) \/ Say(w) \/ \E result \in Results : Finish(w, result)

Next ==
    \/ \E r \in Requests : Ask(r) \/ Generate(r) \/ SaveFault(r) \/ Disconnect(r)
    \/ \E w \in Threads : Run(w)
    \/ Crash

Spec == Init /\ [][Next]_vars

\* The loop resumes a coroutine that is ready. A thread runs on, and each call
\* the graph makes to a model, the embedder or the database has a time-out, so
\* it ends. When questions are asked, and by whom, is not fair.
Fairness ==
    /\ \A r \in Requests : WF_vars(Generate(r))
    /\ \A w \in Threads : WF_vars(Run(w))

FairSpec == Spec /\ Fairness
-----------------------------------------------------------------------------
Answered(r) == frames[r] # <<>> /\ frames[r][Len(frames[r])].kind = "done"

Ordered(r) ==
    \A i \in DOMAIN frames[r] :
        LET kind == frames[r][i].kind IN
        /\ IF i <= 3 THEN kind = Progress[i] ELSE kind \notin {Progress[j] : j \in 1..3}
        /\ kind \in {"refusing", "answering"} => i = 4
        /\ kind \in {"done", "error"} => i = Len(frames[r])

\* The client can follow the stages: the three of progress, then text, or one
\* announcement in its place, then one final frame and nothing after it, with
\* whatever error, refusal or empty stream the thread comes up with
\* (routes.py:106-107, docs/decisions/07, section 3.1).
FrameOrder == \A r \in Requests : Ordered(r)

Whole(r) ==
    /\ \A i \in DOMAIN frames[r] :
          frames[r][i].kind = "token" => frames[r][i] = Token(r, i - 3)
    /\ Answered(r) => \A n \in 1..said[r] :
          3 + n \in DOMAIN frames[r] /\ frames[r][3 + n] = Token(r, n)

\* The text a client puts together is the text of its own answer: every piece
\* once and in order, of no other question although threads are reused, and
\* all of them before the final frame (routes.py:106-107, protocol.py:26-28).
TokensWhole == \A r \in Requests : Whole(r)

\* In every session an answer stands directly after its own question, and each
\* is there once, although several requests of one session may be answered at
\* the same time: the context built from it is a conversation
\* (routes.py:172-181, docs/decisions/10, section 5.5).
ExchangesPaired ==
    \A s \in Requests : \A i \in DOMAIN msgs[s] :
        /\ msgs[s][i].role = "assistant" =>
               i > 1 /\ msgs[s][i - 1] = Message("user", msgs[s][i].of)
        /\ \A j \in DOMAIN msgs[s] : msgs[s][i] = msgs[s][j] => i = j

\* The history and the streams agree: a session holds nothing of a request
\* that was not answered in it; and an answer whose stream came to its end is
\* in its session unless a database call raised (docs/decisions/10:10).
HistoryMatchesStreams ==
    \A r \in Requests :
        /\ \A s \in Requests : \A i \in DOMAIN msgs[s] :
               msgs[s][i].of = r => sess[r] = s /\ Answered(r)
        /\ stream[r] = "ended" /\ Answered(r) /\ sess[r] # None /\ faults = 0 =>
               \A role \in {"user", "assistant"} :
                   \E i \in DOMAIN msgs[sess[r]] : msgs[sess[r]][i] = Message(role, r)
-----------------------------------------------------------------------------
\* No request is left waiting: its stream comes to a final frame unless its
\* client leaves or the process dies, although there are more requests than
\* threads and the graphs of clients that left go on (routes.py:109-112).
EveryStreamEnds == \A r \in Requests : stream[r] \in Live ~> stream[r] \notin Live
=============================================================================
