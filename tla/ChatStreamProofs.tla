------------------------- MODULE ChatStreamProofs -------------------------
(***************************************************************************)
(* Theorems about ChatStream, for any number of requests, threads, pieces  *)
(* of text, faults and crashes. The invariant follows an answer from the   *)
(* thread to the client: what was sent, what waits in the queue and what   *)
(* the answerer has produced are one numbered sequence (Flow); and it      *)
(* remembers that a session holds messages of ended streams only, so that  *)
(* whoever saves finds none of its own there (SavedInv).                   *)
(***************************************************************************)
EXTENDS ChatStream, SequenceTheorems, TLAPS

\* A job is in the pool once, either waiting or with one thread, and the
\* receiver a thread has is that of its job.
JobInv ==
    /\ \A w \in Threads : job[w] # None =>
          graph[job[w]] = "running" /\ sink[w] = job[w]
    /\ \A v, w \in Threads : job[v] # None /\ job[v] = job[w] => v = w
    /\ \A i \in 1..Len(backlog) : graph[backlog[i]] = "queued"
    /\ \A i, j \in 1..Len(backlog) : backlog[i] = backlog[j] => i = j

\* The pieces in the frames f and in the queue q are, in order, the p pieces of
\* r that were produced; after the last there is one result, once the graph is over.
Flow(r, f, q, p, g) ==
    /\ Len(f) \in 3..(p + 3)
    /\ \A i \in 4..Len(f) : f[i] = Token(r, i - 3)
    /\ Len(q) = p + 3 - Len(f) + (IF g = "over" THEN 1 ELSE 0)
    /\ \A j \in 1..(p + 3 - Len(f)) : q[j] = Token(r, Len(f) - 3 + j)
    /\ g = "over" =>
          /\ q[Len(q)].kind \in Results
          /\ q[Len(q)].kind = "refusal" => p = 0

FlowOf(r) ==
    /\ graph[r] \in {"none", "queued"} => said[r] = 0
    /\ stream[r] \in {"idle", "begin", "refused", "missing"} =>
           frames[r] = <<>> /\ queue[r] = <<>> /\ graph[r] = "none"
    /\ stream[r] = "consume" =>
           /\ graph[r] \in {"queued", "running", "over"}
           /\ Flow(r, frames[r], queue[r], said[r], graph[r])
    /\ stream[r] = "finish" =>
           /\ Len(frames[r]) = 4 /\ said[r] = 0 /\ graph[r] = "over"
           /\ frames[r][4].kind \in {"refusing", "answering"}
    /\ stream[r] = "save" => Answered(r)
    /\ Answered(r) => graph[r] = "over" /\ stream[r] \in {"save", "ended", "gone"}

\* All that is kept of one request's way through queue and frames.
Good(r) == FlowOf(r) /\ Ordered(r) /\ Whole(r)

SavedInv ==
    \A s \in Requests : \A i \in DOMAIN msgs[s] :
        stream[msgs[s][i].of] \in {"ended", "gone"}

Saved == SavedInv /\ ExchangesPaired /\ HistoryMatchesStreams

IInv == TypeOK /\ JobInv /\ (\A r \in Requests : Good(r)) /\ Saved
-----------------------------------------------------------------------------
(* The sequences a step reads and extends.                                 *)

\* t is s with x at its end; t is s without its first element.
Extended(s, t, x) ==
    Len(t) = Len(s) + 1 /\ (\A i \in 1..Len(s) : t[i] = s[i]) /\ t[Len(s) + 1] = x
Dropped(s, t) == Len(t) = Len(s) - 1 /\ \A i \in 1..Len(t) : t[i] = s[i + 1]

\* What TypeOK says of the sequences of one request.
LEMMA SequencesTyped ==
    ASSUME TypeOK, NEW r \in Requests
    PROVE  /\ Len(frames[r]) \in Nat /\ DOMAIN frames[r] = 1..Len(frames[r])
           /\ \A i \in DOMAIN frames[r] : frames[r][i] \in Frame
           /\ Len(queue[r]) \in Nat /\ DOMAIN queue[r] = 1..Len(queue[r])
           /\ \A i \in DOMAIN queue[r] : queue[r][i] \in Item
           /\ Len(msgs[r]) \in Nat /\ DOMAIN msgs[r] = 1..Len(msgs[r])
           /\ \A i \in DOMAIN msgs[r] : msgs[r][i] \in Messages
<1>1. frames[r] \in Seq(Frame) /\ queue[r] \in Seq(Item) /\ msgs[r] \in Seq(Messages)
  BY DEF TypeOK
<1> QED
  BY <1>1, LenProperties, ElementOfSeq

\* A frame is sent at the end, to one client.
LEMMA SendFacts ==
    ASSUME TypeOK, NEW r \in Requests, NEW f \in Frame, Send(r, f)
    PROVE  /\ frames' \in [Requests -> Seq(Frame)]
           /\ Extended(frames[r], frames'[r], f)
           /\ Len(frames[r]) \in Nat /\ DOMAIN frames'[r] = 1..(Len(frames[r]) + 1)
           /\ \A q \in Requests : q # r => frames'[q] = frames[q]
<1>1. frames \in [Requests -> Seq(Frame)] /\ frames[r] \in Seq(Frame)
  BY DEF TypeOK
<1>2. frames' = [frames EXCEPT ![r] = Append(frames[r], f)]
  BY DEF Send
<1>3. frames'[r] = Append(frames[r], f) /\ \A q \in Requests : q # r => frames'[q] = frames[q]
  BY <1>1, <1>2
<1>4. Append(frames[r], f) \in Seq(Frame)
  BY <1>1, AppendProperties
<1>5. frames' \in [Requests -> Seq(Frame)]
  BY <1>1, <1>2, <1>4
<1> QED
  BY <1>1, <1>3, <1>4, <1>5, AppendProperties, LenProperties DEF Extended

\* An item is put at the end of one queue.
LEMMA PutFacts ==
    ASSUME TypeOK, NEW r \in Requests, NEW x \in Item, Put(r, x)
    PROVE  /\ queue' \in [Requests -> Seq(Item)]
           /\ Extended(queue[r], queue'[r], x)
           /\ \A q \in Requests : q # r => queue'[q] = queue[q]
<1>1. queue \in [Requests -> Seq(Item)] /\ queue[r] \in Seq(Item)
  BY DEF TypeOK
<1>2. queue' = [queue EXCEPT ![r] = Append(queue[r], x)]
  BY DEF Put
<1>3. queue'[r] = Append(queue[r], x) /\ \A q \in Requests : q # r => queue'[q] = queue[q]
  BY <1>1, <1>2
<1>4. Append(queue[r], x) \in Seq(Item)
  BY <1>1, AppendProperties
<1>5. queue' \in [Requests -> Seq(Item)]
  BY <1>1, <1>2, <1>4
<1> QED
  BY <1>1, <1>3, <1>4, <1>5, AppendProperties DEF Extended

\* The first item of one queue is taken.
LEMMA GetFacts ==
    ASSUME TypeOK, NEW r \in Requests, NEW kind, Get(r, kind)
    PROVE  /\ queue' \in [Requests -> Seq(Item)]
           /\ Len(queue[r]) \in Nat \ {0}
           /\ Head(queue[r]) = queue[r][1] /\ queue[r][1] \in Item /\ queue[r][1].kind = kind
           /\ Dropped(queue[r], queue'[r])
           /\ \A q \in Requests : q # r => queue'[q] = queue[q]
<1>1. queue \in [Requests -> Seq(Item)] /\ queue[r] \in Seq(Item) /\ queue[r] # <<>>
  BY DEF TypeOK, Get
<1>2. queue' = [queue EXCEPT ![r] = Tail(queue[r])]
  BY DEF Get
<1>3. queue'[r] = Tail(queue[r]) /\ \A q \in Requests : q # r => queue'[q] = queue[q]
  BY <1>1, <1>2
<1>4. Tail(queue[r]) \in Seq(Item)
  BY <1>1, HeadTailProperties
<1>5. queue' \in [Requests -> Seq(Item)]
  BY <1>1, <1>2, <1>4
<1>6. Len(queue[r]) \in Nat /\ Len(queue[r]) > 0
  BY <1>1, EmptySeq
<1>7. Head(queue[r]) = queue[r][1]
  BY <1>1
<1>8. queue[r][1] \in Item /\ queue[r][1].kind = kind
  BY <1>1, <1>7, HeadTailProperties DEF Get
<1> QED
  BY <1>1, <1>3, <1>4, <1>5, <1>6, <1>7, <1>8, HeadTailProperties DEF Dropped
-----------------------------------------------------------------------------
(* What a step leaves alone.                                               *)

\* A request whose variables a step does not touch stays good.
LEMMA GoodFrame ==
    ASSUME NEW r, Good(r), stream'[r] = stream[r], frames'[r] = frames[r],
           queue'[r] = queue[r], graph'[r] = graph[r], said'[r] = said[r]
    PROVE  Good(r)'
  BY DEF Good, FlowOf, Answered, Ordered, Whole

\* One whose generator is over stays good whatever the thread still does.
LEMMA GoneFrame ==
    ASSUME NEW r, Good(r), stream[r] \in {"ended", "gone"}, ~Answered(r),
           stream'[r] = stream[r], frames'[r] = frames[r],
           graph'[r] \in {"none", "queued"} => said'[r] = 0
    PROVE  Good(r)'
  BY DEF Good, FlowOf, Answered, Ordered, Whole

\* A step that writes no message keeps Saved, unless it ends a stream whose
\* messages should have been written.
LEMMA SavedFrame ==
    ASSUME TypeOK, Saved, UNCHANGED msgs, faults' = 0 => faults = 0,
           \A r \in Requests : stream[r] \in {"ended", "gone"} =>
               stream'[r] = stream[r] /\ sess'[r] = sess[r] /\ frames'[r] = frames[r],
           \A r \in Requests :
               stream'[r] = "ended" /\ Answered(r)' /\ sess'[r] # None /\ faults' = 0 =>
                   stream[r] = "ended"
    PROVE  Saved'
<1>1. \A s \in Requests : \A i \in DOMAIN msgs[s] : msgs[s][i].of \in Requests
  BY SequencesTyped DEF Messages
<1>2. SavedInv'
  BY <1>1 DEF Saved, SavedInv
<1>3. ExchangesPaired'
  BY DEF Saved, ExchangesPaired, Message
<1>4. HistoryMatchesStreams'
  <2> SUFFICES ASSUME NEW r \in Requests
               PROVE  /\ \A s \in Requests : \A i \in DOMAIN msgs[s] :
                             msgs[s][i].of = r => sess'[r] = s /\ Answered(r)'
                      /\ stream'[r] = "ended" /\ Answered(r)' /\ sess'[r] # None
                             /\ faults' = 0 =>
                         \A role \in {"user", "assistant"} :
                             \E i \in DOMAIN msgs[sess'[r]] :
                                 msgs[sess'[r]][i] = Message(role, r)
    BY DEF HistoryMatchesStreams, Message
  <2>1. stream[r] \in {"ended", "gone"} => (Answered(r)' <=> Answered(r))
    BY DEF Answered
  <2>2. ASSUME NEW s \in Requests, NEW i \in DOMAIN msgs[s], msgs[s][i].of = r
        PROVE  sess'[r] = s /\ Answered(r)'
    BY <2>1, <2>2 DEF Saved, SavedInv, HistoryMatchesStreams
  <2>3. ASSUME stream'[r] = "ended", Answered(r)', sess'[r] # None, faults' = 0
        PROVE  \A role \in {"user", "assistant"} :
                   \E i \in DOMAIN msgs[sess'[r]] : msgs[sess'[r]][i] = Message(role, r)
    BY <2>1, <2>3 DEF Saved, HistoryMatchesStreams
  <2> QED BY <2>2, <2>3
<1> QED BY <1>2, <1>3, <1>4 DEF Saved
-----------------------------------------------------------------------------
(* The flow, as a fact about two sequences.                                *)

\* Three frames and an empty queue are the flow of no piece.
LEMMA FlowStart ==
    ASSUME NEW r, NEW f, NEW q, Len(f) = 3, Len(q) = 0
    PROVE  Flow(r, f, q, 0, "queued")
  BY DEF Flow

\* Pieces only follow the three frames of progress.
LEMMA FlowPieces ==
    ASSUME NEW r, NEW f, NEW q, NEW p, NEW g, Flow(r, f, q, p, g),
           NEW i \in 4..Len(f)
    PROVE  f[i].kind = "token"
<1>1. f[i] = Token(r, i - 3)
  BY DEF Flow
<1> QED BY <1>1 DEF Token

\* Moving the first piece from the queue to the frames.
LEMMA FlowTake ==
    ASSUME NEW r, NEW f, NEW q, NEW f2, NEW q2, NEW p \in Nat, NEW g,
           Len(q) \in Nat \ {0}, Flow(r, f, q, p, g), q[1].kind = "token",
           Extended(f, f2, q[1]), Dropped(q, q2)
    PROVE  /\ Flow(r, f2, q2, p, g)
           /\ Len(f) \in Nat /\ Len(f) >= 3 /\ Len(f) < p + 3
           /\ q[1] = Token(r, Len(f) - 2)
<1> USE DEF Extended, Dropped
<1> DEFINE m == Len(f)
<1>1. m \in 3..(p + 3)
  BY DEF Flow
<1>2. m < p + 3
  <2>1. CASE m = p + 3 /\ g # "over"
    BY <2>1 DEF Flow
  <2>2. CASE m = p + 3 /\ g = "over"
    <3>1. Len(q) = 1 /\ q[Len(q)].kind \in Results
      BY <2>2 DEF Flow
    <3> QED BY <3>1 DEF Results
  <2> QED BY <1>1, <2>1, <2>2
<1>3. q[1] = Token(r, m - 2)
  <2>1. 1 \in 1..(p + 3 - m) /\ m - 3 + 1 = m - 2
    BY <1>1, <1>2
  <2> QED BY <2>1 DEF Flow
<1>4. \A i \in 4..(m + 1) : f2[i] = Token(r, i - 3)
  <2> SUFFICES ASSUME NEW i \in 4..(m + 1) PROVE f2[i] = Token(r, i - 3)
    OBVIOUS
  <2>1. CASE i = m + 1
    <3>1. i - 3 = m - 2
      BY <1>1, <2>1
    <3> QED BY <1>3, <2>1, <3>1
  <2>2. CASE i # m + 1
    <3>1. i \in 1..m /\ i \in 4..m
      BY <1>1, <2>2
    <3>2. f2[i] = f[i]
      BY <3>1
    <3>3. f[i] = Token(r, i - 3)
      BY <3>1 DEF Flow
    <3> QED BY <3>2, <3>3
  <2> QED BY <2>1, <2>2
<1>5. Len(q2) = p + 3 - (m + 1) + (IF g = "over" THEN 1 ELSE 0)
  BY <1>1 DEF Flow
<1>6. \A j \in 1..(p + 3 - (m + 1)) : q2[j] = Token(r, (m + 1) - 3 + j)
  <2> SUFFICES ASSUME NEW j \in 1..(p + 3 - (m + 1))
               PROVE  q2[j] = Token(r, (m + 1) - 3 + j)
    OBVIOUS
  <2>1. j \in 1..Len(q2) /\ j + 1 \in 1..(p + 3 - m) /\ m - 3 + (j + 1) = (m + 1) - 3 + j
    BY <1>1, <1>5
  <2>2. q2[j] = q[j + 1]
    BY <2>1
  <2>3. q[j + 1] = Token(r, m - 3 + (j + 1))
    BY <2>1 DEF Flow
  <2> QED BY <2>1, <2>2, <2>3
<1>7. g = "over" => q2[Len(q2)] = q[Len(q)]
  <2> SUFFICES ASSUME g = "over" PROVE q2[Len(q2)] = q[Len(q)]
    OBVIOUS
  <2>1. Len(q2) \in 1..Len(q2) /\ Len(q2) + 1 = Len(q)
    BY <1>1, <1>2, <1>5
  <2> QED BY <2>1
<1>8. m + 1 \in 3..(p + 3)
  BY <1>1, <1>2
<1> QED
  BY <1>1, <1>2, <1>3, <1>4, <1>5, <1>6, <1>7, <1>8 DEF Flow

\* A result at the head of the queue is the last item, and everything was sent.
LEMMA FlowEnd ==
    ASSUME NEW r, NEW f, NEW q, NEW p \in Nat, NEW g,
           Len(q) \in Nat \ {0}, Flow(r, f, q, p, g), q[1].kind # "token"
    PROVE  g = "over" /\ Len(f) = p + 3 /\ (q[1].kind = "refusal" => p = 0)
<1>1. Len(f) \in 3..(p + 3)
  BY DEF Flow
<1>2. CASE Len(f) < p + 3
  <2>1. 1 \in 1..(p + 3 - Len(f))
    BY <1>1, <1>2
  <2>2. q[1] = Token(r, Len(f) - 3 + 1)
    BY <2>1 DEF Flow
  <2> QED BY <2>2 DEF Token
<1>3. CASE Len(f) = p + 3
  <2>1. g = "over" /\ Len(q) = 1
    BY <1>3 DEF Flow
  <2> QED BY <1>3, <2>1 DEF Flow
<1> QED BY <1>1, <1>2, <1>3

\* The next piece at the end of the queue.
LEMMA FlowSay ==
    ASSUME NEW r, NEW f, NEW q, NEW q2, NEW p \in Nat, Flow(r, f, q, p, "running"),
           Extended(q, q2, Token(r, p + 1))
    PROVE  Flow(r, f, q2, p + 1, "running")
<1> USE DEF Extended
<1>1. Len(f) \in 3..(p + 3) /\ Len(q) = p + 3 - Len(f)
  BY DEF Flow
<1>2. \A j \in 1..((p + 1) + 3 - Len(f)) : q2[j] = Token(r, Len(f) - 3 + j)
  <2> SUFFICES ASSUME NEW j \in 1..((p + 1) + 3 - Len(f))
               PROVE  q2[j] = Token(r, Len(f) - 3 + j)
    OBVIOUS
  <2>1. CASE j = Len(q) + 1
    <3>1. Len(f) - 3 + j = p + 1
      BY <1>1, <2>1
    <3> QED BY <2>1, <3>1
  <2>2. CASE j # Len(q) + 1
    <3>1. j <= p + 3 - Len(f)
      <4> DEFINE m == Len(f)
                 n == Len(q)
      <4>1. m \in 3..(p + 3) /\ n = p + 3 - m /\ j \in 1..((p + 1) + 3 - m) /\ j # n + 1
        BY <1>1, <2>2
      <4> HIDE DEF m, n
      <4>2. m \in Int /\ j \in Int
        BY <4>1
      <4>3. j <= p + 3 - m
        BY ONLY p \in Nat, <4>1, <4>2
      <4> QED BY <4>3 DEF m
    <3>2. j \in 1..Len(q) /\ j \in 1..(p + 3 - Len(f))
      BY <1>1, <3>1
    <3> QED BY <3>2 DEF Flow
  <2> QED BY <2>1, <2>2
<1> QED
  BY <1>1, <1>2 DEF Flow

\* The result at the end of the queue.
LEMMA FlowClose ==
    ASSUME NEW r, NEW f, NEW q, NEW q2, NEW p \in Nat, Flow(r, f, q, p, "running"),
           NEW x, x.kind \in Results, x.kind = "refusal" => p = 0, Extended(q, q2, x)
    PROVE  Flow(r, f, q2, p, "over")
<1> USE DEF Extended
<1>1. Len(f) \in 3..(p + 3) /\ Len(q) = p + 3 - Len(f)
  BY DEF Flow
<1> QED
  BY <1>1 DEF Flow
-----------------------------------------------------------------------------
(* The generator.                                                          *)

\* Frames of the alphabet.
LEMMA FrameTyped ==
    ASSUME NEW r \in Requests
    PROVE  /\ \A k \in Stages : Plain(k, r) \in Frame
           /\ \A k \in Results : Plain(k, r) \in Item
           /\ \A n \in Nat : Token(r, n) \in Frame /\ Token(r, n) \in Item
  BY DEF Plain, Token, Frame, Item, Stages, Results

\* The first three frames and an empty queue start the flow.
LEMMA BeginGood ==
    ASSUME IInv, NEW r \in Requests, Begin(r)
    PROVE  TypeOK' /\ JobInv' /\ (\A q \in Requests : Good(q)')
<1> USE DEF Begin, Goto
<1>1. /\ stream[r] = "begin" /\ graph[r] = "none" /\ said[r] = 0 /\ queue[r] = <<>>
      /\ stream'[r] = "consume" /\ graph'[r] = "queued"
      /\ frames'[r] = [i \in 1..3 |-> Plain(Progress[i], r)]
  BY DEF IInv, TypeOK, Good, FlowOf
<1>2. \A i \in 1..3 : Progress[i] \in Stages /\ Progress[i] \notin {"token", "refusing", "answering", "done", "error"}
  BY DEF Progress, Stages
<1>3. [i \in 1..3 |-> Plain(Progress[i], r)] \in Seq(Frame)
  <2>1. \A i \in 1..3 : Plain(Progress[i], r) \in Frame
    BY <1>2, FrameTyped
  <2> QED BY <2>1, SeqDef
<1>4. Append(backlog, r) \in Seq(Requests) /\ Len(backlog) \in Nat
  BY AppendProperties DEF IInv, TypeOK
<1>5. TypeOK'
  BY <1>3, <1>4 DEF IInv, TypeOK, Live, tableVars
<1>6. JobInv'
  <2>1. /\ Len(backlog') = Len(backlog) + 1
        /\ \A i \in 1..Len(backlog) : backlog'[i] = backlog[i] /\ backlog[i] \in Requests
        /\ backlog'[Len(backlog) + 1] = r
    BY AppendProperties, ElementOfSeq DEF IInv, TypeOK
  <2>2. \A i \in 1..Len(backlog) : backlog[i] # r
    BY <1>1 DEF IInv, JobInv
  <2>3. \A i \in 1..Len(backlog') : graph'[backlog'[i]] = "queued"
    BY <1>1, <1>4, <2>1, <2>2 DEF IInv, JobInv, TypeOK
  <2>4. \A i, j \in 1..Len(backlog') : backlog'[i] = backlog'[j] => i = j
    BY <1>4, <2>1, <2>2 DEF IInv, JobInv
  <2>5. \A w \in Threads : job[w] # None => graph'[job[w]] = "running"
    BY <1>1 DEF IInv, JobInv, TypeOK
  <2> QED
    BY <2>3, <2>4, <2>5 DEF IInv, JobInv
<1>7. ASSUME NEW q \in Requests, q # r PROVE Good(q)'
  BY <1>7, GoodFrame DEF IInv, TypeOK
<1>8. Good(r)'
  <2>1. Len(frames'[r]) = 3 /\ DOMAIN frames'[r] = 1..3
    BY <1>1, <1>3, LenProperties
  <2>2. \A i \in 1..3 : frames'[r][i].kind = Progress[i]
    BY <1>1 DEF Plain
  <2>3. ~Answered(r)'
    BY <1>2, <2>1, <2>2 DEF Answered
  <2>4. Ordered(r)' /\ Whole(r)'
    BY <1>2, <2>1, <2>2, <2>3 DEF Ordered, Whole
  <2>5. queue'[r] = <<>> /\ said'[r] = 0 /\ Len(queue'[r]) = 0
    BY <1>1, EmptySeq
  <2>6. Flow(r, frames'[r], queue'[r], 0, "queued")
    BY <2>1, <2>5, FlowStart
  <2>7. FlowOf(r)'
    BY <1>1, <2>3, <2>5, <2>6 DEF FlowOf
  <2> QED BY <2>4, <2>7 DEF Good
<1> QED BY <1>5, <1>6, <1>7, <1>8

\* Before the final frame there is none.
Open(r) == \A i \in 1..Len(frames[r]) : frames[r][i].kind \notin {"done", "error"}

\* A stream that waits for its final frame has none yet, and at least three others.
LEMMA StreamOpen ==
    ASSUME IInv, NEW r \in Requests, stream[r] \in {"consume", "finish"}
    PROVE  Open(r) /\ Len(frames[r]) >= 3
<1>1. /\ Good(r) /\ Len(frames[r]) \in Nat /\ DOMAIN frames[r] = 1..Len(frames[r])
      /\ said[r] \in Nat
  BY SequencesTyped DEF IInv, TypeOK
<1>2. Len(frames[r]) >= 3
  BY <1>1 DEF Good, FlowOf, Flow
<1>3. ASSUME NEW i \in 1..Len(frames[r]) PROVE frames[r][i].kind \notin {"done", "error"}
  <2>1. CASE i <= 3
    <3>1. frames[r][i].kind = Progress[i] /\ i \in 1..3
      BY <1>1, <2>1 DEF Good, Ordered
    <3> QED BY <3>1 DEF Progress
  <2>2. CASE i > 3 /\ stream[r] = "consume"
    <3>1. frames[r][i] = Token(r, i - 3)
      BY <1>1, <2>2 DEF Good, FlowOf, Flow
    <3> QED BY <3>1 DEF Token
  <2>3. CASE i > 3 /\ stream[r] = "finish"
    BY <1>1, <2>3 DEF Good, FlowOf
  <2> QED BY <1>1, <2>1, <2>2, <2>3
<1> QED BY <1>2, <1>3 DEF Open

\* One more frame, of a kind that may stand there.
LEMMA SendGood ==
    ASSUME TypeOK, NEW r \in Requests, NEW f \in Frame, Send(r, f), said'[r] = said[r],
           Ordered(r), Whole(r), Open(r), Len(frames[r]) >= 3,
           f.kind \notin {"rewriting", "searching", "verifying"},
           f.kind \in {"refusing", "answering"} => Len(frames[r]) = 3,
           f.kind = "token" => f = Token(r, Len(frames[r]) - 2),
           f.kind = "done" =>
               \A n \in 1..said[r] : 3 + n \in 1..Len(frames[r]) /\ frames[r][3 + n] = Token(r, n)
    PROVE  Ordered(r)' /\ Whole(r)' /\ (Answered(r)' <=> f.kind = "done")
<1> DEFINE m == Len(frames[r])
<1>1. /\ m \in Nat /\ m >= 3 /\ DOMAIN frames[r] = 1..m
      /\ Len(frames'[r]) = m + 1 /\ DOMAIN frames'[r] = 1..(m + 1)
      /\ \A i \in 1..m : frames'[r][i] = frames[r][i]
      /\ frames'[r][m + 1] = f
  BY SendFacts, SequencesTyped DEF Extended
<1>2. Answered(r)' <=> f.kind = "done"
  <2>1. frames'[r] # <<>>
    BY <1>1, EmptySeq
  <2> QED BY <1>1, <2>1 DEF Answered
<1>3. Ordered(r)'
  <2> SUFFICES ASSUME NEW i \in 1..(m + 1)
               PROVE  LET kind == frames'[r][i].kind IN
                      /\ IF i <= 3 THEN kind = Progress[i]
                         ELSE kind \notin {Progress[j] : j \in 1..3}
                      /\ kind \in {"refusing", "answering"} => i = 4
                      /\ kind \in {"done", "error"} => i = m + 1
    BY <1>1 DEF Ordered
  <2>1. CASE i = m + 1
    <3>1. i > 3 /\ (i = 4 \/ m # 3)
      <4>1. m \in Nat /\ m >= 3
        BY <1>1
      <4> HIDE DEF m
      <4> QED BY <2>1, <4>1
    <3>2. f.kind \notin {Progress[j] : j \in 1..3}
      BY DEF Progress
    <3> QED BY <1>1, <2>1, <3>1, <3>2
  <2>2. CASE i # m + 1
    <3>1. i \in 1..m
      BY <1>1, <2>2
    <3>2. frames'[r][i] = frames[r][i] /\ frames[r][i].kind \notin {"done", "error"}
      BY <1>1, <3>1 DEF Open
    <3> QED BY <1>1, <3>1, <3>2 DEF Ordered
  <2> QED BY <2>1, <2>2
<1>4. Whole(r)'
  <2>1. ASSUME NEW i \in 1..(m + 1), frames'[r][i].kind = "token"
        PROVE  frames'[r][i] = Token(r, i - 3)
    <3>1. CASE i = m + 1
      <4>1. m - 2 = i - 3
        BY <1>1, <3>1
      <4> QED BY <1>1, <2>1, <3>1, <4>1
    <3>2. CASE i # m + 1
      <4>1. i \in 1..m
        BY <1>1, <3>2
      <4> QED BY <1>1, <2>1, <4>1 DEF Whole
    <3> QED BY <3>1, <3>2
  <2>2. ASSUME Answered(r)', NEW n \in 1..said[r]
        PROVE  3 + n \in 1..(m + 1) /\ frames'[r][3 + n] = Token(r, n)
    <3>1. 3 + n \in 1..m /\ frames[r][3 + n] = Token(r, n)
      BY <1>2, <2>2
    <3>2. 3 + n \in 1..(m + 1)
      BY <1>1, <3>1
    <3> QED BY <1>1, <3>1, <3>2
  <2> QED BY <1>1, <2>1, <2>2 DEF Whole
<1> QED BY <1>2, <1>3, <1>4

\* A piece is sent at its number.
LEMMA TokenFrameGood ==
    ASSUME IInv, NEW r \in Requests, TokenFrame(r)
    PROVE  TypeOK' /\ JobInv' /\ (\A q \in Requests : Good(q)')
<1>1. /\ TypeOK /\ stream[r] = "consume" /\ Get(r, "token") /\ Good(r)
      /\ said[r] \in Nat /\ Flow(r, frames[r], queue[r], said[r], graph[r])
      /\ UNCHANGED <<stream, sess, context, graph, said, job, sink, backlog,
                     sessions, msgs, mem, faults, crashes>>
  <2>1. TypeOK /\ Get(r, "token") /\ Good(r) /\ said[r] \in Nat
    BY DEF TokenFrame, IInv, TypeOK
  <2>2. stream[r] = "consume" /\ Flow(r, frames[r], queue[r], said[r], graph[r])
    BY <2>1 DEF Get, Good, FlowOf
  <2> QED BY <2>1, <2>2 DEF TokenFrame, threadVars, tableVars
<1>2. /\ queue' \in [Requests -> Seq(Item)] /\ Len(queue[r]) \in Nat \ {0}
      /\ queue[r][1] \in Item /\ queue[r][1].kind = "token"
      /\ Dropped(queue[r], queue'[r]) /\ Send(r, queue[r][1])
      /\ \A q \in Requests : q # r => queue'[q] = queue[q]
  BY <1>1, GetFacts DEF TokenFrame
<1>3. queue[r][1] \in Frame
  BY <1>2 DEF Item, Frame, Stages
<1>4. /\ frames' \in [Requests -> Seq(Frame)]
      /\ Extended(frames[r], frames'[r], queue[r][1])
      /\ \A q \in Requests : q # r => frames'[q] = frames[q]
  BY <1>1, <1>2, <1>3, SendFacts
<1>5. /\ Flow(r, frames'[r], queue'[r], said[r], graph[r])
      /\ queue[r][1] = Token(r, Len(frames[r]) - 2)
  <2>1. \A f, q, f2, q2, g : \A p \in Nat :
            Len(q) \in Nat \ {0} /\ Flow(r, f, q, p, g) /\ q[1].kind = "token"
            /\ Extended(f, f2, q[1]) /\ Dropped(q, q2) =>
                Flow(r, f2, q2, p, g) /\ q[1] = Token(r, Len(f) - 2)
    BY FlowTake
  <2> QED BY <1>1, <1>2, <1>4, <2>1, Zenon
<1>6. TypeOK'
  BY <1>1, <1>2, <1>4 DEF TypeOK
<1>7. JobInv'
  BY <1>1 DEF IInv, JobInv
<1>8. ASSUME NEW q \in Requests, q # r PROVE Good(q)'
  BY <1>1, <1>2, <1>4, <1>8, GoodFrame DEF IInv
<1>9. Ordered(r)' /\ Whole(r)' /\ ~Answered(r)'
  BY <1>1, <1>2, <1>3, <1>5, StreamOpen, SendGood DEF Good
<1>10. FlowOf(r)'
  BY <1>1, <1>5, <1>9 DEF Good, FlowOf
<1> QED BY <1>6, <1>7, <1>8, <1>9, <1>10 DEF Good

\* A result is got after everything that was said has been sent.
LEMMA GetResult ==
    ASSUME IInv, NEW r \in Requests, NEW kind \in Results, Get(r, kind)
    PROVE  /\ graph[r] = "over" /\ Len(frames[r]) = said[r] + 3
           /\ kind = "refusal" => said[r] = 0
           /\ \A n \in 1..said[r] : 3 + n \in 1..Len(frames[r]) /\ frames[r][3 + n] = Token(r, n)
<1>1. /\ TypeOK /\ Good(r) /\ stream[r] = "consume" /\ said[r] \in Nat
  BY DEF IInv, TypeOK, Get
<1>2. Flow(r, frames[r], queue[r], said[r], graph[r])
  BY <1>1 DEF Good, FlowOf
<1>3. Len(queue[r]) \in Nat \ {0} /\ queue[r][1].kind = kind /\ kind # "token"
  BY <1>1, GetFacts DEF Results
<1>4. graph[r] = "over" /\ Len(frames[r]) = said[r] + 3 /\ (kind = "refusal" => said[r] = 0)
  <2>1. \A f, q, g : \A p \in Nat :
            Len(q) \in Nat \ {0} /\ Flow(r, f, q, p, g) /\ q[1].kind # "token" =>
                g = "over" /\ Len(f) = p + 3 /\ (q[1].kind = "refusal" => p = 0)
    BY FlowEnd
  <2> QED BY <1>1, <1>2, <1>3, <2>1, Zenon
<1>5. ASSUME NEW n \in 1..said[r]
      PROVE  3 + n \in 1..Len(frames[r]) /\ frames[r][3 + n] = Token(r, n)
  <2>1. 3 + n \in 4..Len(frames[r]) /\ 3 + n \in 1..Len(frames[r]) /\ (3 + n) - 3 = n
    BY <1>1, <1>4
  <2> QED BY <1>2, <2>1 DEF Flow
<1> QED BY <1>4, <1>5

\* A frame after which the generator goes on elsewhere.
LEMMA FrameGood ==
    ASSUME IInv, NEW r \in Requests, NEW f \in Frame, Send(r, f),
           NEW next \in {"finish", "save", "ended"}, Goto(r, next),
           queue' \in [Requests -> Seq(Item)],
           \A q \in Requests : q # r => queue'[q] = queue[q],
           UNCHANGED <<sess, context, graph, said, job, sink, backlog, sessions, msgs,
                       mem, faults, crashes>>,
           Ordered(r)' /\ Whole(r)' /\ FlowOf(r)'
    PROVE  TypeOK' /\ JobInv' /\ (\A q \in Requests : Good(q)')
<1>1. /\ TypeOK /\ frames' \in [Requests -> Seq(Frame)]
      /\ \A q \in Requests : q # r => frames'[q] = frames[q]
  BY SendFacts DEF IInv
<1>2. TypeOK'
  BY <1>1 DEF TypeOK, Goto, Live
<1>3. JobInv'
  BY DEF IInv, JobInv
<1>4. ASSUME NEW q \in Requests, q # r PROVE Good(q)'
  <2>1. Good(q) /\ stream'[q] = stream[q]
    BY <1>1, <1>4 DEF IInv, Goto, TypeOK
  <2> QED BY <1>1, <1>4, <2>1, GoodFrame
<1> QED BY <1>2, <1>3, <1>4 DEF Good

\* The error frame keeps every part of the invariant but that of what is saved.
LEMMA ErrorFrameGood ==
    ASSUME IInv, NEW r \in Requests, ErrorFrame(r)
    PROVE  TypeOK' /\ JobInv' /\ (\A q \in Requests : Good(q)')
<1> DEFINE f == Plain("error", r)
<1>1. /\ TypeOK /\ Get(r, "error") /\ Send(r, f) /\ Goto(r, "ended") /\ Good(r)
      /\ stream[r] = "consume" /\ stream'[r] = "ended"
      /\ UNCHANGED <<sess, context, graph, said, job, sink, backlog, sessions, msgs,
                     mem, faults, crashes>>
  BY DEF ErrorFrame, IInv, Get, Goto, TypeOK, threadVars, tableVars
<1>2. f \in Frame /\ f.kind = "error"
  BY FrameTyped DEF Stages, Plain
<1>3. Ordered(r)' /\ Whole(r)' /\ ~Answered(r)'
  BY <1>1, <1>2, StreamOpen, SendGood DEF Good
<1>4. FlowOf(r)'
  BY <1>1, <1>3 DEF Good, FlowOf
<1> QED
  BY <1>1, <1>2, <1>3, <1>4, GetFacts, FrameGood

\* So does the refusal frame.
LEMMA RefusalFrameGood ==
    ASSUME IInv, NEW r \in Requests, RefusalFrame(r)
    PROVE  TypeOK' /\ JobInv' /\ (\A q \in Requests : Good(q)')
<1> DEFINE f == Plain("refusing", r)
<1>1. /\ TypeOK /\ Get(r, "refusal") /\ Send(r, f) /\ Goto(r, "finish") /\ Good(r)
      /\ stream[r] = "consume" /\ stream'[r] = "finish"
      /\ UNCHANGED <<sess, context, graph, said, job, sink, backlog, sessions, msgs,
                     mem, faults, crashes>>
  BY DEF RefusalFrame, IInv, Get, Goto, TypeOK, threadVars, tableVars
<1>2. f \in Frame /\ f.kind = "refusing"
  BY FrameTyped DEF Stages, Plain
<1>3. graph[r] = "over" /\ said[r] = 0 /\ Len(frames[r]) = 3
  <2>1. "refusal" \in Results
    BY DEF Results
  <2>2. graph[r] = "over" /\ said[r] = 0 /\ Len(frames[r]) = said[r] + 3
    BY <1>1, <2>1, GetResult
  <2> QED BY <2>2
<1>4. Ordered(r)' /\ Whole(r)' /\ ~Answered(r)'
  BY <1>1, <1>2, <1>3, StreamOpen, SendGood DEF Good
<1>5. Len(frames'[r]) = 4 /\ frames'[r][4] = f
  <3>1. Extended(frames[r], frames'[r], f) /\ Len(frames[r]) = 3
    BY <1>1, <1>2, <1>3, SendFacts
  <3> QED BY <3>1 DEF Extended
<1>6. FlowOf(r)'
  BY <1>1, <1>2, <1>3, <1>4, <1>5 DEF Good, FlowOf
<1> QED
  BY <1>1, <1>2, <1>4, <1>6, GetFacts, FrameGood

\* So does the answer frame.
LEMMA AnswerFrameGood ==
    ASSUME IInv, NEW r \in Requests, AnswerFrame(r)
    PROVE  TypeOK' /\ JobInv' /\ (\A q \in Requests : Good(q)')
<1>1. /\ TypeOK /\ Get(r, "answer") /\ Good(r) /\ stream[r] = "consume"
      /\ UNCHANGED <<sess, context, graph, said, job, sink, backlog, sessions, msgs,
                     mem, faults, crashes>>
  BY DEF AnswerFrame, IInv, Get, threadVars, tableVars
<1>2. /\ graph[r] = "over" /\ Len(frames[r]) = said[r] + 3 /\ said[r] \in Nat
      /\ \A n \in 1..said[r] : 3 + n \in 1..Len(frames[r]) /\ frames[r][3 + n] = Token(r, n)
  BY <1>1, GetResult DEF Results, TypeOK
<1>3. Open(r) /\ Len(frames[r]) >= 3
  BY <1>1, StreamOpen
<1>4. CASE Streamed(r)
  <2> DEFINE f == Plain("done", r)
  <2>1. /\ Send(r, f) /\ Goto(r, "save") /\ stream'[r] = "save"
    BY <1>1, <1>4 DEF AnswerFrame, Goto, TypeOK
  <2>2. f \in Frame /\ f.kind = "done"
    BY FrameTyped DEF Stages, Plain
  <2>3. Ordered(r)' /\ Whole(r)' /\ Answered(r)'
    BY <1>1, <1>2, <1>3, <2>1, <2>2, SendGood DEF Good
  <2>4. FlowOf(r)'
    BY <1>1, <1>2, <2>1, <2>3 DEF Good, FlowOf
  <2> QED
    BY <1>1, <2>1, <2>2, <2>3, <2>4, GetFacts, FrameGood
<1>5. CASE ~Streamed(r)
  <2> DEFINE f == Plain("answering", r)
  <2>1. /\ Send(r, f) /\ Goto(r, "finish") /\ stream'[r] = "finish"
    BY <1>1, <1>5 DEF AnswerFrame, Goto, TypeOK
  <2>2. f \in Frame /\ f.kind = "answering"
    BY FrameTyped DEF Stages, Plain
  <2>3. said[r] = 0 /\ Len(frames[r]) = 3
    BY <1>2, <1>5 DEF Streamed
  <2>4. Ordered(r)' /\ Whole(r)' /\ ~Answered(r)'
    BY <1>1, <1>3, <2>1, <2>2, <2>3, SendGood DEF Good
  <2>5. Len(frames'[r]) = 4 /\ frames'[r][4] = f
  <3>1. Extended(frames[r], frames'[r], f) /\ Len(frames[r]) = 3
    BY <1>1, <2>1, <2>2, <2>3, SendFacts
  <3> QED BY <3>1 DEF Extended
  <2>6. FlowOf(r)'
    BY <1>1, <1>2, <2>1, <2>2, <2>3, <2>4, <2>5 DEF Good, FlowOf
  <2> QED
    BY <1>1, <2>1, <2>2, <2>4, <2>6, GetFacts, FrameGood
<1> QED BY <1>4, <1>5

\* So does the done frame.
LEMMA DoneFrameGood ==
    ASSUME IInv, NEW r \in Requests, DoneFrame(r)
    PROVE  TypeOK' /\ JobInv' /\ (\A q \in Requests : Good(q)')
<1> DEFINE f == Plain("done", r)
<1>1. /\ TypeOK /\ Send(r, f) /\ Goto(r, "save") /\ Good(r) /\ stream[r] = "finish"
      /\ stream'[r] = "save" /\ queue' = queue
      /\ UNCHANGED <<sess, context, graph, said, job, sink, backlog, sessions, msgs,
                     mem, faults, crashes>>
  BY DEF DoneFrame, IInv, Goto, TypeOK, threadVars, tableVars
<1>2. f \in Frame /\ f.kind = "done"
  BY FrameTyped DEF Stages, Plain
<1>3. graph[r] = "over" /\ said[r] = 0
  BY <1>1 DEF Good, FlowOf
<1>4. Ordered(r)' /\ Whole(r)' /\ Answered(r)'
  <2>1. \A n \in 1..said[r] : 3 + n \in 1..Len(frames[r]) /\ frames[r][3 + n] = Token(r, n)
    BY <1>3
  <2> QED BY <1>1, <1>2, <2>1, StreamOpen, SendGood DEF Good
<1>5. FlowOf(r)'
  BY <1>1, <1>3, <1>4 DEF Good, FlowOf
<1>6. queue' \in [Requests -> Seq(Item)]
  BY <1>1 DEF TypeOK
<1> QED
  BY <1>1, <1>2, <1>4, <1>5, <1>6, FrameGood
-----------------------------------------------------------------------------
(* The handler.                                                            *)

\* The last n elements of a sequence are a sequence of at most n.
LEMMA RecentTyped ==
    ASSUME NEW S, NEW s \in Seq(S), NEW n \in Nat
    PROVE  Recent(s, n) \in Seq(S) /\ Len(Recent(s, n)) \in Nat /\ Len(Recent(s, n)) <= n
<1> DEFINE first == IF Len(s) > n THEN Len(s) - n + 1 ELSE 1
<1>1. Len(s) \in Nat /\ \A i \in 1..Len(s) : s[i] \in S
  BY LenProperties, ElementOfSeq
<1>2. first \in Int /\ first >= 1 /\ Len(s) - first + 1 <= n
  BY <1>1
<1>3. Recent(s, n) = SubSeq(s, first, Len(s))
  BY DEF Recent
<1> HIDE DEF first
<1>4. \A i \in first..Len(s) : s[i] \in S
  BY <1>1, <1>2
<1>5. /\ SubSeq(s, first, Len(s)) \in Seq(S)
      /\ Len(SubSeq(s, first, Len(s))) = IF first <= Len(s) THEN Len(s) - first + 1 ELSE 0
  BY <1>1, <1>2, <1>4, SubSeqProperties
<1> QED BY <1>1, <1>2, <1>3, <1>5

\* A question that arrives, or is turned away, has no frame and no job.
LEMMA AskGood ==
    ASSUME IInv, NEW r \in Requests, Ask(r)
    PROVE  TypeOK' /\ JobInv' /\ (\A q \in Requests : Good(q)')
<1> USE DEF threadVars, tableVars
<1>1. /\ TypeOK /\ stream[r] = "idle"
      /\ \E next \in {"begin", "missing", "refused"} : stream' = [stream EXCEPT ![r] = next]
      /\ UNCHANGED <<frames, queue, graph, said, job, sink, backlog, msgs, crashes>>
  BY DEF IInv, Ask, AskGuest, AskNew, AskRefused, AskFault, AskResume, AskMissing, Arrives, Goto
<1>2. sess' \in [Requests -> Requests \cup {None}] /\ sessions' \subseteq Requests /\ faults' \in Nat
  <2> USE <1>1 DEF TypeOK
  <2>1. CASE AskGuest(r) \/ AskRefused(r)
    BY <2>1 DEF AskGuest, AskRefused
  <2>2. CASE AskNew(r)
    BY <2>2 DEF AskNew
  <2>3. CASE AskFault(r)
    BY <2>3 DEF AskFault
  <2>4. ASSUME NEW s \in Requests, AskResume(r, s) \/ AskMissing(r, s)
        PROVE  sess' \in [Requests -> Requests \cup {None}] /\ sessions' \subseteq Requests /\ faults' \in Nat
    <3>1. sess' = [sess EXCEPT ![r] = s] /\ sessions' = sessions /\ faults' = faults
      BY <2>4 DEF AskResume, AskMissing
    <3> QED BY <3>1
  <2> QED BY <2>1, <2>2, <2>3, <2>4 DEF Ask
<1>3. context' \in [Requests -> Seq(Messages)] /\ \A q \in Requests : Len(context'[q]) <= MaxContext
  <2>1. CASE UNCHANGED context
    BY <1>1, <2>1 DEF TypeOK
  <2>2. ASSUME NEW s \in Requests, context' = [context EXCEPT ![r] = Recent(msgs[s], MaxContext)]
        PROVE  context' \in [Requests -> Seq(Messages)] /\ \A q \in Requests : Len(context'[q]) <= MaxContext
    <3>1. msgs[s] \in Seq(Messages) /\ MaxContext \in Nat
      BY <1>1, BoundAssumption DEF TypeOK
    <3>2. Recent(msgs[s], MaxContext) \in Seq(Messages) /\ Len(Recent(msgs[s], MaxContext)) <= MaxContext
      BY <3>1, RecentTyped
    <3> QED BY <1>1, <2>2, <3>2 DEF TypeOK
  <2> QED
    BY <2>1, <2>2 DEF Ask, AskGuest, AskNew, AskRefused, AskFault, AskResume, AskMissing
<1>4. mem' \in Seq(Requests) /\ Len(mem') <= MaxHistory
  <2>1. CASE UNCHANGED mem
    BY <1>1, <2>1 DEF TypeOK
  <2>2. CASE mem' = Recent(Append(mem, r), MaxHistory)
    <3>1. Append(mem, r) \in Seq(Requests) /\ MaxHistory \in Nat
      BY <1>1, BoundAssumption, AppendProperties DEF TypeOK
    <3> QED BY <2>2, <3>1, RecentTyped
  <2> QED
    BY <2>1, <2>2 DEF Ask, AskGuest, AskNew, AskRefused, AskFault, AskResume, AskMissing
<1>5. TypeOK'
  <2>1. stream' \in [Requests -> Live \cup {"idle", "refused", "missing", "ended", "gone"}]
    BY <1>1 DEF TypeOK, Live
  <2> QED BY <1>1, <1>2, <1>3, <1>4, <2>1 DEF TypeOK
<1>6. JobInv'
  BY <1>1 DEF IInv, JobInv
<1>7. ASSUME NEW q \in Requests PROVE Good(q)'
  <2>1. Good(q)
    BY DEF IInv
  <2>2. CASE q # r
    <3>1. stream'[q] = stream[q]
      BY <1>1, <2>2 DEF TypeOK
    <3> QED BY <1>1, <2>1, <3>1, GoodFrame
  <2>3. CASE q = r
    <3>1. stream'[r] \in {"begin", "missing", "refused"} /\ ~Answered(r)
      BY <1>1, <2>1, <2>3 DEF TypeOK, Good, FlowOf
    <3> QED
      BY <1>1, <2>1, <2>3, <3>1 DEF Good, FlowOf, Ordered, Whole, Answered
  <2> QED BY <2>2, <2>3
<1> QED BY <1>5, <1>6, <1>7
-----------------------------------------------------------------------------
(* The end of a stream.                                                    *)

\* A generator that ends, or is closed, leaves what was sent as it is.
LEMMA StopGood ==
    ASSUME IInv, NEW r \in Requests, stream[r] \in Live,
           NEW next \in {"ended", "gone"}, Goto(r, next),
           UNCHANGED <<sess, context, frames, queue, graph, said, job, sink, backlog,
                       sessions, mem, crashes>>,
           msgs' \in [Requests -> Seq(Messages)], faults' \in Nat
    PROVE  TypeOK' /\ JobInv' /\ (\A q \in Requests : Good(q)')
<1>1. TypeOK /\ stream'[r] = next
  BY DEF IInv, TypeOK, Goto
<1>2. TypeOK'
  BY <1>1 DEF TypeOK, Goto
<1>3. JobInv'
  BY DEF IInv, JobInv
<1>4. ASSUME NEW q \in Requests PROVE Good(q)'
  <2>1. Good(q)
    BY DEF IInv
  <2>2. CASE q # r
    <3>1. stream'[q] = stream[q]
      BY <1>1, <2>2 DEF TypeOK, Goto
    <3> QED BY <2>1, <3>1, GoodFrame
  <2>3. CASE q = r
    BY <1>1, <2>1, <2>3 DEF Good, FlowOf, Ordered, Whole, Answered
  <2> QED BY <2>2, <2>3
<1> QED BY <1>2, <1>3, <1>4
-----------------------------------------------------------------------------
(* The threads.                                                            *)

\* The job of a thread is one of its own that it runs.
LEMMA JobOf ==
    ASSUME IInv, NEW w \in Threads, job[w] # None
    PROVE  /\ job[w] \in Requests /\ graph[job[w]] = "running" /\ sink[w] = job[w]
           /\ ~Answered(job[w]) /\ stream[job[w]] \in {"consume", "ended", "gone"}
           /\ \A i \in 1..Len(backlog) : backlog[i] # job[w]
           /\ \A v \in Threads : v # w => job[v] # job[w]
<1>1. job[w] \in Requests /\ graph[job[w]] = "running" /\ sink[w] = job[w]
  BY DEF IInv, JobInv, TypeOK
<1>2. Good(job[w]) /\ stream[job[w]] \in Live \cup {"idle", "refused", "missing", "ended", "gone"}
  BY <1>1 DEF IInv, TypeOK
<1>3. ~Answered(job[w]) /\ stream[job[w]] \in {"consume", "ended", "gone"}
  BY <1>1, <1>2 DEF Good, FlowOf, Live
<1>4. \A i \in 1..Len(backlog) : graph[backlog[i]] = "queued"
  BY DEF IInv, JobInv
<1>5. \A v \in Threads : v # w => job[v] # job[w]
  BY DEF IInv, JobInv
<1> QED BY <1>1, <1>3, <1>4, <1>5

\* So does a thread that takes a question.
LEMMA StartJobGood ==
    ASSUME IInv, NEW w \in Threads, StartJob(w)
    PROVE  TypeOK' /\ JobInv' /\ (\A q \in Requests : Good(q)')
<1>0. PICK r \in Requests : r = Head(backlog) /\ r = backlog[1]
  <2>1. backlog \in Seq(Requests) /\ backlog # <<>>
    BY DEF IInv, TypeOK, StartJob
  <2>2. Head(backlog) \in Requests /\ Head(backlog) = backlog[1]
    BY <2>1, HeadTailProperties
  <2> QED BY <2>2
<1>1. /\ TypeOK /\ JobInv /\ job[w] = None /\ backlog \in Seq(Requests) /\ backlog # <<>>
      /\ backlog' = Tail(backlog) /\ job' = [job EXCEPT ![w] = r]
      /\ sink' = [sink EXCEPT ![w] = r] /\ graph' = [graph EXCEPT ![r] = "running"]
      /\ UNCHANGED <<stream, sess, context, frames, queue, said, sessions, msgs, mem,
                     faults, crashes>>
  BY <1>0 DEF IInv, TypeOK, StartJob, loopVars, tableVars
<1>2. /\ Tail(backlog) \in Seq(Requests)
      /\ Len(Tail(backlog)) = Len(backlog) - 1 /\ Len(backlog) \in Nat \ {0}
      /\ \A i \in 1..Len(Tail(backlog)) : Tail(backlog)[i] = backlog[i + 1]
  BY <1>1, HeadTailProperties, EmptySeq
<1>3. graph[r] = "queued" /\ \A i \in 2..Len(backlog) : backlog[i] # r
  <2>1. 1 \in 1..Len(backlog) /\ \A i \in 2..Len(backlog) : i \in 1..Len(backlog) /\ i # 1
    BY <1>2
  <2> QED BY <1>0, <1>1, <2>1 DEF JobInv
<1>4. TypeOK'
  BY <1>1, <1>2 DEF TypeOK
<1>5. JobInv'
  <2>1. graph'[r] = "running" /\ \A q \in Requests : q # r => graph'[q] = graph[q]
    BY <1>1, <1>2 DEF TypeOK
  <2>2. job'[w] = r /\ sink'[w] = r
        /\ \A v \in Threads : v # w => job'[v] = job[v] /\ sink'[v] = sink[v]
    BY <1>1 DEF TypeOK
  <2>3. \A v \in Threads : job[v] # None => job[v] \in Requests /\ job[v] # r
    BY <1>1, <1>3 DEF JobInv, TypeOK
  <2>4. \A v \in Threads : job'[v] # None => graph'[job'[v]] = "running" /\ sink'[v] = job'[v]
    BY <1>1, <2>1, <2>2, <2>3 DEF JobInv
  <2>5. \A u, v \in Threads : job'[u] # None /\ job'[u] = job'[v] => u = v
    BY <1>1, <2>2, <2>3 DEF JobInv
  <2>6. \A i \in 1..Len(backlog') :
            backlog'[i] = backlog[i + 1] /\ i + 1 \in 1..Len(backlog) /\ i + 1 \in 2..Len(backlog)
    BY <1>1, <1>2
  <2>7. \A i \in 1..Len(backlog) : backlog[i] \in Requests
    BY <1>1, ElementOfSeq
  <2>8. \A i \in 1..Len(backlog') : graph'[backlog'[i]] = "queued"
    BY <1>1, <1>3, <2>1, <2>6, <2>7 DEF JobInv
  <2>9. \A i, j \in 1..Len(backlog') : backlog'[i] = backlog'[j] => i = j
    <3> SUFFICES ASSUME NEW i \in 1..Len(backlog'), NEW j \in 1..Len(backlog'),
                        backlog'[i] = backlog'[j]
                 PROVE  i = j
      OBVIOUS
    <3>1. i + 1 = j + 1
      BY <1>1, <2>6 DEF JobInv
    <3> QED BY <3>1
  <2> QED BY <2>4, <2>5, <2>8, <2>9 DEF JobInv
<1>6. ASSUME NEW q \in Requests PROVE Good(q)'
  <2>1. Good(q)
    BY DEF IInv
  <2>2. CASE q # r
    <3>1. graph'[q] = graph[q]
      BY <1>1, <2>2 DEF TypeOK
    <3> QED BY <1>1, <2>1, <3>1, GoodFrame
  <2>3. CASE q = r
    <3>1. graph'[r] = "running" /\ graph[r] = "queued"
      BY <1>1, <1>2, <1>3 DEF TypeOK
    <3>2. ~Answered(r) /\ stream[r] \notin {"idle", "begin", "refused", "missing", "finish", "save"}
      BY <2>1, <2>3, <3>1 DEF Good, FlowOf
    <3>3. stream[r] = "consume" => Flow(r, frames[r], queue[r], said[r], "running")
      BY <2>1, <2>3, <3>1 DEF Good, FlowOf, Flow
    <3>4. FlowOf(r)'
      BY <1>1, <3>1, <3>2, <3>3 DEF FlowOf, Answered
    <3>5. Ordered(r)' /\ Whole(r)'
      BY <1>1, <2>1, <2>3 DEF Good, Ordered, Whole, Answered
    <3> QED BY <2>3, <3>4, <3>5 DEF Good
  <2> QED BY <2>2, <2>3
<1> QED BY <1>4, <1>5, <1>6

\* What a thread puts while it runs a job follows what it has put before.
LEMMA JobStepGood ==
    ASSUME IInv, NEW w \in Threads, NEW r \in Requests, job[w] = r, NEW x \in Item,
           Put(r, x), NEW g \in {"running", "over"}, graph' = [graph EXCEPT ![r] = g],
           NEW n \in 0..MaxTokens, said' = [said EXCEPT ![r] = n],
           UNCHANGED <<stream, frames>>,
           stream[r] = "consume" => Flow(r, frames[r], queue'[r], n, g)
    PROVE  queue' \in [Requests -> Seq(Item)] /\ (\A q \in Requests : Good(q)')
<1>1. /\ TypeOK /\ queue' \in [Requests -> Seq(Item)]
      /\ \A q \in Requests : q # r => queue'[q] = queue[q]
  BY PutFacts DEF IInv
<1>2. r # None
  BY RequestAssumption
<1>3. ~Answered(r) /\ stream[r] \in {"consume", "ended", "gone"}
  BY <1>2, JobOf
<1>4. ASSUME NEW q \in Requests PROVE Good(q)'
  <2>1. Good(q)
    BY DEF IInv
  <2>2. CASE q # r
    <3>1. graph'[q] = graph[q] /\ said'[q] = said[q] /\ queue'[q] = queue[q]
      BY <1>1, <2>2 DEF TypeOK
    <3> QED BY <2>1, <3>1, GoodFrame
  <2>3. CASE q = r
    <3>1. graph'[r] = g /\ said'[r] = n
      BY <1>1 DEF TypeOK
    <3>2. FlowOf(r)'
      BY <1>3, <3>1 DEF FlowOf, Answered
    <3>3. Ordered(r)' /\ Whole(r)'
      BY <1>3, <2>1, <2>3 DEF Good, Ordered, Whole, Answered
    <3> QED BY <2>3, <3>2, <3>3 DEF Good
  <2> QED BY <2>2, <2>3
<1> QED BY <1>1, <1>4

\* So does a piece of an answer.
LEMMA SayGood ==
    ASSUME IInv, NEW w \in Threads, Say(w)
    PROVE  TypeOK' /\ JobInv' /\ (\A q \in Requests : Good(q)')
<1>0. PICK r \in Requests : job[w] = r
  BY JobOf DEF Say
<1>1. /\ TypeOK /\ JobInv /\ Good(r) /\ sink[w] = r /\ graph[r] = "running" /\ said[r] \in Nat
      /\ said[r] + 1 \in 0..MaxTokens /\ said' = [said EXCEPT ![r] = said[r] + 1]
      /\ UNCHANGED <<stream, sess, context, frames, graph, job, sink, backlog, sessions,
                     msgs, mem, faults, crashes>>
  <2>1. TypeOK /\ JobInv /\ Good(r) /\ sink[w] = r /\ graph[r] = "running" /\ said[r] \in 0..MaxTokens
    BY <1>0, JobOf DEF IInv, TypeOK, Say
  <2>2. said[r] + 1 \in 0..MaxTokens
    BY <1>0, <2>1, BoundAssumption DEF Say
  <2>3. said' = [said EXCEPT ![r] = said[r] + 1]
    BY <1>0 DEF Say
  <2>4. UNCHANGED <<stream, sess, context, frames, graph, job, sink, backlog, sessions,
                    msgs, mem, faults, crashes>>
    BY DEF Say, loopVars, tableVars
  <2>5. said[r] \in Nat
    BY <2>1, BoundAssumption
  <2> QED BY <2>1, <2>2, <2>3, <2>4, <2>5
<1>2. Put(r, Token(r, said[r] + 1))
  <2>1. said'[r] = said[r] + 1
    BY <1>1 DEF TypeOK
  <2> QED BY <1>0, <1>1, <2>1 DEF Say
<1>3. Token(r, said[r] + 1) \in Item
  BY <1>1, FrameTyped
<1>4. stream[r] = "consume" => Flow(r, frames[r], queue'[r], said[r] + 1, "running")
  <2>1. stream[r] = "consume" => Flow(r, frames[r], queue[r], said[r], "running")
    BY <1>1 DEF Good, FlowOf
  <2>2. Extended(queue[r], queue'[r], Token(r, said[r] + 1))
    BY <1>1, <1>2, <1>3, PutFacts
  <2>3. \A f, q, q2 : \A p \in Nat :
            Flow(r, f, q, p, "running") /\ Extended(q, q2, Token(r, p + 1)) =>
                Flow(r, f, q2, p + 1, "running")
    BY FlowSay
  <2> QED BY <1>1, <2>1, <2>2, <2>3, Zenon
<1>5. graph' = [graph EXCEPT ![r] = "running"]
  BY <1>1 DEF TypeOK
<1>6. queue' \in [Requests -> Seq(Item)] /\ (\A q \in Requests : Good(q)')
  BY <1>0, <1>1, <1>2, <1>3, <1>4, <1>5, JobStepGood
<1>7. TypeOK'
  BY <1>1, <1>6 DEF TypeOK
<1>8. JobInv'
  BY <1>1 DEF JobInv
<1> QED BY <1>6, <1>7, <1>8

\* So does the end of an answer.
LEMMA FinishGood ==
    ASSUME IInv, NEW w \in Threads, NEW result \in Results, Finish(w, result)
    PROVE  TypeOK' /\ JobInv' /\ (\A q \in Requests : Good(q)')
<1>0. PICK r \in Requests : job[w] = r
  BY JobOf DEF Finish
<1>1. /\ TypeOK /\ JobInv /\ Good(r) /\ graph[r] = "running"
      /\ said[r] \in Nat /\ said[r] \in 0..MaxTokens /\ said' = [said EXCEPT ![r] = said[r]]
      /\ graph' = [graph EXCEPT ![r] = "over"] /\ job' = [job EXCEPT ![w] = None]
      /\ sink' = [sink EXCEPT ![w] = None] /\ Put(r, Plain(result, r))
      /\ UNCHANGED <<stream, sess, context, frames, said, backlog, sessions, msgs, mem,
                     faults, crashes>>
  BY <1>0, JobOf DEF IInv, TypeOK, Finish, loopVars, tableVars
<1>2. Plain(result, r) \in Item /\ Plain(result, r).kind = result
  BY FrameTyped DEF Plain
<1>3. stream[r] = "consume" => Flow(r, frames[r], queue'[r], said[r], "over")
  <2>1. stream[r] = "consume" => Flow(r, frames[r], queue[r], said[r], "running")
    BY <1>1 DEF Good, FlowOf
  <2>2. Extended(queue[r], queue'[r], Plain(result, r))
    BY <1>1, <1>2, PutFacts
  <2>3. Plain(result, r).kind \in Results /\ (Plain(result, r).kind = "refusal" => said[r] = 0)
    BY <1>0, <1>2 DEF Finish
  <2>4. \A f, q, q2, x : \A p \in Nat :
            /\ Flow(r, f, q, p, "running") /\ Extended(q, q2, x)
            /\ x.kind \in Results /\ (x.kind = "refusal" => p = 0)
            => Flow(r, f, q2, p, "over")
    BY FlowClose
  <2> QED BY <1>1, <2>1, <2>2, <2>3, <2>4, Zenon
<1>4. queue' \in [Requests -> Seq(Item)] /\ (\A q \in Requests : Good(q)')
  BY <1>0, <1>1, <1>2, <1>3, JobStepGood
<1>5. TypeOK'
  BY <1>1, <1>4 DEF TypeOK
<1>6. JobInv'
  <2>1. /\ graph'[r] = "over" /\ \A q \in Requests : q # r => graph'[q] = graph[q]
        /\ job'[w] = None /\ \A v \in Threads : v # w => job'[v] = job[v] /\ sink'[v] = sink[v]
    BY <1>1 DEF TypeOK
  <2>2. \A v \in Threads : v # w /\ job[v] # None => job[v] \in Requests /\ job[v] # r
    BY <1>0, <1>1, RequestAssumption DEF JobInv, TypeOK
  <2>3. \A v \in Threads : job'[v] # None => graph'[job'[v]] = "running" /\ sink'[v] = job'[v]
    BY <1>1, <2>1, <2>2 DEF JobInv
  <2>4. \A u, v \in Threads : job'[u] # None /\ job'[u] = job'[v] => u = v
    BY <1>1, <2>1, <2>2 DEF JobInv
  <2>5. \A i \in 1..Len(backlog) : backlog[i] \in Requests /\ backlog[i] # r
    BY <1>1, ElementOfSeq DEF JobInv, TypeOK
  <2>6. \A i \in 1..Len(backlog) : graph'[backlog[i]] = "queued"
    BY <1>1, <2>1, <2>5 DEF JobInv
  <2> QED BY <1>1, <2>3, <2>4, <2>6 DEF JobInv
<1> QED BY <1>4, <1>5, <1>6
-----------------------------------------------------------------------------
\* After the process has died no job and no queue is left, and every stream
\* that was under way is closed.
LEMMA CrashGood ==
    ASSUME IInv, Crash, msgs' \in [Requests -> Seq(Messages)]
    PROVE  TypeOK' /\ JobInv' /\ (\A q \in Requests : Good(q)')
<1>1. TypeOK
  BY DEF IInv
<1>2. <<>> \in Seq(Item) /\ <<>> \in Seq(Requests) /\ Len(<<>>) = 0
  BY EmptySeq
<1>3. TypeOK'
  BY <1>1, <1>2, BoundAssumption DEF TypeOK, Crash, Live
<1>4. JobInv'
  BY <1>2 DEF JobInv, Crash
<1>5. ASSUME NEW q \in Requests PROVE Good(q)'
  <2>1. /\ Good(q) /\ frames' = frames /\ said' = said /\ queue'[q] = <<>>
        /\ graph'[q] = IF graph[q] = "none" THEN "none" ELSE "over"
        /\ stream'[q] = IF stream[q] \in Live THEN "gone" ELSE stream[q]
    BY DEF IInv, Crash
  <2>2. Ordered(q)' /\ Whole(q)' /\ (Answered(q)' <=> Answered(q))
    BY <2>1 DEF Good, Ordered, Whole, Answered
  <2>3. stream'[q] \in {"idle", "refused", "missing", "ended", "gone"}
    BY <1>1, <2>1 DEF TypeOK
  <2>4. FlowOf(q)'
    BY <2>1, <2>2, <2>3 DEF Good, FlowOf, Live
  <2> QED BY <2>2, <2>4 DEF Good
<1> QED BY <1>3, <1>4, <1>5
-----------------------------------------------------------------------------
(* What is saved.                                                          *)

\* Whoever saves finds no message of its own, so the question, alone or with
\* its answer, is added to a session once.
LEMMA AddSaved ==
    ASSUME IInv, NEW r \in Requests, stream[r] = "save", sess[r] # None,
           NEW new \in {<<Message("user", r)>>, Exchange(r)}, Add(sess[r], new),
           stream'[r] \in {"ended", "gone"},
           stream'[r] = "ended" /\ faults' = 0 => new = Exchange(r),
           \A q \in Requests : q # r /\ stream'[q] = "ended" => stream[q] = "ended",
           \A q \in Requests : stream[q] \in {"ended", "gone"} => stream'[q] = stream[q],
           faults' = 0 => faults = 0, UNCHANGED <<sess, frames>>
    PROVE  msgs' \in [Requests -> Seq(Messages)] /\ Saved'
<1>1. PICK s \in Requests : s = sess[r]
  BY DEF IInv, TypeOK
<1> DEFINE n == Len(msgs[s])
           k == Len(new)
<1>2. /\ TypeOK /\ Saved /\ Answered(r) /\ msgs \in [Requests -> Seq(Messages)]
      /\ msgs[s] \in Seq(Messages) /\ n \in Nat /\ DOMAIN msgs[s] = 1..n
  BY LenProperties DEF IInv, TypeOK, Good, FlowOf
<1>3. /\ Message("user", r) \in Messages /\ Message("assistant", r) \in Messages
      /\ Message("user", r).role = "user" /\ Message("user", r).of = r
      /\ Message("assistant", r).role = "assistant" /\ Message("assistant", r).of = r
  BY DEF Message, Messages
<1>4. /\ new \in Seq(Messages) /\ k \in 1..2 /\ new[1] = Message("user", r)
      /\ k = 2 => new[2] = Message("assistant", r)
      /\ new = Exchange(r) => k = 2
  <2>1. CASE new = Exchange(r)
    <3>1. new = <<Message("user", r), Message("assistant", r)>>
      BY <2>1 DEF Exchange
    <3> QED BY <1>3, <3>1
  <2>2. CASE new = <<Message("user", r)>> /\ new # Exchange(r)
    BY <1>3, <2>2
  <2> QED BY <2>1, <2>2
<1>5. msgs' = [msgs EXCEPT ![s] = msgs[s] \o new]
  BY <1>1 DEF Add
<1>6. /\ msgs[s] \o new \in Seq(Messages) /\ Len(msgs[s] \o new) = n + k
      /\ \A i \in 1..(n + k) : (msgs[s] \o new)[i] = IF i <= n THEN msgs[s][i] ELSE new[i - n]
  BY <1>2, <1>4, ConcatProperties
<1>7. /\ msgs' \in [Requests -> Seq(Messages)] /\ msgs'[s] = msgs[s] \o new
      /\ \A q \in Requests : q # s => msgs'[q] = msgs[q]
  BY <1>2, <1>5, <1>6
<1>8. DOMAIN msgs'[s] = 1..(n + k)
  BY <1>6, <1>7, LenProperties
<1> HIDE DEF n, k
<1>9. /\ \A i \in 1..n : msgs'[s][i] = msgs[s][i] /\ i \in 1..(n + k)
      /\ n + 1 \in 1..(n + k) /\ msgs'[s][n + 1] = Message("user", r)
      /\ \A i \in 1..(n + k) : i \in 1..n \/ i = n + 1
                               \/ (i = n + 2 /\ k = 2 /\ msgs'[s][i] = Message("assistant", r))
      /\ k = 2 => n + 2 \in 1..(n + k) /\ msgs'[s][n + 2] = Message("assistant", r)
  <2>1. n + 1 \in 1..(n + k) /\ ~(n + 1 <= n) /\ (n + 1) - n = 1
    BY <1>2, <1>4
  <2>2. k = 2 => n + 2 \in 1..(n + k) /\ ~(n + 2 <= n) /\ (n + 2) - n = 2
    BY <1>2, <1>4
  <2>3. \A i \in 1..n : i <= n /\ i \in 1..(n + k)
    BY <1>2, <1>4
  <2>4. \A i \in 1..(n + k) : i \in 1..n \/ i = n + 1 \/ (i = n + 2 /\ k = 2)
    BY <1>2, <1>4
  <2>5. msgs'[s][n + 1] = Message("user", r)
    BY <1>4, <1>6, <1>7, <2>1
  <2>6. k = 2 => msgs'[s][n + 2] = Message("assistant", r)
    BY <1>4, <1>6, <1>7, <2>2
  <2>7. \A i \in 1..n : msgs'[s][i] = msgs[s][i]
    BY <1>6, <1>7, <2>3
  <2> QED BY <2>1, <2>2, <2>3, <2>4, <2>5, <2>6, <2>7
<1>10. \A q \in Requests : \A i \in DOMAIN msgs[q] : msgs[q][i].of # r /\ msgs[q][i].of \in Requests
  BY <1>2, SequencesTyped DEF Saved, SavedInv, Messages
<1>11. SavedInv'
  <2> SUFFICES ASSUME NEW q \in Requests, NEW i \in DOMAIN msgs'[q]
               PROVE  stream'[msgs'[q][i].of] \in {"ended", "gone"}
    BY DEF SavedInv
  <2>1. CASE i \in DOMAIN msgs[q] /\ msgs'[q][i] = msgs[q][i]
    BY <1>2, <1>10, <2>1 DEF Saved, SavedInv
  <2>2. CASE msgs'[q][i].of = r
    BY <2>2
  <2> QED BY <1>2, <1>3, <1>7, <1>8, <1>9, <2>1, <2>2
<1>12. ExchangesPaired'
  <2> SUFFICES ASSUME NEW q \in Requests, NEW i \in DOMAIN msgs'[q]
               PROVE  /\ msgs'[q][i].role = "assistant" =>
                             i > 1 /\ msgs'[q][i - 1] = Message("user", msgs'[q][i].of)
                      /\ \A j \in DOMAIN msgs'[q] : msgs'[q][i] = msgs'[q][j] => i = j
    BY DEF ExchangesPaired, Message
  <2>1. CASE q # s
    BY <1>2, <1>7, <2>1 DEF Saved, ExchangesPaired
  <2>2. CASE q = s
    <3>1. i \in 1..(n + k)
      BY <1>8, <2>2
    <3>2. msgs'[s][i].role = "assistant" =>
              i > 1 /\ msgs'[s][i - 1] = Message("user", msgs'[s][i].of)
      <4>1. CASE i \in 1..n
        <5>1. i > 1 => i - 1 \in 1..n
          BY <1>2, <4>1
        <5>2. msgs[s][i].role = "assistant" =>
                  i > 1 /\ msgs[s][i - 1] = Message("user", msgs[s][i].of)
          BY <1>2, <4>1 DEF Saved, ExchangesPaired
        <5> QED BY <1>9, <4>1, <5>1, <5>2
      <4>2. CASE i = n + 1
        BY <1>3, <1>9, <4>2
      <4>3. CASE i = n + 2 /\ msgs'[s][i] = Message("assistant", r)
        <5>1. i > 1 /\ i - 1 = n + 1
          BY <1>2, <4>3
        <5> QED BY <1>3, <1>9, <4>3, <5>1
      <4> QED BY <1>9, <3>1, <4>1, <4>2, <4>3
    <3>3. ASSUME NEW j \in 1..(n + k), msgs'[s][i] = msgs'[s][j] PROVE i = j
      <4>1. \A h \in 1..n : msgs'[s][h].of # r
        BY <1>2, <1>9, <1>10
      <4>2. \A h \in 1..(n + k) : h \notin 1..n => msgs'[s][h].of = r
        BY <1>3, <1>9
      <4>3. i \in 1..n <=> j \in 1..n
        BY <3>1, <3>3, <4>1, <4>2
      <4>4. CASE i \in 1..n
        <5>1. msgs[s][i] = msgs[s][j]
          BY <1>9, <3>3, <4>3, <4>4
        <5> QED BY <1>2, <4>3, <4>4, <5>1 DEF Saved, ExchangesPaired
      <4>5. CASE i \notin 1..n
        BY <1>3, <1>9, <3>1, <3>3, <4>3, <4>5
      <4> QED BY <4>4, <4>5
    <3> QED BY <1>8, <2>2, <3>2, <3>3
  <2> QED BY <2>1, <2>2
<1>13. HistoryMatchesStreams'
  <2>1. ASSUME NEW q \in Requests, NEW t \in Requests, NEW i \in DOMAIN msgs'[t], msgs'[t][i].of = q
        PROVE  sess'[q] = t /\ Answered(q)'
    <3>1. Answered(q)' <=> Answered(q)
      BY DEF Answered
    <3>2. CASE i \in DOMAIN msgs[t] /\ msgs'[t][i] = msgs[t][i]
      BY <1>2, <2>1, <3>1, <3>2 DEF Saved, HistoryMatchesStreams
    <3>3. CASE t = s /\ msgs'[t][i].of = r
      BY <1>1, <1>2, <2>1, <3>1, <3>3
    <3> QED BY <1>2, <1>3, <1>7, <1>8, <1>9, <2>1, <3>2, <3>3
  <2>2. ASSUME NEW q \in Requests, stream'[q] = "ended", Answered(q)', sess'[q] # None, faults' = 0,
               NEW role \in {"user", "assistant"}
        PROVE  \E i \in DOMAIN msgs'[sess'[q]] : msgs'[sess'[q]][i] = Message(role, q)
    <3>1. CASE q = r
      <4>1. k = 2 /\ n + 1 \in DOMAIN msgs'[s] /\ n + 2 \in DOMAIN msgs'[s]
        BY <1>4, <1>8, <1>9, <2>2, <3>1
      <4> QED BY <1>1, <1>9, <2>2, <3>1, <4>1
    <3>2. CASE q # r
      <4>1. stream[q] = "ended" /\ Answered(q) /\ sess[q] # None /\ faults = 0 /\ sess[q] \in Requests
        BY <1>2, <2>2, <3>2 DEF Answered, TypeOK
      <4>2. PICK i \in DOMAIN msgs[sess[q]] : msgs[sess[q]][i] = Message(role, q)
        BY <1>2, <2>2, <4>1 DEF Saved, HistoryMatchesStreams
      <4>3. i \in DOMAIN msgs'[sess[q]] /\ msgs'[sess[q]][i] = msgs[sess[q]][i]
        BY <1>2, <1>7, <1>8, <1>9, <4>1, <4>2
      <4> QED BY <4>2, <4>3
    <3> QED BY <3>1, <3>2
  <2> QED BY <2>1, <2>2 DEF HistoryMatchesStreams, Message
<1> QED BY <1>7, <1>11, <1>12, <1>13 DEF Saved

\* The steps of one stream after which no message is due.
LEMMA QuietSaved ==
    ASSUME IInv, NEW r \in Requests, stream[r] \notin {"ended", "gone"},
           NEW next, stream' = [stream EXCEPT ![r] = next],
           next = "ended" => ~Answered(r)' \/ sess'[r] = None \/ faults' # 0,
           UNCHANGED msgs, faults' = 0 => faults = 0,
           \A q \in Requests : q # r => sess'[q] = sess[q] /\ frames'[q] = frames[q]
    PROVE  Saved'
<1>1. TypeOK /\ Saved /\ stream'[r] = next /\ \A q \in Requests : q # r => stream'[q] = stream[q]
  BY DEF IInv, TypeOK
<1> QED BY <1>1, SavedFrame

\* A question is asked: nothing is saved.
LEMMA AskSaved ==
    ASSUME IInv, NEW r \in Requests, Ask(r)
    PROVE  Saved'
<1>1. /\ stream[r] = "idle" /\ UNCHANGED <<frames, msgs>> /\ faults' \in {faults, faults + 1}
      /\ \E next \in {"begin", "missing", "refused"} : stream' = [stream EXCEPT ![r] = next]
  BY DEF Ask, AskGuest, AskNew, AskRefused, AskFault, AskResume, AskMissing, Arrives, Goto,
     tableVars
<1>2. \A q \in Requests : q # r => sess'[q] = sess[q]
  BY DEF Ask, AskGuest, AskNew, AskRefused, AskFault, AskResume, AskMissing, IInv, TypeOK
<1>3. PICK next \in {"begin", "missing", "refused"} : stream' = [stream EXCEPT ![r] = next]
  BY <1>1
<1>4. faults' = 0 => faults = 0
  BY <1>1 DEF IInv, TypeOK
<1> QED BY <1>1, <1>2, <1>3, <1>4, QuietSaved

\* Frames are sent: nothing is saved.
LEMMA FramesSaved ==
    ASSUME IInv, NEW r \in Requests,
           Begin(r) \/ TokenFrame(r) \/ ErrorFrame(r) \/ RefusalFrame(r) \/ AnswerFrame(r) \/ DoneFrame(r)
    PROVE  Saved'
<1> USE DEF IInv
<1>1. TypeOK /\ UNCHANGED <<sess, msgs, faults>> /\ stream[r] \notin {"ended", "gone"}
  BY DEF Begin, TokenFrame, ErrorFrame, RefusalFrame, AnswerFrame, DoneFrame, Get, tableVars
<1>2. \A q \in Requests : q # r => frames'[q] = frames[q]
  BY DEF Begin, TokenFrame, ErrorFrame, RefusalFrame, AnswerFrame, DoneFrame, Send, TypeOK
<1>3. CASE Begin(r)
  BY <1>1, <1>2, <1>3, QuietSaved DEF Begin, Goto
<1>4. CASE TokenFrame(r)
  <2>1. stream' = [stream EXCEPT ![r] = "consume"] /\ "consume" # "ended"
    BY <1>1, <1>4 DEF TokenFrame, Get, TypeOK
  <2> QED BY <1>1, <1>2, <2>1, QuietSaved
<1>5. CASE ErrorFrame(r)
  <2>1. Good(r)' /\ stream'[r] = "ended"
    BY <1>1, <1>5, ErrorFrameGood DEF ErrorFrame, Goto, TypeOK
  <2>2. Send(r, Plain("error", r)) /\ Plain("error", r) \in Frame /\ Plain("error", r).kind = "error"
    BY <1>5, FrameTyped DEF ErrorFrame, Stages, Plain
  <2>3. ~Answered(r)'
    <3>1. Extended(frames[r], frames'[r], Plain("error", r)) /\ Len(frames[r]) \in Nat
      BY <1>1, <2>2, SendFacts
    <3>2. frames'[r][Len(frames'[r])] = Plain("error", r)
      BY <3>1 DEF Extended
    <3> QED BY <2>2, <3>2 DEF Answered
  <2>4. stream' = [stream EXCEPT ![r] = "ended"]
    BY <1>5 DEF ErrorFrame, Goto
  <2> QED BY <1>1, <1>2, <2>3, <2>4, QuietSaved
<1>6. CASE RefusalFrame(r)
  BY <1>1, <1>2, <1>6, QuietSaved DEF RefusalFrame, Goto
<1>7. CASE AnswerFrame(r)
  <2>1. PICK next \in {"save", "finish"} : stream' = [stream EXCEPT ![r] = next]
    BY <1>7 DEF AnswerFrame, Goto
  <2> QED BY <1>1, <1>2, <2>1, QuietSaved
<1>8. CASE DoneFrame(r)
  BY <1>1, <1>2, <1>8, QuietSaved DEF DoneFrame, Goto
<1> QED BY <1>3, <1>4, <1>5, <1>6, <1>7, <1>8

\* Ends of a stream: saved, saved in part, or closed without saving.
LEMMA StopInv ==
    ASSUME IInv, NEW r \in Requests, Save(r) \/ SaveFault(r) \/ Disconnect(r)
    PROVE  IInv'
<1>1. /\ TypeOK /\ stream[r] \in Live
      /\ UNCHANGED <<sess, context, frames, queue, graph, said, job, sink, backlog,
                     sessions, mem, crashes>>
  BY DEF IInv, Save, SaveFault, Disconnect, Live, threadVars, tableVars
<1>2. faults' \in Nat /\ (faults' = 0 => faults = 0)
  BY <1>1 DEF Save, SaveFault, Disconnect, TypeOK
<1>3. PICK next \in {"ended", "gone"} : Goto(r, next) /\ stream'[r] = next
  BY <1>1 DEF Save, SaveFault, Disconnect, Goto, TypeOK
<1>4. /\ \A q \in Requests : q # r => stream'[q] = stream[q]
      /\ stream[r] \notin {"ended", "gone"}
  BY <1>1, <1>3 DEF Goto, TypeOK, Live
<1>5. msgs' \in [Requests -> Seq(Messages)] /\ Saved'
  <2>1. CASE UNCHANGED msgs /\ (next = "ended" => sess[r] = None \/ faults' # 0)
    <3>1. msgs' \in [Requests -> Seq(Messages)]
      BY <1>1, <2>1 DEF TypeOK
    <3>2. Saved'
      BY <1>1, <1>2, <1>3, <1>4, <2>1, QuietSaved DEF Goto
    <3> QED BY <3>1, <3>2
  <2>2. ASSUME stream[r] = "save", sess[r] # None,
               NEW new \in {<<Message("user", r)>>, Exchange(r)}, Add(sess[r], new),
               faults' = 0 => new = Exchange(r)
        PROVE  msgs' \in [Requests -> Seq(Messages)] /\ Saved'
    BY <1>1, <1>2, <1>3, <1>4, <2>2, AddSaved
  <2>3. CASE Save(r)
    BY <1>1, <2>1, <2>2, <2>3 DEF Save
  <2>4. CASE SaveFault(r)
    <3>1. faults' # 0 /\ stream[r] = "save" /\ sess[r] # None
      BY <1>1, <2>4 DEF SaveFault, TypeOK
    <3> QED BY <2>1, <2>2, <2>4, <3>1 DEF SaveFault
  <2>5. CASE Disconnect(r)
    <3>1. stream'[r] = "gone" /\ UNCHANGED msgs
      BY <1>1, <2>5 DEF Disconnect, Goto, TypeOK, tableVars
    <3> QED BY <1>3, <2>1, <3>1
  <2> QED BY <2>3, <2>4, <2>5
<1>6. TypeOK' /\ JobInv' /\ (\A q \in Requests : Good(q)')
  BY <1>1, <1>2, <1>3, <1>5, StopGood
<1> QED BY <1>5, <1>6 DEF IInv

\* The process dies: sessions keep what they hold.
LEMMA CrashSaved ==
    ASSUME IInv, Crash
    PROVE  msgs' \in [Requests -> Seq(Messages)] /\ Saved'
<1>1. /\ TypeOK /\ Saved /\ UNCHANGED <<sess, frames, faults>>
      /\ \A q \in Requests : stream'[q] = IF stream[q] \in Live THEN "gone" ELSE stream[q]
  BY DEF IInv, Crash
<1>2. /\ \A q \in Requests : stream[q] \in {"ended", "gone"} => stream'[q] = stream[q]
      /\ \A q \in Requests : stream'[q] = "ended" => stream[q] = "ended"
  BY <1>1 DEF Live
<1>3. CASE UNCHANGED msgs
  <2>1. msgs' \in [Requests -> Seq(Messages)]
    BY <1>1, <1>3 DEF TypeOK
  <2> QED BY <1>1, <1>2, <1>3, <2>1, SavedFrame
<1>4. ASSUME NEW r \in Requests, stream[r] = "save", sess[r] # None,
             Add(sess[r], <<Message("user", r)>>)
      PROVE  msgs' \in [Requests -> Seq(Messages)] /\ Saved'
  <2>1. stream'[r] = "gone"
    BY <1>1, <1>4 DEF Live
  <2> QED BY <1>1, <1>2, <1>4, <2>1, AddSaved
<1> QED BY <1>3, <1>4 DEF Crash

\* Every step of a thread keeps the invariant.
LEMMA RunInv ==
    ASSUME IInv, NEW w \in Threads, Run(w)
    PROVE  IInv'
<1>1. TypeOK' /\ JobInv' /\ (\A q \in Requests : Good(q)')
  BY StartJobGood, SayGood, FinishGood DEF Run
<1>2. UNCHANGED <<stream, sess, frames, msgs, faults>>
  BY DEF Run, StartJob, Say, Finish, loopVars, tableVars
<1>3. Saved'
  BY <1>2, SavedFrame DEF IInv, Answered
<1> QED BY <1>1, <1>3 DEF IInv
-----------------------------------------------------------------------------
(* The theorems.                                                           *)

\* The invariant holds at the start.
LEMMA InitInv == Init => IInv
<1> SUFFICES ASSUME Init PROVE IInv
  OBVIOUS
<1> USE DEF Init
<1>1. /\ <<>> \in Seq(Frame) /\ <<>> \in Seq(Item) /\ <<>> \in Seq(Requests)
      /\ <<>> \in Seq(Messages) /\ Len(<<>>) = 0 /\ DOMAIN <<>> = {}
  BY EmptySeq
<1>2. TypeOK
  BY <1>1, BoundAssumption DEF TypeOK, Live
<1>3. JobInv
  BY <1>1 DEF JobInv
<1>4. ASSUME NEW r \in Requests PROVE Good(r)
  BY <1>1 DEF Good, FlowOf, Ordered, Whole, Answered
<1>5. Saved
  BY <1>1 DEF Saved, SavedInv, ExchangesPaired, HistoryMatchesStreams
<1> QED BY <1>2, <1>3, <1>4, <1>5 DEF IInv

\* Every step keeps the invariant.
LEMMA NextInv == IInv /\ [Next]_vars => IInv'
<1> SUFFICES ASSUME IInv, [Next]_vars PROVE IInv'
  OBVIOUS
<1>1. ASSUME NEW r \in Requests, Ask(r) PROVE IInv'
  BY <1>1, AskGood, AskSaved DEF IInv
<1>2. ASSUME NEW r \in Requests,
             Begin(r) \/ TokenFrame(r) \/ ErrorFrame(r) \/ RefusalFrame(r)
                 \/ AnswerFrame(r) \/ DoneFrame(r)
      PROVE  IInv'
  <2>1. TypeOK' /\ JobInv' /\ (\A q \in Requests : Good(q)')
    BY <1>2, BeginGood, TokenFrameGood, ErrorFrameGood, RefusalFrameGood, AnswerFrameGood,
       DoneFrameGood
  <2> QED BY <1>2, <2>1, FramesSaved DEF IInv
<1>3. ASSUME NEW r \in Requests, Save(r) \/ SaveFault(r) \/ Disconnect(r) PROVE IInv'
  BY <1>3, StopInv
<1>4. ASSUME NEW w \in Threads, Run(w) PROVE IInv'
  BY <1>4, RunInv
<1>5. CASE Crash
  BY <1>5, CrashGood, CrashSaved DEF IInv
<1>6. CASE UNCHANGED vars
  <2>1. TypeOK' /\ JobInv' /\ Saved'
    BY <1>6 DEF IInv, vars, loopVars, threadVars, tableVars, TypeOK, JobInv, Saved, SavedInv,
       ExchangesPaired, HistoryMatchesStreams, Answered
  <2>2. ASSUME NEW q \in Requests PROVE Good(q)'
    BY <1>6, GoodFrame DEF IInv, vars, loopVars, threadVars
  <2> QED BY <2>1, <2>2 DEF IInv
<1> QED BY <1>1, <1>2, <1>3, <1>4, <1>5, <1>6 DEF Next, Generate

\* Every variable of the model keeps its type; the context of an answer and
\* the memory of guest questions keep their bounds (routes.py:229-248).
THEOREM TypeCorrect == Spec => []TypeOK
<1>1. IInv => TypeOK
  BY DEF IInv
<1> QED BY InitInv, NextInv, <1>1, PTL DEF Spec

\* Frames come in the order a client relies on (routes.py:106-107).
THEOREM FramesOrdered == Spec => []FrameOrder
<1>1. IInv => FrameOrder
  BY DEF IInv, Good, FrameOrder
<1> QED BY InitInv, NextInv, <1>1, PTL DEF Spec

\* The streamed text is whole, in order, and its own (protocol.py:26-28).
THEOREM TextsArrive == Spec => []TokensWhole
<1>1. IInv => TokensWhole
  BY DEF IInv, Good, TokensWhole
<1> QED BY InitInv, NextInv, <1>1, PTL DEF Spec

\* Answers stand after their questions, each once (routes.py:172-181).
THEOREM PairsKept == Spec => []ExchangesPaired
<1>1. IInv => ExchangesPaired
  BY DEF IInv, Saved
<1> QED BY InitInv, NextInv, <1>1, PTL DEF Spec

\* Sessions hold what was answered in them, and all of it unless a database
\* call has raised (routes.py:170-183).
THEOREM HistoryTrue == Spec => []HistoryMatchesStreams
<1>1. IInv => HistoryMatchesStreams
  BY DEF IInv, Saved
<1> QED BY InitInv, NextInv, <1>1, PTL DEF Spec
=============================================================================
