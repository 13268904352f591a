---------------------------- MODULE AccessProofs ----------------------------
(***************************************************************************)
(* Access holds for any users, knowledge bases, conversations and requests. *)
(***************************************************************************)
EXTENDS Access, TLAPS

\* Whoever sent a request has an account, for no account is ever closed.
Senders == \A r \in Requests : req[r] \in Request => role[req[r].user] # "none"

\* A session is bound to a knowledge base of its first question, until that one is
\* deleted.
BoundIn(conv) ==
    conv.user # Nobody => IF conv.bound # NoKb THEN conv.bound \in conv.first
                                               ELSE conv.first \cap gone # {}
Bound == \A c \in Chats : BoundIn(chat[c])

\* What SubjectLostByDeletion says of one conversation.
OnSubject(conv) ==
    conv.scope \subseteq conv.first \cup {DefaultKb} \/ conv.first \cap gone # {}

Inv == TypeOK /\ Senders /\ Bound /\ AdminRemains /\ ScopeEntitled /\ SubjectLostByDeletion

-----------------------------------------------------------------------------
\* What a request is once it has passed its checks, by what it asks for.
LEMMA Passed ==
    ASSUME TypeOK, NEW r \in Requests, req[r].at \in {"authenticated", "authorised"}
    PROVE  /\ req[r] \in Request /\ req[r].user \in Users /\ req[r].role \in Roles
           /\ req[r].op \in Ops
  BY DEF TypeOK, Request, Unsent, Over

\* What a request asks for, once it has passed its checks.
LEMMA Wanted ==
    ASSUME NEW op \in Ops
    PROVE  /\ op.do = "role" => op.to \in Users /\ op.val \in Roles
           /\ op.do = "disable" => op.to \in Users
           /\ op.do \in {"publish", "delete", "create"} => op.kb \in Kbs
  BY DEF Ops, AdminOps, KbOps, CreateOps

\* What a question is searched in.
LEMMA Resolved ==
    ASSUME NEW u, NEW want
    PROVE  /\ ResolveKbIds(u, want) \subseteq VisibleKbIds(u) \cup {DefaultKb}
           /\ want # NoKb => ResolveKbIds(u, want) \subseteq {want}
           /\ ResolveKbIds(u, want) \subseteq Kbs
  BY KbAssumption DEF ResolveKbIds, VisibleKbIds, Live

\* A question searches within what its asker sees and what it was asked in.
LEMMA Searched ==
    ASSUME NEW ids
    PROVE  /\ SearchScope(ids) \subseteq ids \cup {DefaultKb}
           /\ ids # {} => SearchScope(ids) = ids
  BY DEF SearchScope

\* One rule for the list, the search and the check.
LEMMA OneRule == TypeOK => VisibilityAgrees
  BY UserAssumption DEF TypeOK, VisibilityAgrees, Listed, VisibleKbIds, MayAccess, Live,
     Admins, Enabled, Roles
-----------------------------------------------------------------------------
\* What the conversations promise, which their own steps alone can disturb.
Talk == Bound /\ ScopeEntitled /\ SubjectLostByDeletion

\* The invariant holds at the start.
LEMMA InitHolds == Init => Inv
  <1>1. SUFFICES ASSUME Init PROVE Inv
    OBVIOUS
  <1>2. TypeOK
    BY <1>1, UserAssumption, KbAssumption
    DEF Init, TypeOK, EnsureAdmin, Roles, Live, Conversation, Unopened
  <1>3. Senders /\ Bound
    BY <1>1, KbAssumption DEF Init, Senders, Bound, BoundIn, Request, Unsent, Unopened
  <1>4. AdminRemains
    BY <1>1, UserAssumption DEF Init, AdminRemains, Admins, Enabled, EnsureAdmin
  <1>5. ScopeEntitled /\ SubjectLostByDeletion
    BY <1>1 DEF Init, ScopeEntitled, SubjectLostByDeletion, Unopened
  <1> QED BY <1>2, <1>3, <1>4, <1>5 DEF Inv

\* A registration keeps it.
LEMMA RegisterKeeps == ASSUME Inv, NEW u \in Users, Register(u) PROVE Inv'
  <1>1. TypeOK'
    BY DEF Inv, TypeOK, Register, Roles, Live, Conversation, Request
  <1>2. Senders'
    BY DEF Inv, Senders, TypeOK, Register, Request
  <1>3. AdminRemains'
    BY DEF Inv, TypeOK, AdminRemains, Admins, Enabled, Register
  <1>4. Talk'
    BY DEF Inv, Talk, Bound, BoundIn, ScopeEntitled, SubjectLostByDeletion, Register
  <1> QED BY <1>1, <1>2, <1>3, <1>4 DEF Inv, Talk

\* The read of the sender's account keeps it.
LEMMA AuthenticateKeeps == ASSUME Inv, NEW r \in Requests, Authenticate(r) PROVE Inv'
  <1>1. PICK u \in Enabled, op \in Ops :
           req' = [req EXCEPT ![r] = [at |-> IF op \in KbOps THEN "authenticated"
                                                             ELSE "authorised",
                                      user |-> u, role |-> role[u], op |-> op]]
    BY DEF Authenticate
  <1>2. u \in Users /\ role[u] \in Roles /\ role[u] # "none"
    BY DEF Inv, TypeOK, Enabled
  <1>3. UNCHANGED <<role, disabled, owner, public, gone, chat, stale>>
    BY DEF Authenticate, tables
  <1>4. TypeOK'
    <2>1. req' \in [Requests -> Request \cup {Unsent, Over}]
      BY <1>1, <1>2 DEF Inv, TypeOK, Request
    <2> QED BY <1>3, <2>1 DEF Inv, TypeOK, Live
  <1>5. Senders'
    BY <1>1, <1>2, <1>3 DEF Inv, Senders, TypeOK
  <1>6. AdminRemains' /\ Talk'
    BY <1>3 DEF Inv, AdminRemains, Admins, Enabled, Talk, Bound, BoundIn, ScopeEntitled, SubjectLostByDeletion
  <1> QED BY <1>4, <1>5, <1>6 DEF Inv, Talk

\* The check of a request keeps it.
LEMMA AuthoriseKeeps == ASSUME Inv, NEW r \in Requests, Authorise(r) PROVE Inv'
  <1>1. /\ req[r] \in Request
        /\ req' = [req EXCEPT ![r] = [req[r] EXCEPT !.at = "authorised"]]
           \/ req' = [req EXCEPT ![r] = Over]
    BY Passed DEF Inv, TypeOK, Authorise
  <1>2. UNCHANGED <<role, disabled, owner, public, gone, chat, stale>>
    BY DEF Authorise, tables
  <1>3. [req[r] EXCEPT !.at = "authorised"] \in Request
    BY <1>1 DEF Request
  <1>4. TypeOK'
    <2>1. req' \in [Requests -> Request \cup {Unsent, Over}]
      BY <1>1, <1>3 DEF Inv, TypeOK
    <2> QED BY <1>2, <2>1 DEF Inv, TypeOK, Live
  <1>5. Senders'
    <2>1. [req[r] EXCEPT !.at = "authorised"].user = req[r].user
      BY <1>1 DEF Request
    <2>2. Over \notin Request
      BY DEF Over, Request
    <2> QED BY <1>1, <1>2, <2>1, <2>2 DEF Inv, Senders, TypeOK
  <1>6. AdminRemains' /\ Talk'
    BY <1>2 DEF Inv, AdminRemains, Admins, Enabled, Talk, Bound, BoundIn, ScopeEntitled, SubjectLostByDeletion
  <1> QED BY <1>4, <1>5, <1>6 DEF Inv, Talk

\* A request that is over is nobody's.
LEMMA Closed ==
    ASSUME Inv, NEW r \in Requests, Close(r),
           \A u \in Users : role[u] # "none" => role'[u] # "none"
    PROVE  /\ Senders' /\ req' \in [Requests -> Request \cup {Unsent, Over}]
  <1>1. Over \notin Request
    BY DEF Over, Request
  <1>2. \A q \in Requests : req[q] \in Request => req[q].user \in Users
    BY DEF Request
  <1> QED BY <1>1, <1>2 DEF Inv, TypeOK, Senders, Close

\* What a handler knows of its request.
LEMMA Handled ==
    ASSUME Inv, NEW r \in Requests, NEW do, Ready(r, do)
    PROVE  /\ req[r].user \in Users /\ role[req[r].user] # "none"
           /\ req[r].op \in Ops /\ req[r].op.do = do
  BY Passed DEF Inv, Ready, Senders

\* A change of role keeps it: the actor is an administrator other than the target.
LEMMA ChangeRoleKeeps == ASSUME Inv, NEW r \in Requests, ChangeRole(r) PROVE Inv'
  <1> DEFINE u == req[r].op.to
             v == req[r].op.val
  <1>1. u \in Users /\ v \in Roles /\ req[r].user \in Users /\ u # req[r].user
    BY Handled, Wanted DEF ChangeRole
  <1>2. /\ role' \in [Users -> Roles \cup {"none"}]
        /\ \A w \in Users : role[w] = "none" <=> role'[w] = "none"
        /\ \A w \in Users \ {u} : role'[w] = role[w]
    BY <1>1 DEF Inv, TypeOK, ChangeRole, SetRole, Roles
  <1>3. /\ UNCHANGED <<disabled, owner, public, gone, chat>> /\ Close(r)
        /\ stale' = (stale \/ ~Fresh(r))
    BY DEF ChangeRole
  <1>4. Senders' /\ req' \in [Requests -> Request \cup {Unsent, Over}]
    BY <1>2, <1>3, Closed
  <1>5. TypeOK'
    <2>1. stale' \in BOOLEAN
      BY <1>3
    <2> QED BY <1>2, <1>3, <1>4, <2>1 DEF Inv, TypeOK, Live
  <1>6. AdminRemains'
    <2>1. CASE ~Fresh(r)
      BY <1>3, <2>1 DEF AdminRemains
    <2>2. CASE Fresh(r)
      BY <1>1, <1>2, <1>3, <2>2 DEF Fresh, AdminRemains, Admins, Enabled
    <2> QED BY <2>1, <2>2
  <1>7. Talk'
    BY <1>3 DEF Inv, Talk, Bound, BoundIn, ScopeEntitled, SubjectLostByDeletion
  <1> QED BY <1>4, <1>5, <1>6, <1>7 DEF Inv, Talk

\* Disabling an account keeps it: the actor is an administrator other than the target.
LEMMA DisableKeeps == ASSUME Inv, NEW r \in Requests, Disable(r) PROVE Inv'
  <1> DEFINE u == req[r].op.to
  <1>1. u \in Users /\ req[r].user \in Users /\ u # req[r].user
    BY Handled, Wanted DEF Disable
  <1>2. /\ disabled' \subseteq {w \in Users : role[w] # "none"}
        /\ disabled' \subseteq disabled \cup {u}
    BY <1>1 DEF Inv, TypeOK, Disable, SetDisabled
  <1>3. /\ UNCHANGED <<role, owner, public, gone, chat>> /\ Close(r)
        /\ stale' = (stale \/ ~Fresh(r))
    BY DEF Disable
  <1>4. Senders' /\ req' \in [Requests -> Request \cup {Unsent, Over}]
    BY <1>3, Closed
  <1>5. TypeOK'
    <2>1. stale' \in BOOLEAN
      BY <1>3
    <2> QED BY <1>2, <1>3, <1>4, <2>1 DEF Inv, TypeOK, Live
  <1>6. AdminRemains'
    <2>1. CASE ~Fresh(r)
      BY <1>3, <2>1 DEF AdminRemains
    <2>2. CASE Fresh(r)
      BY <1>1, <1>2, <1>3, <2>2 DEF Fresh, AdminRemains, Admins, Enabled
    <2> QED BY <2>1, <2>2
  <1>7. Talk'
    BY <1>3 DEF Inv, Talk, Bound, BoundIn, ScopeEntitled, SubjectLostByDeletion
  <1> QED BY <1>4, <1>5, <1>6, <1>7 DEF Inv, Talk
\* A handler about knowledge bases leaves the accounts alone.
LEMMA AccountsKept ==
    ASSUME Inv, UNCHANGED <<role, disabled, stale>>
    PROVE  AdminRemains'
  BY DEF Inv, AdminRemains, Admins, Enabled

\* Creating a knowledge base keeps it.
LEMMA CreateKbKeeps == ASSUME Inv, NEW r \in Requests, CreateKb(r) PROVE Inv'
  <1> DEFINE k == req[r].op.kb
             u == req[r].user
  <1>1. k \in Kbs /\ u \in Users /\ role[u] # "none"
    BY Handled, Wanted DEF CreateKb
  <1>2. /\ k \notin gone
        /\ owner' = [owner EXCEPT ![k] = u]
        /\ public' = public \/ public' = public \cup {k}
    BY DEF CreateKb
  <1>3. UNCHANGED <<role, disabled, gone, chat, stale>> /\ Close(r)
    BY DEF CreateKb
  <1>4. Senders' /\ req' \in [Requests -> Request \cup {Unsent, Over}]
    BY <1>3, Closed
  <1>5. TypeOK'
    <2>1. owner' \in [Kbs -> {w \in Users : role[w] # "none"} \cup {Nobody}]
      BY <1>1, <1>2 DEF Inv, TypeOK
    <2>2. Live' = Live \cup {k}
      BY <1>1, <1>2, UserAssumption DEF Inv, TypeOK, Live
    <2>3. public' \subseteq Live' /\ gone' \subseteq Kbs \ Live'
      BY <1>2, <1>3, <2>2 DEF Inv, TypeOK
    <2> QED BY <1>3, <1>4, <2>1, <2>3 DEF Inv, TypeOK
  <1>6. Talk'
    BY <1>3 DEF Inv, Talk, Bound, BoundIn, ScopeEntitled, SubjectLostByDeletion
  <1> QED BY <1>3, <1>4, <1>5, <1>6, AccountsKept DEF Inv, Talk

\* Publishing or hiding one keeps it.
LEMMA PublishKeeps == ASSUME Inv, NEW r \in Requests, Publish(r) PROVE Inv'
  <1>1. UNCHANGED <<role, disabled, owner, gone, chat, stale>> /\ Close(r)
    BY DEF Publish
  <1>2. public' \subseteq Live
    BY DEF Inv, TypeOK, Publish, UpdateKb
  <1>3. Senders' /\ req' \in [Requests -> Request \cup {Unsent, Over}]
    BY <1>1, Closed
  <1>4. TypeOK'
    BY <1>1, <1>2, <1>3 DEF Inv, TypeOK, Live
  <1>5. Talk'
    BY <1>1 DEF Inv, Talk, Bound, BoundIn, ScopeEntitled, SubjectLostByDeletion
  <1> QED BY <1>1, <1>3, <1>4, <1>5, AccountsKept DEF Inv, Talk

\* Deleting one keeps it.
LEMMA DeleteKbKeeps == ASSUME Inv, NEW r \in Requests, DeleteKb(r) PROVE Inv'
  <1> DEFINE k == req[r].op.kb
  <1>1. k \in Kbs
    BY Handled, Wanted DEF DeleteKb
  <1>2. /\ owner' = [owner EXCEPT ![k] = Nobody]
        /\ public' = public \ {k}
        /\ gone' = gone \cup {k}
        /\ chat' = Unbound({k})
        /\ UNCHANGED <<role, disabled, stale>> /\ Close(r)
    BY DEF DeleteKb
  <1>3. Senders' /\ req' \in [Requests -> Request \cup {Unsent, Over}]
    BY <1>2, Closed
  <1>4. \A c \in Chats : /\ chat'[c] \in Conversation
                         /\ chat'[c].bound \in {NoKb, chat[c].bound}
                         /\ chat'[c].first = chat[c].first
                         /\ chat'[c].scope = chat[c].scope
                         /\ chat'[c].beyond = chat[c].beyond
    BY <1>2 DEF Inv, TypeOK, Unbound, Conversation
  <1>7. \A c \in Chats : /\ chat'[c].user = chat[c].user
                         /\ chat'[c].bound # chat[c].bound => chat[c].bound = k
    BY <1>2 DEF Inv, TypeOK, Unbound, Conversation
  <1>8. Bound'
    <2>1. SUFFICES ASSUME NEW c \in Chats PROVE BoundIn(chat[c])'
      BY DEF Bound
    <2>2. BoundIn(chat[c]) /\ gone \subseteq gone' /\ k \in gone'
      BY <1>2 DEF Inv, Bound
    <2>3. CASE chat'[c].bound = chat[c].bound
      BY <1>4, <1>7, <2>2, <2>3 DEF BoundIn
    <2>4. CASE chat'[c].bound # chat[c].bound
      BY <1>1, <1>4, <1>7, <2>2, <2>4, KbAssumption DEF BoundIn
    <2> QED BY <2>3, <2>4
  <1>5. TypeOK'
    <2>1. owner' \in [Kbs -> {w \in Users : role[w] # "none"} \cup {Nobody}]
      BY <1>2 DEF Inv, TypeOK
    <2>2. Live' = Live \ {k}
      BY <1>1, <1>2 DEF Inv, TypeOK, Live
    <2>3. public' \subseteq Live' /\ gone' \subseteq Kbs \ Live'
      BY <1>1, <1>2, <2>2 DEF Inv, TypeOK
    <2>4. chat' \in [Chats -> Conversation]
      BY <1>2, <1>4 DEF Unbound
    <2> QED BY <1>2, <1>3, <2>1, <2>3, <2>4 DEF Inv, TypeOK
  <1>6. Talk'
    BY <1>2, <1>4, <1>8 DEF Inv, Talk, ScopeEntitled, SubjectLostByDeletion
  <1> QED BY <1>2, <1>3, <1>5, <1>6, AccountsKept DEF Inv, Talk
-----------------------------------------------------------------------------
\* What becomes of a conversation whose question is searched in ids.
LEMMA AskedIs ==
    ASSUME NEW conv \in Conversation, NEW want,
           NEW ids, ids = ResolveKbIds(conv.user, want)
    PROVE  /\ Asked(conv, ids) \in Conversation
           /\ Asked(conv, ids).user = conv.user /\ Asked(conv, ids).bound = conv.bound
           /\ Asked(conv, ids).first = conv.first
           /\ Asked(conv, ids).scope = SearchScope(ids)
           /\ Asked(conv, ids).beyond \subseteq {DefaultKb}
  <1>1. SearchScope(ids) \subseteq Kbs
    BY Resolved, Searched, KbAssumption
  <1>2. SearchScope(ids) \ VisibleKbIds(conv.user) \subseteq {DefaultKb}
    BY Resolved, Searched
  <1> QED BY <1>1, <1>2 DEF Asked, Conversation

\* A step of one conversation that leaves everything else alone.
LEMMA SpokenKeeps ==
    ASSUME Inv, NEW c \in Chats, NEW conv \in Conversation, chat' = [chat EXCEPT ![c] = conv],
           BoundIn(conv), OnSubject(conv),
           conv.beyond \subseteq {DefaultKb},
           UNCHANGED <<tables, req, stale>>
    PROVE  Inv'
  <1>1. UNCHANGED <<role, disabled, owner, public, gone, req, stale>>
    BY DEF tables
  <1>2. TypeOK'
    BY <1>1 DEF Inv, TypeOK, Live
  <1>3. Senders'
    BY <1>1 DEF Inv, Senders
  <1>4. Bound' /\ ScopeEntitled' /\ SubjectLostByDeletion'
    BY <1>1 DEF Inv, TypeOK, Bound, BoundIn, OnSubject, ScopeEntitled, SubjectLostByDeletion
  <1> QED BY <1>1, <1>2, <1>3, <1>4, AccountsKept DEF Inv

\* A question of a guest keeps it.
LEMMA AskGuestKeeps == ASSUME Inv, NEW c \in Chats, AskGuest(c) PROVE Inv'
  <1>1. PICK want \in Live \cup gone \cup {NoKb} :
           chat' = [chat EXCEPT ![c] =
               Asked([chat[c] EXCEPT !.first = ResolveKbIds(Nobody, want)],
                     ResolveKbIds(Nobody, want))]
    BY DEF AskGuest
  <1> DEFINE ids == ResolveKbIds(Nobody, want)
             before == [chat[c] EXCEPT !.first = ids]
  <1>2. before \in Conversation /\ before.user = Nobody /\ before.first = ids
    BY Resolved DEF AskGuest, Unopened, Conversation
  <1> HIDE DEF before, ids
  <1>3. ids = ResolveKbIds(before.user, want)
    BY <1>2 DEF ids
  <1>4. /\ Asked(before, ids) \in Conversation /\ Asked(before, ids).user = Nobody
        /\ Asked(before, ids).first = ids /\ Asked(before, ids).scope = SearchScope(ids)
        /\ Asked(before, ids).beyond \subseteq {DefaultKb}
    <2>1. /\ Asked(before, ids) \in Conversation /\ Asked(before, ids).user = before.user
          /\ Asked(before, ids).first = before.first
          /\ Asked(before, ids).scope = SearchScope(ids)
          /\ Asked(before, ids).beyond \subseteq {DefaultKb}
      BY ONLY <1>2, <1>3, AskedIs
    <2> QED BY <1>2, <2>1
  <1>7. BoundIn(Asked(before, ids)) /\ OnSubject(Asked(before, ids))
    BY <1>4, Searched DEF BoundIn, OnSubject
  <1>5. chat' = [chat EXCEPT ![c] = Asked(before, ids)]
    BY <1>1 DEF before, ids
  <1>6. UNCHANGED <<tables, req, stale>>
    BY DEF AskGuest
  <1> QED BY <1>4, <1>5, <1>6, <1>7, SpokenKeeps

\* The first question of a session keeps it.
LEMMA AskNewKeeps == ASSUME Inv, NEW c \in Chats, NEW u \in Users, AskNew(c, u) PROVE Inv'
  <1>1. PICK want \in Live \cup gone \cup {NoKb} :
           /\ ResolveKbIds(u, want) # {}
           /\ chat' = [chat EXCEPT ![c] =
                 Asked([chat[c] EXCEPT !.user = u, !.first = ResolveKbIds(u, want),
                                       !.bound = Least(ResolveKbIds(u, want))],
                       ResolveKbIds(u, want))]
    BY DEF AskNew
  <1> DEFINE ids == ResolveKbIds(u, want)
             before == [chat[c] EXCEPT !.user = u, !.first = ids, !.bound = Least(ids)]
  <1>2. Least(ids) \in ids /\ ids \subseteq Kbs
    BY <1>1, Resolved, LeastAssumption
  <1>3. before \in Conversation /\ before.user = u /\ before.bound = Least(ids) /\ before.first = ids
    BY <1>2 DEF Inv, TypeOK, Conversation
  <1>4. chat' = [chat EXCEPT ![c] = Asked(before, ids)]
    BY <1>1
  <1>5. ids # {}
    BY <1>1
  <1> HIDE DEF before
  <1>6. ids = ResolveKbIds(before.user, want)
    BY <1>3
  <1> HIDE DEF ids
  <1>7. /\ Asked(before, ids) \in Conversation
        /\ Asked(before, ids).bound = Least(ids) /\ Asked(before, ids).first = ids
        /\ Asked(before, ids).scope = ids
        /\ Asked(before, ids).beyond \subseteq {DefaultKb}
    <2>1. SearchScope(ids) = ids
      BY <1>5, Searched
    <2>2. /\ Asked(before, ids) \in Conversation
          /\ Asked(before, ids).bound = before.bound /\ Asked(before, ids).first = before.first
          /\ Asked(before, ids).scope = SearchScope(ids)
          /\ Asked(before, ids).beyond \subseteq {DefaultKb}
      BY <1>3, <1>6, AskedIs
    <2> QED BY <1>3, <2>1, <2>2
  <1>8. UNCHANGED <<tables, req, stale>>
    BY DEF AskNew
  <1>9. BoundIn(Asked(before, ids)) /\ OnSubject(Asked(before, ids))
    BY <1>2, <1>7, KbAssumption DEF BoundIn, OnSubject
  <1> QED BY <1>4, <1>7, <1>8, <1>9, SpokenKeeps

\* A later question of a session keeps it.
LEMMA AskResumeKeeps == ASSUME Inv, NEW c \in Chats, AskResume(c) PROVE Inv'
  <1>1. PICK want \in Live \cup gone \cup {NoKb} :
           LET w == IF chat[c].bound # NoKb THEN chat[c].bound ELSE want
           IN  chat' = [chat EXCEPT ![c] = Asked(chat[c], ResolveKbIds(chat[c].user, w))]
    BY DEF AskResume
  <1> DEFINE w == IF chat[c].bound # NoKb THEN chat[c].bound ELSE want
             ids == ResolveKbIds(chat[c].user, w)
  <1>2. chat[c] \in Conversation
    BY DEF Inv, TypeOK
  <1>3. \/ SearchScope(ids) \subseteq chat[c].first \cup {DefaultKb}
        \/ chat[c].first \cap gone # {}
    <2>1. CASE chat[c].bound = NoKb
      BY <2>1 DEF Inv, Bound, BoundIn, AskResume
    <2>2. CASE chat[c].bound # NoKb
      <3>1. ids \subseteq {chat[c].bound}
        BY <2>2, Resolved
      <3>2. chat[c].bound \in chat[c].first
        BY <2>2 DEF Inv, Bound, BoundIn, AskResume
      <3> QED BY <3>1, <3>2, Searched
    <2> QED BY <2>1, <2>2
  <1>4. chat' = [chat EXCEPT ![c] = Asked(chat[c], ids)]
    BY <1>1
  <1>5. ids = ResolveKbIds(chat[c].user, w)
    OBVIOUS
  <1> HIDE DEF ids, w
  <1>6. /\ Asked(chat[c], ids) \in Conversation
        /\ Asked(chat[c], ids).user = chat[c].user
        /\ Asked(chat[c], ids).bound = chat[c].bound
        /\ Asked(chat[c], ids).first = chat[c].first
        /\ Asked(chat[c], ids).scope = SearchScope(ids)
        /\ Asked(chat[c], ids).beyond \subseteq {DefaultKb}
    BY ONLY <1>2, <1>5, AskedIs
  <1>7. BoundIn(Asked(chat[c], ids)) /\ OnSubject(Asked(chat[c], ids))
    BY <1>3, <1>6 DEF Inv, Bound, BoundIn, OnSubject
  <1>8. UNCHANGED <<tables, req, stale>>
    BY DEF AskResume
  <1> QED BY <1>4, <1>6, <1>7, <1>8, SpokenKeeps

\* A restart keeps it.
LEMMA RestartKeeps == ASSUME Inv, Restart PROVE Inv'
  <1>1. role' = [role EXCEPT ![Boss] = "admin"]
    BY DEF Restart, EnsureAdmin
  <1>2. UNCHANGED <<disabled, owner, public, gone, chat, stale>>
    BY DEF Restart
  <1>3. \A u \in Users : role'[u] = role[u] \/ role'[u] = "admin"
    BY <1>1 DEF Inv, TypeOK
  <1>4. req' \in [Requests -> {Unsent, Over}]
    BY DEF Restart
  <1>5. TypeOK'
    <2>1. role' \in [Users -> Roles \cup {"none"}]
      BY <1>1 DEF Inv, TypeOK, Roles
    <2>2. {u \in Users : role[u] # "none"} \subseteq {u \in Users : role'[u] # "none"}
      BY <1>3
    <2> QED BY <1>2, <1>4, <2>1, <2>2 DEF Inv, TypeOK, Live
  <1>6. Senders'
    BY <1>4 DEF Senders, Request, Unsent, Over
  <1>7. AdminRemains'
    BY <1>2, <1>3 DEF Inv, AdminRemains, Admins, Enabled
  <1>8. Talk'
    BY <1>2 DEF Inv, Talk, Bound, BoundIn, ScopeEntitled, SubjectLostByDeletion
  <1> QED BY <1>5, <1>6, <1>7, <1>8 DEF Inv, Talk

\* A stuttering step keeps it.
LEMMA StutterKeeps == ASSUME Inv, UNCHANGED vars PROVE Inv'
  BY DEF vars, Inv, TypeOK, Live, Senders, Bound, BoundIn, AdminRemains, Admins, Enabled,
     ScopeEntitled, SubjectLostByDeletion
-----------------------------------------------------------------------------
\* The invariant holds: no step of a request, a conversation or a restart breaks it.
THEOREM Invariance == Spec => []Inv
  <1>1. Inv /\ [Next]_vars => Inv'
    <2>1. SUFFICES ASSUME Inv, [Next]_vars PROVE Inv'
      OBVIOUS
    <2>2. ASSUME NEW u \in Users, Register(u) PROVE Inv'
      BY <2>1, <2>2, RegisterKeeps
    <2>3. ASSUME NEW r \in Requests, Handle(r) PROVE Inv'
      BY <2>1, <2>3, AuthenticateKeeps, AuthoriseKeeps, ChangeRoleKeeps, DisableKeeps,
         CreateKbKeeps, PublishKeeps, DeleteKbKeeps DEF Handle
    <2>4. ASSUME NEW c \in Chats, AskGuest(c) \/ AskResume(c) PROVE Inv'
      BY <2>1, <2>4, AskGuestKeeps, AskResumeKeeps
    <2>5. ASSUME NEW c \in Chats, NEW u \in Users, AskNew(c, u) PROVE Inv'
      BY <2>1, <2>5, AskNewKeeps
    <2>6. CASE Restart
      BY <2>1, <2>6, RestartKeeps
    <2>7. CASE UNCHANGED vars
      BY <2>1, <2>7, StutterKeeps
    <2> QED BY <2>1, <2>2, <2>3, <2>4, <2>5, <2>6, <2>7 DEF Next
  <1> QED BY <1>1, InitHolds, PTL DEF Spec

\* Every variable of the access model keeps its type: owners have accounts, and
\* what is public is there.
THEOREM TypeCorrect == Spec => []TypeOK
  BY Invariance, PTL DEF Inv

\* Whatever requests overlap, an administrator can log in unless one has acted on a
\* check gone stale (admin_routes.py:34, 56).
THEOREM AdministratorRemains == Spec => []AdminRemains
  BY Invariance, PTL DEF Inv

\* List, search and read check follow one rule at every moment (store.py:113-117).
THEOREM OneRuleHolds == Spec => []VisibilityAgrees
  BY TypeCorrect, OneRule, PTL

\* No question is searched where its sender may not see, but for the default
\* knowledge base (routes.py:220-221).
THEOREM ScopesEntitled == Spec => []ScopeEntitled
  BY Invariance, PTL DEF Inv

\* Only a deletion takes a conversation away from its subject (routes.py:218-221).
THEOREM SubjectsLostByDeletion == Spec => []SubjectLostByDeletion
  BY Invariance, PTL DEF Inv
=============================================================================
