------------------------------ MODULE Access ------------------------------
(***************************************************************************)
(* Who may do what: accounts and roles (app/api/auth.py, admin_routes.py), *)
(* the checks of app/api/deps.py, the visibility of knowledge bases        *)
(* (app/kb/store.py) and the scope of a question (app/api/routes.py).      *)
(*                                                                         *)
(* A check is a dependency and runs in a thread: it reads the caller's row *)
(* (Authenticate) and, for a knowledge base, that row too (Authorise). The *)
(* handler (Perform) runs later on the event loop, all at once, and relies *)
(* on what the check has read. POST /chat is one such section and reads    *)
(* everything itself. Whoever has an account has a token that outlives any *)
(* change to the account (auth.py:50-73).                                  *)
(***************************************************************************)
EXTENDS Naturals, FiniteSets

CONSTANTS
    Users,        \* people who may open an account, the administrator included
    Boss,         \* the user that settings.admin_username names
    Nobody,       \* no user: a guest, or no owner
    Kbs,          \* ids of knowledge bases, never reused
    DefaultKb,    \* schema.DEFAULT_KB_ID, and the smallest id
    NoKb,         \* kb_id NULL
    Least(_),     \* the smallest id of a set of knowledge bases
    Chats,        \* conversations: sessions of users, questions of guests
    Requests      \* requests behind a check, each made once

ASSUME UserAssumption == Boss \in Users /\ Nobody \notin Users
ASSUME KbAssumption == DefaultKb \in Kbs /\ NoKb \notin Kbs
ASSUME LeastAssumption == \A S \in SUBSET Kbs : S # {} => Least(S) \in S

VARIABLES
    role,       \* users.role, "none" without a row
    disabled,   \* users whose row says disabled
    owner,      \* kb.owner_id, Nobody while there is no row
    public,     \* knowledge bases whose row says is_public
    gone,       \* deleted knowledge bases
    chat,       \* the conversations, see Conversation
    req,        \* the requests, see Request
    stale       \* has an act of an administrator rested on a check gone stale?

tables == <<role, disabled, owner, public, gone>>
vars == <<role, disabled, owner, public, gone, chat, req, stale>>

Roles == {"user", "admin"}
AdminOps == [do : {"role"}, to : Users, val : Roles]
       \cup [do : {"disable"}, to : Users, val : BOOLEAN]
KbOps == [do : {"publish"}, kb : Kbs, val : BOOLEAN] \cup [do : {"delete"}, kb : Kbs]
CreateOps == [do : {"create"}, kb : Kbs \ {DefaultKb}, val : BOOLEAN]
Ops == AdminOps \cup KbOps \cup CreateOps

\* CurrentUser as the check has read it, and what the request asks for.
Request == [at : {"authenticated", "authorised"}, user : Users, role : Roles, op : Ops]
Unsent == [at |-> "unsent"]
Over == [at |-> "over"]

\* bound is chat_sessions.kb_id. History: the scopes of the first and the latest
\* question, and what of the latter its sender was not to see at that moment.
Conversation == [user : Users \cup {Nobody}, bound : Kbs \cup {NoKb},
                 first : SUBSET Kbs, scope : SUBSET Kbs, beyond : SUBSET Kbs]
Unopened == [user |-> Nobody, bound |-> NoKb, first |-> {}, scope |-> {}, beyond |-> {}]

Live == {k \in Kbs : owner[k] # Nobody}
Admins == {u \in Users : role[u] = "admin"}
Enabled == {u \in Users : role[u] # "none" /\ u \notin disabled}

\* store.visible_kb_ids: one SELECT whose LEFT JOIN has no role for a guest.
VisibleKbIds(u) == {k \in Live : u \in Admins \/ owner[k] = u \/ k \in public}

\* Mutant: the list forgets the rule for owners.
ListedPublic(u) == {k \in Live : u \in Admins \/ k \in public}

\* store.list_kbs: the same rule written again, over an inner JOIN with the owner.
Listed(u) == {k \in Kbs : /\ owner[k] \in {v \in Users : role[v] # "none"}
                          /\ u \in Admins \/ owner[k] = u \/ k \in public}

\* deps.assert_kb_access for a caller u whose row said r.
MayAccess(k, u, r, write) ==
    /\ owner[k] # Nobody
    /\ r = "admin" \/ owner[k] = u \/ (~write /\ k \in public)

\* store.resolve_kb_ids; HybridRetriever._scope takes an empty list for none.
ResolveKbIds(u, want) ==
    IF want # NoKb THEN {want} \cap VisibleKbIds(u)
    ELSE IF VisibleKbIds(u) = {} THEN {DefaultKb} ELSE VisibleKbIds(u)

SearchScope(ids) == IF ids = {} THEN {DefaultKb} ELSE ids

\* auth.ensure_admin: opens the account or restores its role, and leaves the
\* password and `disabled` alone.
EnsureAdmin(accounts) == [accounts EXCEPT ![Boss] = "admin"]

\* auth.set_role and auth.set_disabled: an UPDATE that may hit no row.
SetRole(u, r) == IF role[u] = "none" THEN role ELSE [role EXCEPT ![u] = r]

SetDisabled(u, d) ==
    IF role[u] # "none" /\ d THEN disabled \cup {u} ELSE disabled \ {u}

\* Mutant: the visibility is stored apart from the row that may have gone.
UpdateKbAnyway(k, p) == IF p THEN public \cup {k} ELSE public \ {k}

\* store.update_kb with is_public, the column that matters here.
UpdateKb(k, p) == IF k \in Live /\ p THEN public \cup {k} ELSE public \ {k}

\* ON DELETE SET NULL of chat_sessions.kb_id, for the knowledge bases K.
Unbound(K) == [c \in Chats |-> IF chat[c].bound \in K THEN [chat[c] EXCEPT !.bound = NoKb]
                                                      ELSE chat[c]]
-----------------------------------------------------------------------------
\* After the first start and the migration, which runs ensure_admin too.
Init ==
    /\ role = EnsureAdmin([u \in Users |-> "none"])
    /\ disabled = {}
    /\ owner = [k \in Kbs |-> IF k = DefaultKb THEN Boss ELSE Nobody]
    /\ public = {DefaultKb}
    /\ gone = {}
    /\ chat = [c \in Chats |-> Unopened]
    /\ req = [r \in Requests |-> Unsent]
    /\ stale = FALSE

\* POST /auth/register: always an ordinary user; a taken name is refused.
Register(u) ==
    /\ role[u] = "none"
    /\ role' = [role EXCEPT ![u] = "user"]
    /\ UNCHANGED <<disabled, owner, public, gone, chat, req, stale>>

\* get_current_user and require_admin. A refusal (401, 403) changes nothing.
Authenticate(r) ==
    /\ req[r] = Unsent
    /\ \E u \in Enabled, op \in Ops :
       /\ op \in AdminOps => u \in Admins
       /\ req' = [req EXCEPT ![r] = [at |-> IF op \in KbOps THEN "authenticated"
                                                            ELSE "authorised",
                                     user |-> u, role |-> role[u], op |-> op]]
    /\ UNCHANGED <<tables, chat, stale>>

\* The second read of require_kb_access(write=True).
Authorise(r) ==
    /\ req[r].at = "authenticated"
    /\ req' = [req EXCEPT ![r] =
         IF MayAccess(@.op.kb, @.user, @.role, TRUE) THEN [@ EXCEPT !.at = "authorised"]
                                                     ELSE Over]
    /\ UNCHANGED <<tables, chat, stale>>

Ready(r, do) == req[r].at = "authorised" /\ req[r].op.do = do
Close(r) == req' = [req EXCEPT ![r] = Over]

\* Does the caller's check still hold?
Fresh(r) == req[r].user \in Admins \cap Enabled

\* Mutant: an administrator may change the own role.
ChangeRoleUnguarded(r) ==
    /\ Ready(r, "role")
    /\ role' = SetRole(req[r].op.to, req[r].op.val)
    /\ stale' = (stale \/ ~Fresh(r))
    /\ Close(r)
    /\ UNCHANGED <<disabled, owner, public, gone, chat>>

\* admin_change_role: not the own one.
ChangeRole(r) ==
    /\ Ready(r, "role")
    /\ req[r].op.to # req[r].user
    /\ role' = SetRole(req[r].op.to, req[r].op.val)
    /\ stale' = (stale \/ ~Fresh(r))
    /\ Close(r)
    /\ UNCHANGED <<disabled, owner, public, gone, chat>>

\* admin_set_user_disabled: not oneself.
Disable(r) ==
    /\ Ready(r, "disable")
    /\ req[r].op.to # req[r].user
    /\ disabled' = SetDisabled(req[r].op.to, req[r].op.val)
    /\ stale' = (stale \/ ~Fresh(r))
    /\ Close(r)
    /\ UNCHANGED <<role, owner, public, gone, chat>>

\* create_kb: the caller becomes the owner. The id is a new one.
CreateKb(r) ==
    /\ Ready(r, "create")
    /\ LET op == req[r].op
       IN  /\ op.kb \notin Live \cup gone
           /\ owner' = [owner EXCEPT ![op.kb] = req[r].user]
           /\ public' = IF op.val THEN public \cup {op.kb} ELSE public
    /\ Close(r)
    /\ UNCHANGED <<role, disabled, gone, chat, stale>>

\* update_kb, by whoever passed the check.
Publish(r) ==
    /\ Ready(r, "publish")
    /\ public' = UpdateKb(req[r].op.kb, req[r].op.val)
    /\ Close(r)
    /\ UNCHANGED <<role, disabled, owner, gone, chat, stale>>

\* delete_kb. Nothing protects the default knowledge base.
DeleteKb(r) ==
    /\ Ready(r, "delete")
    /\ LET k == req[r].op.kb
       IN  /\ owner' = [owner EXCEPT ![k] = Nobody]
           /\ public' = public \ {k}
           /\ gone' = gone \cup {k}
           /\ chat' = Unbound({k})
    /\ Close(r)
    /\ UNCHANGED <<role, disabled, stale>>
-----------------------------------------------------------------------------
\* The question is searched in the scope of ids.
Asked(c, ids) ==
    [c EXCEPT !.scope = SearchScope(ids), !.beyond = SearchScope(ids) \ VisibleKbIds(c.user)]

\* POST /chat of a guest: public knowledge bases only, nothing is stored.
AskGuest(c) ==
    /\ chat[c] = Unopened
    /\ \E want \in Live \cup gone \cup {NoKb} :
       LET ids == ResolveKbIds(Nobody, want)
       IN  /\ ids # {}
           /\ chat' = [chat EXCEPT ![c] = Asked([@ EXCEPT !.first = ids], ids)]
    /\ UNCHANGED <<tables, req, stale>>

\* A new session is bound to the smallest id of its scope, whose row must exist.
\* The route looks at the token only, not at `disabled`.
AskNew(c, u) ==
    /\ chat[c] = Unopened /\ role[u] # "none"
    /\ \E want \in Live \cup gone \cup {NoKb} :
       LET ids == ResolveKbIds(u, want)
       IN  /\ ids # {} /\ Least(ids) \in Live
           /\ chat' = [chat EXCEPT ![c] = Asked([@ EXCEPT !.user = u, !.first = ids,
                                                          !.bound = Least(ids)], ids)]
    /\ UNCHANGED <<tables, req, stale>>

\* Mutant: the knowledge base of the request goes before that of the session.
AskResumeWanted(c) ==
    /\ chat[c].user # Nobody
    /\ \E want \in Live \cup gone \cup {NoKb} :
       LET ids == ResolveKbIds(chat[c].user, IF want # NoKb THEN want ELSE chat[c].bound)
       IN  chat' = [chat EXCEPT ![c] = Asked(@, ids)]
    /\ UNCHANGED <<tables, req, stale>>

\* Mutant: the bound knowledge base is searched without looking who may see it.
AskResumeUnresolved(c) ==
    /\ chat[c].user # Nobody
    /\ \E want \in Live \cup gone \cup {NoKb} :
       LET ids == IF chat[c].bound # NoKb THEN {chat[c].bound}
                                          ELSE ResolveKbIds(chat[c].user, want)
       IN  chat' = [chat EXCEPT ![c] = Asked(@, ids)]
    /\ UNCHANGED <<tables, req, stale>>

\* The bound knowledge base goes before that of the request; an empty scope is
\* not refused here, and the retriever searches the default knowledge base.
AskResume(c) ==
    /\ chat[c].user # Nobody
    /\ \E want \in Live \cup gone \cup {NoKb} :
       LET ids == ResolveKbIds(chat[c].user, IF chat[c].bound # NoKb THEN chat[c].bound
                                                                     ELSE want)
       IN  chat' = [chat EXCEPT ![c] = Asked(@, ids)]
    /\ UNCHANGED <<tables, req, stale>>
-----------------------------------------------------------------------------
\* The process ends, its requests with it, and starts again.
Restart ==
    /\ role' = EnsureAdmin(role)
    /\ req' = [r \in Requests |-> IF req[r] = Unsent THEN Unsent ELSE Over]
    /\ UNCHANGED <<disabled, owner, public, gone, chat, stale>>

Handle(r) ==
    \/ Authenticate(r)
    \/ Authorise(r)
    \/ ChangeRole(r)
    \/ Disable(r)
    \/ CreateKb(r)
    \/ Publish(r)
    \/ DeleteKb(r)

Next ==
    \/ \E u \in Users : Register(u)
    \/ \E r \in Requests : Handle(r)
    \/ \E c \in Chats : AskGuest(c) \/ AskResume(c)
    \/ \E c \in Chats, u \in Users : AskNew(c, u)
    \/ Restart

Spec == Init /\ [][Next]_vars
-----------------------------------------------------------------------------
\* Type invariant.
TypeOK ==
    /\ role \in [Users -> Roles \cup {"none"}]
    /\ disabled \subseteq {u \in Users : role[u] # "none"}
    /\ owner \in [Kbs -> {u \in Users : role[u] # "none"} \cup {Nobody}]
    /\ public \subseteq Live
    /\ gone \subseteq Kbs \ Live
    /\ chat \in [Chats -> Conversation]
    /\ req \in [Requests -> Request \cup {Unsent, Over}]
    /\ stale \in BOOLEAN

\* Some administrator can always log in, unless a demotion or a block was carried
\* out for an administrator who had been demoted or blocked since the check: the
\* two rules against locking oneself out (admin_routes.py:34, 56) protect against
\* everything but administrators acting at once.
AdminRemains == stale \/ Admins \cap Enabled # {}

\* The list of knowledge bases, the scope of search and the read check follow one
\* rule (store.py:113-117): what is listed can be searched and opened.
VisibilityAgrees ==
    /\ \A u \in Users \cup {Nobody} : Listed(u) = VisibleKbIds(u)
    /\ \A u \in Enabled : VisibleKbIds(u) = {k \in Kbs : MayAccess(k, u, role[u], FALSE)}

\* A question is searched in knowledge bases its sender may see at that moment,
\* or in the default one, whatever was deleted or hidden since the session began
\* (routes.py:220-221, retriever.py:54-56).
ScopeEntitled == \A c \in Chats : chat[c].beyond \subseteq {DefaultKb}

\* A conversation leaves its subject, the knowledge bases of its first question and
\* the default one, only after one of these has been deleted: not because a base
\* is hidden or shared, a role changes or the request names another base
\* (routes.py:218-221).
SubjectLostByDeletion ==
    \A c \in Chats : \/ chat[c].scope \subseteq chat[c].first \cup {DefaultKb}
                     \/ chat[c].first \cap gone # {}

\* "After SET NULL the session falls back to the default base" (docs/decisions/11:39):
\* while there is one, later questions keep to it and the bases of the first.
ScopeStays ==
    DefaultKb \notin gone =>
        \A c \in Chats : chat[c].scope \subseteq chat[c].first \cup {DefaultKb}
=============================================================================
