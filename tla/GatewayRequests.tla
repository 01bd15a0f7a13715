--------------------------- MODULE GatewayRequests ---------------------------
(***************************************************************************)
(* A request of a client on its way through the gateway: the access log    *)
(* (AccessLoggingMiddleware.go), authentication and the role check         *)
(* (AuthMiddleware.go, Authorizer.go, KeycloakMiddleware.go,               *)
(* KeycloakClient.go), the handler, and back.                              *)
(*                                                                         *)
(* Middlewares call each other through gin.Context.Next.  RequireAuth runs *)
(* the middleware of the authorizer inside itself, and that one calls Next *)
(* on success: the handler has run when RequireAuth goes on.  The access   *)
(* log writes its row in a goroutine that keeps the gin.Context, which gin *)
(* takes back at the end of the request and gives to another one.          *)
(***************************************************************************)
EXTENDS Integers, Sequences

CONSTANTS
    Request,
    Asked,     \* [Request]: where a request may go, and with what, as pairs
    Pool,      \* the contexts gin keeps
    None

(* What a client may send, for each kind of authorizer.                    *)
Credentials ==
    [keycloak |-> {
        "none",        \* no Authorization header
        "malformed",   \* not of the form "Bearer token"
        "rejected",    \* a token that cannot be decoded, or has expired
        "foreign",     \* a token of another issuer
        "plain",       \* a user without the role
        "elsewhere",   \* one who has it for another client of Keycloak
        "realm",       \* the role is in realm_access
        "client"},     \* the role is in resource_access of this client
     service_token |-> {
        "none", "unknown",
        "nameless",    \* a valid token without the header USERID
        "named"}]

Route == {
    "open",     \* /heartbeat, /auth-test/check
    "user",     \* /auth-test/need-auth
    "job",      \* /async/job
    "stream"}   \* /sync/job

ASSUME RequestAssumption ==
    /\ None \notin Request \cup Pool
    /\ Asked \in [Request -> SUBSET (Route \X UNION {Credentials[a] : a \in DOMAIN Credentials})]

VARIABLES
    authorizer,  \* the configured AuthType
    route, sent, \* [Request]: where it goes, and with which credentials
    pc,          \* [Request]: what handles it
    ctx,         \* [Request]: its gin.Context
    context,     \* [Pool]: the request, user and claims in a gin.Context
    aborted,     \* [Request]: c.IsAborted()
    replies,     \* [Request]: what is written to the client, by status
    status,      \* [Request]: statusCode of its responseWriter
    ran,         \* [Request]: how often its handler has run
    logger,      \* [Request]: where its goroutine is
    entry,       \* [Request]: what it has read
    met          \* [Request]: what came in its way

asked       == <<authorizer, route, sent>>
chain       == <<pc, ctx, aborted, replies, status, ran>>
logging     == <<logger, entry>>
requestVars == <<asked, chain, context, logging, met>>

PC == {"new", "authenticate", "available", "validate", "role", "handler", "session",
       "unwind", "log", "done"}
Code == {101, 200, 400, 401, 403, 426, 500, 503}
Who == Request \cup {None}

TypeOK ==
    /\ authorizer \in DOMAIN Credentials
    /\ route \in [Request -> Route] /\ sent \in [Request -> Credentials[authorizer]]
    /\ pc \in [Request -> PC]
    /\ ctx \in [Request -> Pool \cup {None}]
    /\ context \in [Pool -> [req : Who, user : Who, claims : Who]]
    /\ aborted \in [Request -> BOOLEAN]
    /\ replies \in [Request -> Seq(Code)]
    /\ status \in [Request -> Code]
    /\ ran \in [Request -> Nat]
    /\ logger \in [Request -> {"none", "user", "claims", "request", "insert", "stored", "lost"}]
    /\ entry \in [Request -> [user : Who, claims : Who, req : Who]]
    /\ met \in [Request -> SUBSET {"reused", "panic", "handshake"}]

Init ==
    /\ authorizer \in DOMAIN Credentials
    /\ route \in [Request -> Route] /\ sent \in [Request -> Credentials[authorizer]]
    /\ \A r \in Request : <<route[r], sent[r]>> \in Asked[r]
    /\ pc = [r \in Request |-> "new"]
    /\ ctx = [r \in Request |-> None]
    /\ context = [c \in Pool |-> [req |-> None, user |-> None, claims |-> None]]
    /\ aborted = [r \in Request |-> FALSE]
    /\ replies = [r \in Request |-> <<>>]
    /\ status = [r \in Request |-> 200]
    /\ ran = [r \in Request |-> 0]
    /\ logger = [r \in Request |-> "none"]
    /\ entry = [r \in Request |-> [user |-> None, claims |-> None, req |-> None]]
    /\ met = [r \in Request |-> {}]

-----------------------------------------------------------------------------
(* gin *)

Busy(c) == \E r \in Request : pc[r] \notin {"new", "done"} /\ ctx[r] = c
Reading == {"user", "claims", "request"}

Goto(r, l) == pc' = [pc EXCEPT ![r] = l]

(* c.JSON: the wrapper notes the status, the client sees the first one.    *)
Reply(r, s) ==
    /\ replies' = [replies EXCEPT ![r] = Append(@, s)]
    /\ status' = [status EXCEPT ![r] = s]

(* c.AbortWithStatusJSON, and a return to whoever has called Next.         *)
Abort(r, s) ==
    /\ Reply(r, s)
    /\ aborted' = [aborted EXCEPT ![r] = TRUE]
    /\ Goto(r, "unwind")

Continue(r, l) == Goto(r, l) /\ UNCHANGED <<aborted, replies, status>>

(* A wrong Accept: the goroutine of the log is started before Next.        *)
AcceptAndLog(r) ==
    /\ pc[r] = "new"
    /\ \E c \in Pool :
         /\ ~Busy(c)
         /\ ctx' = [ctx EXCEPT ![r] = c]
         /\ context' = [context EXCEPT ![c] = [req |-> r, user |-> None, claims |-> None]]
         /\ met' = [q \in Request |-> IF ctx[q] = c /\ logger[q] \in Reading
                                      THEN met[q] \cup {"reused"} ELSE met[q]]
    /\ Goto(r, IF route[r] = "open" THEN "handler" ELSE "authenticate")
    /\ logger' = [logger EXCEPT ![r] = "user"]
    /\ UNCHANGED <<asked, aborted, replies, status, ran, entry>>

(* A context out of the pool is reset and passed to the first middleware,  *)
(* the access log, which wraps the writer and calls Next.                  *)
Accept(r) ==
    /\ pc[r] = "new"
    /\ \E c \in Pool :
         /\ ~Busy(c)
         /\ ctx' = [ctx EXCEPT ![r] = c]
         /\ context' = [context EXCEPT ![c] = [req |-> r, user |-> None, claims |-> None]]
         /\ met' = [q \in Request |-> IF ctx[q] = c /\ logger[q] \in Reading
                                      THEN met[q] \cup {"reused"} ELSE met[q]]
    /\ Goto(r, IF route[r] = "open" THEN "handler" ELSE "authenticate")
    /\ UNCHANGED <<asked, aborted, replies, status, ran, logging>>

-----------------------------------------------------------------------------
(* Authorization *)

(* What Next calls after a middleware of RequireAuth has accepted.         *)
Inner(r) == IF route[r] = "user" THEN "handler" ELSE "role"

SetUser(r)   == context' = [context EXCEPT ![ctx[r]].user = r]
SetClaims(r) == context' = [context EXCEPT ![ctx[r]].user = r, ![ctx[r]].claims = r]

Authenticate(r) ==
    /\ pc[r] = "authenticate"
    /\ \/ /\ authorizer = "keycloak"
          /\ IF sent[r] \in {"none", "malformed"} THEN Abort(r, 401)
                                                  ELSE Continue(r, "available")
          /\ UNCHANGED context
       \/ /\ authorizer = "service_token"
          /\ IF sent[r] = "named" THEN SetUser(r) /\ Continue(r, Inner(r))
                                  ELSE Abort(r, 401) /\ UNCHANGED context
    /\ UNCHANGED <<asked, ctx, ran, logging, met>>

(* GetCerts answers or not.                                                *)
IsAvailable(r) ==
    /\ pc[r] = "available"
    /\ Abort(r, 503) \/ Continue(r, "validate")
    /\ UNCHANGED <<asked, ctx, ran, context, logging, met>>

(* (A wrong one: whose token it is does not matter.)                       *)
ValidateAnyIssuer(r) ==
    /\ pc[r] = "validate"
    /\ \/ Abort(r, 401) /\ UNCHANGED context
       \/ /\ sent[r] # "rejected"
          /\ SetClaims(r) /\ Continue(r, Inner(r))
    /\ UNCHANGED <<asked, ctx, ran, logging, met>>

(* DecodeAccessToken, which asks Keycloak again and may fail to, then the  *)
(* issuer.                                                                 *)
ValidateToken(r) ==
    /\ pc[r] = "validate"
    /\ \/ Abort(r, 401) /\ UNCHANGED context
       \/ /\ sent[r] \notin {"rejected", "foreign"}
          /\ SetClaims(r) /\ Continue(r, Inner(r))
    /\ UNCHANGED <<asked, ctx, ran, logging, met>>

HasRole(claims) == sent[claims] \in {"realm", "client"}

(* A service token leaves no claims: RequireRole rejects it.               *)
RequireRole(r) ==
    LET claims == context[ctx[r]].claims IN
    /\ pc[r] = "role"
    /\ \/ claims = None /\ Abort(r, 401)
       \/ claims # None /\ ~HasRole(claims) /\ Abort(r, 403)
       \/ claims # None /\ HasRole(claims) /\ Continue(r, "handler")
    /\ UNCHANGED <<asked, ctx, ran, context, logging, met>>

(* GetUserID finds the subject of the claims, or the header.               *)
UserKnown(r) ==
    IF authorizer = "keycloak" THEN context[ctx[r]].claims # None ELSE sent[r] = "named"

(* (A wrong one: RequireAuth does not ask whether it has been aborted.)    *)
UnwindAnyway(r) ==
    /\ pc[r] = "unwind"
    /\ IF UserKnown(r) THEN SetUser(r) /\ UNCHANGED <<aborted, replies, status>>
       ELSE /\ Reply(r, 401) /\ aborted' = [aborted EXCEPT ![r] = TRUE]
            /\ UNCHANGED context
    /\ Goto(r, "log")
    /\ UNCHANGED <<asked, ctx, ran, logging, met>>

(* RequireAuth after the middleware of the authorizer.  Its own Next finds *)
(* nothing left to run.                                                    *)
Unwind(r) ==
    /\ pc[r] = "unwind"
    /\ \/ aborted[r] /\ UNCHANGED <<aborted, replies, status, context>>
       \/ /\ ~aborted[r] /\ UserKnown(r)
          /\ SetUser(r) /\ UNCHANGED <<aborted, replies, status>>
       \/ /\ ~aborted[r] /\ ~UserKnown(r)
          /\ Reply(r, 401) /\ aborted' = [aborted EXCEPT ![r] = TRUE]
          /\ UNCHANGED context
    /\ Goto(r, "log")
    /\ UNCHANGED <<asked, ctx, ran, logging, met>>

-----------------------------------------------------------------------------
(* The handler: of Gateway and StreamSession, as the chain sees it *)

Back(r) == IF route[r] = "open" THEN "log" ELSE "unwind"

Handle(r) ==
    /\ pc[r] = "handler" /\ route[r] # "stream"
    /\ ran' = [ran EXCEPT ![r] = @ + 1]
    /\ \E s \in {200, 400, 500} : Reply(r, s)
    /\ Goto(r, Back(r))
    /\ UNCHANGED <<asked, ctx, aborted, context, logging, met>>

(* websocket.Accept writes through the wrapper, too: 101, or the reply to  *)
(* a bad handshake.  The handler answers that a second time; the status    *)
(* the client got stays the first, the wrapper's becomes the second.       *)
Handshake(r) ==
    /\ pc[r] = "handler" /\ route[r] = "stream"
    /\ ran' = [ran EXCEPT ![r] = @ + 1]
    /\ \/ Reply(r, 101) /\ Goto(r, "session") /\ UNCHANGED met
       \/ /\ \E s \in {400, 426} : replies' = [replies EXCEPT ![r] = @ \o <<s, 500>>]
          /\ status' = [status EXCEPT ![r] = 500]
          /\ met' = [met EXCEPT ![r] = @ \cup {"handshake"}]
          /\ Goto(r, Back(r))
    /\ UNCHANGED <<asked, ctx, aborted, context, logging>>

(* The session is over: nothing more is written through gin.               *)
EndSession(r) ==
    /\ pc[r] = "session"
    /\ Goto(r, Back(r))
    /\ UNCHANGED <<asked, ctx, aborted, replies, status, ran, context, logging, met>>

(* It panics: gin.Recovery answers, and the middlewares between never go   *)
(* on.                                                                     *)
Panic(r) ==
    /\ pc[r] = "handler" /\ route[r] # "stream"
    /\ ran' = [ran EXCEPT ![r] = @ + 1]
    /\ Reply(r, 500)
    /\ aborted' = [aborted EXCEPT ![r] = TRUE]
    /\ Goto(r, "done")
    /\ met' = [met EXCEPT ![r] = @ \cup {"panic"}]
    /\ UNCHANGED <<asked, ctx, context, logging>>

(* ... or in the session, when nothing can be written any more.            *)
PanicInSession(r) ==
    /\ pc[r] = "session"
    /\ status' = [status EXCEPT ![r] = 500]
    /\ aborted' = [aborted EXCEPT ![r] = TRUE]
    /\ Goto(r, "done")
    /\ met' = [met EXCEPT ![r] = @ \cup {"panic"}]
    /\ UNCHANGED <<asked, ctx, replies, ran, context, logging>>

-----------------------------------------------------------------------------
(* The access log *)

(* (A wrong one: nothing is logged of a request that was turned away.)     *)
StartLogOfHandled(r) ==
    /\ pc[r] = "log"
    /\ Goto(r, "done")
    /\ logger' = IF aborted[r] THEN logger ELSE [logger EXCEPT ![r] = "user"]
    /\ UNCHANGED <<asked, ctx, aborted, replies, status, ran, context, entry, met>>

(* Next has returned: go func, and the context is gin's again.             *)
StartLog(r) ==
    /\ pc[r] = "log"
    /\ Goto(r, "done")
    /\ logger' = [logger EXCEPT ![r] = "user"]
    /\ UNCHANGED <<asked, ctx, aborted, replies, status, ran, context, entry, met>>

Read(r, l, e, m) ==
    /\ logger[r] = l
    /\ entry' = [entry EXCEPT ![r] = e]
    /\ logger' = [logger EXCEPT ![r] = m]
    /\ UNCHANGED <<asked, chain, context, met>>

LogUser(r)    == Read(r, "user", [entry[r] EXCEPT !.user = context[ctx[r]].user], "claims")
LogClaims(r)  == Read(r, "claims", [entry[r] EXCEPT !.claims = context[ctx[r]].claims], "request")

LogRequest(r) == Read(r, "request", [entry[r] EXCEPT !.req = context[ctx[r]].req], "insert")

(* The row takes the status from the wrapper, which no other request has.  *)
CreateAccessLog(r) ==
    /\ logger[r] = "insert"
    /\ \E l \in {"stored", "lost"} : logger' = [logger EXCEPT ![r] = l]
    /\ UNCHANGED <<asked, chain, context, entry, met>>

-----------------------------------------------------------------------------

Enter(r) == Accept(r) \/ Authenticate(r) \/ RequireRole(r)
Leave(r) == Unwind(r) \/ StartLog(r)

(* What waits for someone else: Keycloak, the database, the client.        *)
Ask(r)   == IsAvailable(r) \/ ValidateToken(r)
Serve(r) == \/ Handle(r) \/ Panic(r)
            \/ Handshake(r) \/ EndSession(r) \/ PanicInSession(r)

ReadContext(r) == LogUser(r) \/ LogClaims(r) \/ LogRequest(r)

Next == \E r \in Request :
    Enter(r) \/ Ask(r) \/ Serve(r) \/ Leave(r) \/ ReadContext(r) \/ CreateAccessLog(r)

(* Goroutines run on, and the handlers that ask nobody return.  Keycloak   *)
(* and the database are asked without a timeout, and a session lasts as    *)
(* long as its client: none of them has to end.                            *)
Local(r) == route[r] \in {"open", "user"}

Spec ==
    /\ Init /\ [][Next]_requestVars
    /\ \A r \in Request :
          /\ WF_requestVars(Authenticate(r) \/ RequireRole(r) \/ Leave(r))
          /\ WF_requestVars(Local(r) /\ (Handle(r) \/ Panic(r)))
          /\ WF_requestVars(ReadContext(r))

-----------------------------------------------------------------------------
(* Properties *)

(* A client gets one reply, though two middlewares and a handler may write *)
(* one, and RequireAuth goes on after all of them: the handler's answer    *)
(* behind that of a failed handshake is the only second one.               *)
OneReply == \A r \in Request :
    /\ Len(replies[r]) <= IF "handshake" \in met[r] THEN 2 ELSE 1
    /\ pc[r] = "done" => replies[r] # <<>>

(* Who may be served where, said without the chain.                        *)
Entitled(r) ==
    CASE route[r] = "open" -> TRUE
      [] route[r] = "user" -> sent[r] \in {"plain", "elsewhere", "realm", "client", "named"}
      [] OTHER             -> sent[r] \in {"realm", "client"}

(* A handler runs at most once, for a request that may be served, and then *)
(* finds that request and its user in its context, whatever runs beside.   *)
ServedRightly == \A r \in Request :
    /\ ran[r] <= 1 /\ (ran[r] = 1 => Entitled(r))
    /\ pc[r] = "handler" => /\ Entitled(r) /\ context[ctx[r]].req = r
                            /\ context[ctx[r]].user = (IF route[r] = "open" THEN None ELSE r)

(* The row says the status of the last reply, which is that the client     *)
(* got unless a handshake failed, and names the request and the user it    *)
(* was served for, unless the context was given away before the goroutine  *)
(* had read it.                                                            *)
RowIsOwn == \A r \in Request : logger[r] = "stored" =>
    /\ replies[r] # <<>> /\ status[r] = replies[r][Len(replies[r])]
    /\ "handshake" \notin met[r] => status[r] = replies[r][1]
    /\ "reused" \notin met[r] =>
          /\ entry[r].req = r /\ {entry[r].user, entry[r].claims} \subseteq {r, None}
          /\ ran[r] = 1 /\ route[r] # "open" =>
                entry[r].user = r /\ (authorizer = "keycloak" => entry[r].claims = r)

Waits(r) == \/ pc[r] \in {"available", "validate", "session"}
            \/ pc[r] = "handler" /\ ~Local(r)

(* Every request comes to the insert of its row, also one that was turned  *)
(* away, unless its handler panics or it waits for ever for Keycloak, the  *)
(* database or its client.                                                 *)
EveryRequestLogged == \A r \in Request :
    \/ <>[]Waits(r)
    \/ pc[r] # "new" ~> logger[r] \in {"insert", "stored", "lost"} \/ "panic" \in met[r]
=============================================================================
