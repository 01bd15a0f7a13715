------------------------ MODULE GatewayRequestsProofs ------------------------
(***************************************************************************)
(* Proofs about GatewayRequests, for any requests and any pool: a request  *)
(* gets one reply and only behind a failed handshake a second, only an     *)
(* entitled one is served, and the access log has the status of the last   *)
(* reply and, unless its context was given away, the request and its user. *)
(*                                                                         *)
(* A context is a request's own as long as the request is in the chain or  *)
(* its goroutine still reads it unreused; such contexts are never shared   *)
(* (Unshared), and hold nothing of another request (ContextOwn).           *)
(***************************************************************************)
EXTENDS GatewayRequests, TLAPS

Inside(r) == pc[r] \notin {"new", "done"}
Owns(r)   == Inside(r) \/ (logger[r] \in Reading /\ "reused" \notin met[r])

Before == {"new", "authenticate", "available", "validate", "role", "handler"}
Users  == {"plain", "elsewhere", "realm", "client"}

(* What the place of a request says of it.                                 *)
Place(r) ==
    /\ pc[r] \in Before => replies[r] = <<>> /\ ran[r] = 0 /\ ~aborted[r] /\ "handshake" \notin met[r]
    /\ pc[r] \notin Before =>
          /\ Len(replies[r]) = IF "handshake" \in met[r] THEN 2 ELSE 1
          /\ "panic" \notin met[r] => status[r] = replies[r][Len(replies[r])]
    /\ "panic" \in met[r] => pc[r] = "done" /\ logger[r] = "none"
    /\ pc[r] = "session" => route[r] = "stream" /\ ran[r] = 1
    /\ pc[r] \in {"authenticate", "available", "validate", "role", "unwind"} =>
          route[r] # "open"
    /\ pc[r] \in {"available", "validate"} =>
          authorizer = "keycloak" /\ sent[r] \notin {"none", "malformed"}
    /\ pc[r] = "role" => route[r] \in {"job", "stream"}
    /\ pc[r] = "unwind" => aborted[r] \/ ran[r] = 1
    /\ ran[r] \in {0, 1}
    /\ pc[r] = "handler" \/ ran[r] = 1 => Entitled(r)
    /\ logger[r] # "none" => pc[r] = "done"
    /\ pc[r] # "new" => ctx[r] \in Pool

(* Authentication has left its marks.                                      *)
Known(r) == /\ context[ctx[r]].user = r
            /\ authorizer = "keycloak" => context[ctx[r]].claims = r
            /\ authorizer # "keycloak" => sent[r] = "named"

ContextOwn(r) == Owns(r) =>
    /\ ctx[r] \in Pool
    /\ context[ctx[r]].req = r
    /\ context[ctx[r]].user \in {r, None}
    /\ context[ctx[r]].claims \in {r, None}
    /\ context[ctx[r]].claims = r => authorizer = "keycloak" /\ sent[r] \in Users
    /\ route[r] = "open" => context[ctx[r]].user = None
    /\ route[r] # "open" /\ (pc[r] \in {"role", "handler"} \/ ran[r] = 1) => Known(r)

(* What a goroutine has read of a context it still owns is the request's.  *)
EntryOwn(r) == "reused" \notin met[r] =>
    /\ entry[r].user \in {r, None} /\ entry[r].claims \in {r, None}
    /\ logger[r] \in {"insert", "stored"} => entry[r].req = r
    /\ ran[r] = 1 /\ route[r] # "open" =>
          /\ logger[r] \in {"claims", "request", "insert", "stored"} => entry[r].user = r
          /\ logger[r] \in {"request", "insert", "stored"} /\ authorizer = "keycloak" =>
                entry[r].claims = r

Sound(r) == Place(r) /\ ContextOwn(r) /\ EntryOwn(r)

Unshared == \A r, q \in Request : r # q /\ Owns(r) /\ Owns(q) => ctx[r] # ctx[q]

Inv == TypeOK /\ Unshared /\ \A r \in Request : Sound(r)

(* A step of another request that leaves q alone.                          *)
Kept(q) ==
    /\ pc'[q] = pc[q] /\ ctx'[q] = ctx[q] /\ aborted'[q] = aborted[q]
    /\ replies'[q] = replies[q] /\ status'[q] = status[q] /\ ran'[q] = ran[q]
    /\ logger'[q] = logger[q] /\ entry'[q] = entry[q]
    /\ Owns(q)' => Owns(q) /\ context'[ctx[q]] = context[ctx[q]]
    /\ "reused" \notin met'[q] => "reused" \notin met[q]
    /\ \A x \in {"panic", "handshake"} : x \in met'[q] <=> x \in met[q]

-----------------------------------------------------------------------------

LEMMA CredentialKinds ==
    /\ DOMAIN Credentials = {"keycloak", "service_token"}
    /\ Credentials["keycloak"] = {"none", "malformed", "rejected", "foreign", "plain",
                                  "elsewhere", "realm", "client"}
    /\ Credentials["service_token"] = {"none", "unknown", "nameless", "named"}
  BY DEF Credentials

LEMMA InitInv == Init => Inv
<1> SUFFICES ASSUME Init PROVE Inv
  OBVIOUS
<1>1. TypeOK
  BY DEF Init, TypeOK, PC, Code, Who
<1>2. ASSUME NEW r \in Request PROVE Sound(r)
  <2>1. pc[r] = "new" /\ replies[r] = <<>> /\ ran[r] = 0 /\ ~aborted[r] /\ logger[r] = "none"
        /\ met[r] = {}
        /\ entry[r].user = None /\ entry[r].claims = None
    BY DEF Init
  <2>2. Place(r)
    BY <2>1 DEF Place, Before
  <2>3. ContextOwn(r) /\ EntryOwn(r)
    BY <2>1 DEF ContextOwn, EntryOwn, Owns, Inside, Reading
  <2> QED
    BY <2>2, <2>3 DEF Sound
<1>3. Unshared
  BY DEF Init, Unshared, Owns, Inside, Reading
<1> QED
  BY <1>1, <1>2, <1>3 DEF Inv

(* What is left alone stays sound.                                         *)
LEMMA KeptSound ==
    ASSUME NEW q \in Request, Sound(q), Kept(q), UNCHANGED asked
    PROVE  Sound(q)'
<1>1. Place(q)'
  BY DEF Sound, Place, Kept, Entitled, asked
<1>2. ContextOwn(q)'
  BY DEF Sound, ContextOwn, Kept, Known, asked
<1>3. EntryOwn(q)'
  BY DEF Sound, EntryOwn, Kept, asked
<1> QED
  BY <1>1, <1>2, <1>3 DEF Sound

(* A step of r that takes no new context: what is left to show of it.      *)
LEMMA StepInv ==
    ASSUME Inv, NEW r \in Request, TypeOK', UNCHANGED <<asked, ctx>>,
           Owns(r)' => Owns(r), Sound(r)', \A q \in Request \ {r} : Kept(q)
    PROVE  Inv'
<1>1. \A q \in Request : Sound(q)'
  BY KeptSound DEF Inv
<1>2. Unshared'
  BY DEF Inv, Unshared, Kept
<1> QED
  BY <1>1, <1>2 DEF Inv

LEMMA ReplyOnce ==
    ASSUME TypeOK, NEW r \in Request, NEW s \in Code, replies[r] = <<>>, Reply(r, s)
    PROVE  /\ replies' \in [Request -> Seq(Code)] /\ status' \in [Request -> Code]
           /\ Len(replies'[r]) = 1 /\ replies'[r][1] = s /\ status'[r] = s
           /\ \A q \in Request \ {r} : replies'[q] = replies[q] /\ status'[q] = status[q]
<1>1. Append(replies[r], s) = <<s>> /\ Append(replies[r], s) \in Seq(Code)
  OBVIOUS
<1> QED
  BY <1>1 DEF TypeOK, Reply

(* A middleware turns r away: its handler has not run and will not.        *)
LEMMA AbortStep ==
    ASSUME Inv, NEW r \in Request, NEW s \in Code, Abort(r, s),
           pc[r] \in {"authenticate", "available", "validate", "role"},
           UNCHANGED <<asked, ctx, ran, context, logging, met>>
    PROVE  Inv'
<1>0. /\ replies[r] = <<>> /\ ran[r] = 0 /\ route[r] # "open" /\ logger[r] = "none"
      /\ ctx[r] \in Pool /\ met[r] \cap {"panic", "handshake"} = {}
  BY DEF Inv, Sound, Place, Before
<1>1. /\ replies' \in [Request -> Seq(Code)] /\ status' \in [Request -> Code]
      /\ Len(replies'[r]) = 1 /\ replies'[r][1] = s /\ status'[r] = s
      /\ \A q \in Request \ {r} : replies'[q] = replies[q] /\ status'[q] = status[q]
  BY <1>0, ReplyOnce DEF Abort, Inv
<1>2. /\ pc' = [pc EXCEPT ![r] = "unwind"] /\ aborted' = [aborted EXCEPT ![r] = TRUE]
      /\ pc'[r] = "unwind" /\ aborted'[r]
  BY DEF Inv, TypeOK, Abort, Goto
<1>3. TypeOK'
  BY <1>1, <1>2 DEF Inv, TypeOK, PC, asked, logging
<1>4. Place(r)'
  BY <1>0, <1>1, <1>2 DEF Place, Before, asked, logging
<1>5. ContextOwn(r)' /\ (Owns(r)' => Owns(r))
  BY <1>0, <1>2 DEF Inv, Sound, ContextOwn, Owns, Inside, asked, logging
<1>6. EntryOwn(r)'
  BY <1>0, <1>2 DEF Inv, Sound, EntryOwn, asked, logging
<1>7. \A q \in Request \ {r} : Kept(q)
  BY <1>1, <1>2 DEF Inv, TypeOK, Kept, Owns, Inside, asked, logging
<1> QED
  BY <1>3, <1>4, <1>5, <1>6, <1>7, StepInv DEF Sound

(* A middleware passes r on to a place l that its credentials justify.     *)
LEMMA ContinueStep ==
    ASSUME Inv, NEW r \in Request, NEW l \in {"available", "validate", "role", "handler"},
           Continue(r, l),
           pc[r] \in {"authenticate", "available", "validate", "role"},
           UNCHANGED <<asked, ctx, ran, logging, met>>,
           l \in {"available", "validate"} =>
               authorizer = "keycloak" /\ sent[r] \notin {"none", "malformed"},
           l = "role" => route[r] \in {"job", "stream"},
           l = "handler" => Entitled(r),
           context' \in [Pool -> [req : Who, user : Who, claims : Who]],
           context'[ctx[r]].req = r,
           context'[ctx[r]].user \in {r, None}, context'[ctx[r]].claims \in {r, None},
           context'[ctx[r]].claims = r => authorizer = "keycloak" /\ sent[r] \in Users,
           l \in {"role", "handler"} => Known(r)',
           \A c \in Pool \ {ctx[r]} : context'[c] = context[c]
    PROVE  Inv'
<1>0. /\ replies[r] = <<>> /\ ran[r] = 0 /\ ~aborted[r] /\ route[r] # "open"
      /\ logger[r] = "none" /\ Owns(r) /\ ctx[r] \in Pool
      /\ met[r] \cap {"panic", "handshake"} = {}
  BY DEF Inv, Sound, Place, Before, Owns, Inside
<1>1. pc' = [pc EXCEPT ![r] = l] /\ pc'[r] = l /\ UNCHANGED <<aborted, replies, status>>
  BY DEF Inv, TypeOK, Continue, Goto
<1>2. TypeOK'
  BY <1>1 DEF Inv, TypeOK, PC, asked, logging
<1>3. Place(r)'
  BY <1>0, <1>1 DEF Place, Before, Entitled, asked, logging
<1>4. ContextOwn(r)'
  BY <1>0, <1>1 DEF Inv, Sound, ContextOwn, asked
<1>5. EntryOwn(r)'
  BY <1>0 DEF Inv, Sound, EntryOwn, asked, logging
<1>6. ASSUME NEW q \in Request \ {r} PROVE Kept(q)
  <2>1. Owns(q)' => Owns(q)
    BY <1>1 DEF Inv, TypeOK, Owns, Inside, logging
  <2>2. Owns(q) => ctx[q] \in Pool \ {ctx[r]}
    BY <1>0 DEF Inv, Unshared, Sound, ContextOwn
  <2> QED
    BY <1>1, <2>1, <2>2 DEF Inv, TypeOK, Kept, logging
<1> QED
  BY <1>0, <1>2, <1>3, <1>4, <1>5, <1>6, StepInv DEF Sound

-----------------------------------------------------------------------------
(* One lemma per action. *)

LEMMA AcceptStep == ASSUME Inv, NEW r \in Request, Accept(r) PROVE Inv'
<1> USE RequestAssumption
<1>0. PICK c \in Pool :
        /\ ~Busy(c)
        /\ ctx' = [ctx EXCEPT ![r] = c]
        /\ context' = [context EXCEPT ![c] = [req |-> r, user |-> None, claims |-> None]]
        /\ met' = [q \in Request |-> IF ctx[q] = c /\ logger[q] \in Reading
                                     THEN met[q] \cup {"reused"} ELSE met[q]]
  BY DEF Accept
<1>1. /\ replies[r] = <<>> /\ ran[r] = 0 /\ ~aborted[r] /\ logger[r] = "none"
      /\ met[r] \cap {"panic", "handshake"} = {} /\ met'[r] \cap {"panic", "handshake"} = {}
      /\ UNCHANGED <<asked, aborted, replies, status, ran, logging>>
      /\ pc' = [pc EXCEPT ![r] = IF route[r] = "open" THEN "handler" ELSE "authenticate"]
  BY <1>0 DEF Inv, TypeOK, Sound, Place, Before, Accept, Goto
<1>2. TypeOK'
  BY <1>0, <1>1 DEF Inv, TypeOK, PC, Who, asked, logging
<1>3. Place(r)'
  BY <1>0, <1>1 DEF Inv, TypeOK, Place, Before, Entitled, asked, logging
<1>4. ContextOwn(r)'
  BY <1>0, <1>1 DEF Inv, TypeOK, ContextOwn, asked
<1>5. EntryOwn(r)'
  BY <1>0, <1>1 DEF Inv, TypeOK, Sound, EntryOwn, asked, logging
<1>6. ASSUME NEW q \in Request \ {r} PROVE Kept(q) /\ (Owns(q)' => ctx[q] # c)
  <2>1. Owns(q)' => Owns(q) /\ ctx[q] # c
    BY <1>0, <1>1 DEF Inv, TypeOK, Owns, Inside, Busy, logging
  <2> QED
    BY <1>0, <1>1, <2>1 DEF Inv, TypeOK, Kept, Sound, ContextOwn, logging
<1>7. Unshared'
  BY <1>0, <1>6 DEF Inv, TypeOK, Unshared, Kept
<1> QED
  BY <1>1, <1>2, <1>3, <1>4, <1>5, <1>6, <1>7, KeptSound DEF Inv, Sound

(* The context of a request in the chain, and what is written to it.       *)
LEMMA OwnContext ==
    ASSUME Inv, NEW r \in Request, Inside(r)
    PROVE  /\ ctx[r] \in Pool /\ context[ctx[r]].req = r
           /\ context[ctx[r]].user \in {r, None} /\ context[ctx[r]].claims \in {r, None}
           /\ context[ctx[r]].claims = r => authorizer = "keycloak" /\ sent[r] \in Users
  BY DEF Inv, Sound, ContextOwn, Owns

LEMMA SetUserSets ==
    ASSUME Inv, NEW r \in Request, Inside(r), SetUser(r)
    PROVE  /\ context' \in [Pool -> [req : Who, user : Who, claims : Who]]
           /\ context'[ctx[r]].req = r /\ context'[ctx[r]].user = r
           /\ context'[ctx[r]].claims = context[ctx[r]].claims
           /\ \A c \in Pool \ {ctx[r]} : context'[c] = context[c]
<1> DEFINE old == context[ctx[r]]
           new == [old EXCEPT !.user = r]
<1>1. ctx[r] \in Pool /\ context \in [Pool -> [req : Who, user : Who, claims : Who]]
  BY OwnContext DEF Inv, TypeOK
<1>2. old \in [req : Who, user : Who, claims : Who] /\ old.req = r
  BY <1>1, OwnContext
<1>3. /\ new \in [req : Who, user : Who, claims : Who]
      /\ new.req = r /\ new.user = r /\ new.claims = old.claims
  BY <1>2 DEF Who
<1>4. context' = [context EXCEPT ![ctx[r]] = new]
  BY DEF SetUser
<1> QED
  BY <1>1, <1>3, <1>4

LEMMA SetClaimsSets ==
    ASSUME Inv, NEW r \in Request, Inside(r), SetClaims(r)
    PROVE  /\ context' \in [Pool -> [req : Who, user : Who, claims : Who]]
           /\ context'[ctx[r]].req = r
           /\ context'[ctx[r]].user = r /\ context'[ctx[r]].claims = r
           /\ \A c \in Pool \ {ctx[r]} : context'[c] = context[c]
<1> DEFINE old == context[ctx[r]]
           new == [old EXCEPT !.user = r, !.claims = r]
<1>1. ctx[r] \in Pool /\ context \in [Pool -> [req : Who, user : Who, claims : Who]]
  BY OwnContext DEF Inv, TypeOK
<1>2. old \in [req : Who, user : Who, claims : Who] /\ old.req = r
  BY <1>1, OwnContext
<1>3. /\ new \in [req : Who, user : Who, claims : Who]
      /\ new.req = r /\ new.user = r /\ new.claims = r
  BY <1>2 DEF Who
<1>4. context' = [context EXCEPT ![ctx[r]] = new]
  BY <1>1, <1>2 DEF SetClaims
<1> QED
  BY <1>1, <1>3, <1>4

LEMMA AuthenticateStep == ASSUME Inv, NEW r \in Request, Authenticate(r) PROVE Inv'
<1> USE RequestAssumption
<1>1. /\ Inside(r) /\ pc[r] = "authenticate" /\ route[r] # "open"
      /\ UNCHANGED <<asked, ctx, ran, logging, met>>
  BY DEF Inv, Sound, Place, Authenticate, Inside
<1>2. CASE UNCHANGED context /\ Abort(r, 401)
  BY <1>1, <1>2, AbortStep DEF Code
<1>3. CASE authorizer = "keycloak" /\ sent[r] \notin {"none", "malformed"}
           /\ Continue(r, "available") /\ UNCHANGED context
  BY <1>1, <1>3, OwnContext, ContinueStep DEF Inv, TypeOK
<1>4. CASE authorizer = "service_token" /\ sent[r] = "named" /\ SetUser(r)
           /\ Continue(r, Inner(r))
  <2>1. /\ Inner(r) \in {"role", "handler"}
        /\ Inner(r) = "role" => route[r] \in {"job", "stream"}
        /\ Inner(r) = "handler" => Entitled(r)
    BY <1>1, <1>4 DEF Inv, TypeOK, Route, Inner, Entitled
  <2>2. /\ context' \in [Pool -> [req : Who, user : Who, claims : Who]]
        /\ context'[ctx[r]].req = r /\ context'[ctx[r]].user = r
        /\ context'[ctx[r]].claims = context[ctx[r]].claims
        /\ \A c \in Pool \ {ctx[r]} : context'[c] = context[c]
    BY <1>1, <1>4, OwnContext, SetUserSets
  <2>4. Known(r)'
    BY <1>1, <1>4, <2>2 DEF Known, asked
  <2> QED
    BY <1>1, <1>4, <2>1, <2>2, <2>4, OwnContext, ContinueStep
<1> QED
  BY <1>1, <1>2, <1>3, <1>4 DEF Authenticate

LEMMA IsAvailableStep == ASSUME Inv, NEW r \in Request, IsAvailable(r) PROVE Inv'
<1>1. /\ Inside(r) /\ pc[r] = "available"
      /\ authorizer = "keycloak" /\ sent[r] \notin {"none", "malformed"}
      /\ UNCHANGED <<asked, ctx, ran, context, logging, met>>
  BY DEF Inv, Sound, Place, IsAvailable, Inside
<1>2. CASE Abort(r, 503)
  BY <1>1, <1>2, AbortStep DEF Code
<1>3. CASE Continue(r, "validate")
  BY <1>1, <1>3, OwnContext, ContinueStep DEF Inv, TypeOK
<1> QED
  BY <1>2, <1>3 DEF IsAvailable

LEMMA ValidateTokenStep == ASSUME Inv, NEW r \in Request, ValidateToken(r) PROVE Inv'
<1> USE RequestAssumption
<1>1. /\ Inside(r) /\ pc[r] = "validate" /\ route[r] # "open" /\ authorizer = "keycloak"
      /\ sent[r] \notin {"none", "malformed"}
      /\ UNCHANGED <<asked, ctx, ran, logging, met>>
  BY DEF Inv, Sound, Place, ValidateToken, Inside
<1>2. CASE Abort(r, 401) /\ UNCHANGED context
  BY <1>1, <1>2, AbortStep DEF Code
<1>3. CASE sent[r] \notin {"rejected", "foreign"} /\ SetClaims(r) /\ Continue(r, Inner(r))
  <2>1. sent[r] \in Users
    BY <1>1, <1>3, CredentialKinds DEF Inv, TypeOK, Users
  <2>2. /\ Inner(r) \in {"role", "handler"}
        /\ Inner(r) = "role" => route[r] \in {"job", "stream"}
        /\ Inner(r) = "handler" => Entitled(r)
    BY <1>1, <2>1 DEF Inv, TypeOK, Route, Inner, Entitled, Users
  <2>3. /\ context' \in [Pool -> [req : Who, user : Who, claims : Who]]
        /\ context'[ctx[r]].req = r
        /\ context'[ctx[r]].user = r /\ context'[ctx[r]].claims = r
        /\ \A c \in Pool \ {ctx[r]} : context'[c] = context[c]
    BY <1>1, <1>3, OwnContext, SetClaimsSets
  <2>4. Known(r)'
    BY <1>1, <2>3 DEF Known, asked
  <2> QED
    BY <1>1, <1>3, <2>1, <2>2, <2>3, <2>4, ContinueStep
<1> QED
  BY <1>2, <1>3 DEF ValidateToken

LEMMA RequireRoleStep == ASSUME Inv, NEW r \in Request, RequireRole(r) PROVE Inv'
<1> USE RequestAssumption
<1>1. /\ Inside(r) /\ pc[r] = "role" /\ route[r] \in {"job", "stream"} /\ Known(r)
      /\ UNCHANGED <<asked, ctx, ran, context, logging, met>>
  BY DEF Inv, Sound, Place, ContextOwn, RequireRole, Inside, Owns
<1>2. ASSUME NEW s \in {401, 403}, Abort(r, s) PROVE Inv'
  BY <1>1, <1>2, AbortStep DEF Code
<1>3. CASE /\ context[ctx[r]].claims # None /\ HasRole(context[ctx[r]].claims)
           /\ Continue(r, "handler")
  <2>1. Entitled(r)
    BY <1>1, <1>3, OwnContext DEF HasRole, Entitled
  <2>2. Known(r)'
    BY <1>1 DEF Known, asked
  <2> QED
    BY <1>1, <1>3, <2>1, <2>2, OwnContext, ContinueStep DEF Inv, TypeOK
<1> QED
  BY <1>2, <1>3 DEF RequireRole

(* A second reply would take a request that has run its handler without    *)
(* leaving a user: authentication has left one.                            *)
LEMMA UnwindStep == ASSUME Inv, NEW r \in Request, Unwind(r) PROVE Inv'
<1> USE RequestAssumption
<1>1. /\ Inside(r) /\ pc[r] = "unwind" /\ route[r] # "open" /\ logger[r] = "none"
      /\ pc' = [pc EXCEPT ![r] = "log"]
      /\ UNCHANGED <<asked, ctx, ran, logging, met>>
  BY DEF Inv, Sound, Place, Unwind, Goto, Inside
<1>2. ~aborted[r] => Known(r) /\ UserKnown(r)
  BY <1>1 DEF Inv, Sound, Place, ContextOwn, Owns, Known, UserKnown
<1>3. /\ UNCHANGED <<aborted, replies, status>>
      /\ context' = context \/ (~aborted[r] /\ SetUser(r))
  BY <1>2 DEF Unwind
<1>4. /\ context' \in [Pool -> [req : Who, user : Who, claims : Who]]
      /\ context'[ctx[r]].req = r /\ context'[ctx[r]].claims = context[ctx[r]].claims
      /\ context'[ctx[r]].user = context[ctx[r]].user
      /\ \A c \in Pool \ {ctx[r]} : context'[c] = context[c]
  BY <1>1, <1>2, <1>3, OwnContext, SetUserSets DEF Inv, TypeOK, Known
<1>5. TypeOK'
  BY <1>1, <1>3, <1>4 DEF Inv, TypeOK, PC, asked, logging
<1>6. Place(r)'
  BY <1>1, <1>3 DEF Inv, TypeOK, Sound, Place, Before, Entitled, asked, logging
<1>7. ContextOwn(r)' /\ (Owns(r)' => Owns(r))
  <2>1. ContextOwn(r) /\ Owns(r) /\ pc'[r] = "log" /\ (Known(r) => Known(r)')
    BY <1>1, <1>4 DEF Inv, TypeOK, Sound, Owns, Known, asked
  <2> QED
    BY <1>1, <1>4, <2>1 DEF ContextOwn, asked
<1>8. EntryOwn(r)'
  BY <1>1 DEF Inv, Sound, EntryOwn, asked, logging
<1>9. ASSUME NEW q \in Request \ {r} PROVE Kept(q)
  <2>1. Owns(q)' => Owns(q)
    BY <1>1 DEF Inv, TypeOK, Owns, Inside, logging
  <2>2. Owns(q) => ctx[q] \in Pool \ {ctx[r]}
    BY <1>1 DEF Inv, Unshared, Sound, ContextOwn, Owns
  <2> QED
    BY <1>1, <1>3, <1>4, <2>1, <2>2 DEF Inv, TypeOK, Kept, logging
<1> QED
  BY <1>1, <1>5, <1>6, <1>7, <1>8, <1>9, StepInv DEF Sound

(* A handler runs once, for a request that has no reply yet.               *)
LEMMA ServedStep ==
    ASSUME Inv, NEW r \in Request, pc[r] = "handler",
           NEW l \in {"session", "unwind", "log"},
           l = "session" => route[r] = "stream", l = "unwind" => route[r] # "open",
           replies' \in [Request -> Seq(Code)], status' \in [Request -> Code],
           met' \in [Request -> SUBSET {"reused", "panic", "handshake"}],
           Len(replies'[r]) = IF "handshake" \in met'[r] THEN 2 ELSE 1,
           status'[r] = replies'[r][Len(replies'[r])],
           \A x \in {"reused", "panic"} : x \in met'[r] <=> x \in met[r],
           \A q \in Request \ {r} :
               replies'[q] = replies[q] /\ status'[q] = status[q] /\ met'[q] = met[q],
           ran' = [ran EXCEPT ![r] = 1], pc' = [pc EXCEPT ![r] = l],
           UNCHANGED <<asked, ctx, aborted, context, logging>>
    PROVE  Inv'
<1>1. /\ Inside(r) /\ pc[r] = "handler" /\ logger[r] = "none" /\ Entitled(r) /\ Owns(r)
      /\ ran[r] = 0 /\ ctx[r] \in Pool /\ "panic" \notin met[r]
  BY DEF Inv, Sound, Place, Before, Inside, Owns
<1>2. pc'[r] = l /\ ran'[r] = 1
  BY DEF Inv, TypeOK
<1>3. TypeOK'
  BY DEF Inv, TypeOK, PC, asked, logging
<1>4. Place(r)'
  BY <1>1, <1>2 DEF Place, Before, Entitled, asked, logging
<1>5. ContextOwn(r)' /\ (Owns(r)' => Owns(r))
  BY <1>1 DEF Inv, TypeOK, Sound, ContextOwn, Owns, Inside, Known, asked, logging
<1>6. EntryOwn(r)'
  BY <1>1 DEF Inv, Sound, EntryOwn, asked, logging
<1>7. \A q \in Request \ {r} : Kept(q)
  BY <1>1 DEF Inv, TypeOK, Kept, Owns, Inside, asked, logging
<1> QED
  BY <1>3, <1>4, <1>5, <1>6, <1>7, StepInv DEF Sound

LEMMA HandleStep == ASSUME Inv, NEW r \in Request, Handle(r) PROVE Inv'
<1>0. pc[r] = "handler" /\ replies[r] = <<>> /\ ran[r] = 0 /\ "handshake" \notin met[r]
  BY DEF Inv, Sound, Place, Before, Handle
<1>1. /\ ran' = [ran EXCEPT ![r] = 1] /\ pc' = [pc EXCEPT ![r] = Back(r)]
      /\ UNCHANGED <<asked, ctx, aborted, context, logging, met>>
  BY <1>0 DEF Handle, Goto
<1>2. PICK s \in Code : Reply(r, s)
  BY DEF Handle, Code
<1>3. /\ replies' \in [Request -> Seq(Code)] /\ status' \in [Request -> Code]
      /\ Len(replies'[r]) = 1 /\ status'[r] = replies'[r][1]
      /\ \A q \in Request \ {r} : replies'[q] = replies[q] /\ status'[q] = status[q]
  BY <1>0, <1>2, ReplyOnce DEF Inv
<1>4. Back(r) \in {"unwind", "log"} /\ (Back(r) = "unwind" => route[r] # "open")
  BY DEF Back
<1>5. met' \in [Request -> SUBSET {"reused", "panic", "handshake"}]
  BY <1>1 DEF Inv, TypeOK
<1> QED
  BY <1>0, <1>1, <1>3, <1>4, <1>5, ServedStep

LEMMA HandshakeStep == ASSUME Inv, NEW r \in Request, Handshake(r) PROVE Inv'
<1>0. /\ pc[r] = "handler" /\ route[r] = "stream"
      /\ replies[r] = <<>> /\ ran[r] = 0 /\ "handshake" \notin met[r]
  BY DEF Inv, Sound, Place, Before, Handshake
<1>1. /\ ran' = [ran EXCEPT ![r] = 1]
      /\ UNCHANGED <<asked, ctx, aborted, context, logging>>
  BY <1>0 DEF Handshake
<1>2. CASE Reply(r, 101) /\ Goto(r, "session") /\ UNCHANGED met
  <2>1. /\ replies' \in [Request -> Seq(Code)] /\ status' \in [Request -> Code]
        /\ Len(replies'[r]) = 1 /\ status'[r] = replies'[r][1]
        /\ \A q \in Request \ {r} : replies'[q] = replies[q] /\ status'[q] = status[q]
    BY <1>0, <1>2, ReplyOnce DEF Inv, Code
  <2>2. met' \in [Request -> SUBSET {"reused", "panic", "handshake"}]
    BY <1>2 DEF Inv, TypeOK
  <2> QED
    BY <1>0, <1>1, <1>2, <2>1, <2>2, ServedStep DEF Goto
<1>3. ASSUME NEW s \in {400, 426}, replies' = [replies EXCEPT ![r] = @ \o <<s, 500>>],
             status' = [status EXCEPT ![r] = 500],
             met' = [met EXCEPT ![r] = @ \cup {"handshake"}], Goto(r, Back(r))
      PROVE  Inv'
  <2>1. replies[r] \o <<s, 500>> = <<s, 500>> /\ <<s, 500>> \in Seq(Code)
    BY <1>0 DEF Code
  <2>2. Len(<<s, 500>>) = 2 /\ <<s, 500>>[2] = 500
    OBVIOUS
  <2>3. replies' = [replies EXCEPT ![r] = <<s, 500>>]
    BY <1>3, <2>1
  <2>4. /\ replies' \in [Request -> Seq(Code)] /\ status' \in [Request -> Code]
        /\ replies'[r] = <<s, 500>> /\ status'[r] = 500
        /\ \A q \in Request \ {r} : replies'[q] = replies[q] /\ status'[q] = status[q]
    BY <1>3, <2>1, <2>3 DEF Inv, TypeOK, Code
  <2>5. /\ met' \in [Request -> SUBSET {"reused", "panic", "handshake"}]
        /\ "handshake" \in met'[r]
        /\ \A x \in {"reused", "panic"} : x \in met'[r] <=> x \in met[r]
        /\ \A q \in Request \ {r} : met'[q] = met[q]
    BY <1>3 DEF Inv, TypeOK
  <2>6. Back(r) = "unwind"
    BY <1>0 DEF Back
  <2>7. Len(replies'[r]) = 2 /\ replies'[r][2] = status'[r]
    BY <2>2, <2>4
  <2> QED
    <3>1. Len(replies'[r]) = IF "handshake" \in met'[r] THEN 2 ELSE 1
      BY <2>5, <2>7
    <3>2. status'[r] = replies'[r][Len(replies'[r])]
      BY <2>7
    <3>3. pc' = [pc EXCEPT ![r] = "unwind"]
      BY <1>3, <2>6 DEF Goto
    <3>4. \A q \in Request \ {r} :
              replies'[q] = replies[q] /\ status'[q] = status[q] /\ met'[q] = met[q]
      BY <2>4, <2>5
    <3>5. replies' \in [Request -> Seq(Code)] /\ status' \in [Request -> Code]
      BY <2>4
    <3> QED
      BY <1>0, <1>1, <2>5, <3>1, <3>2, <3>3, <3>4, <3>5, ServedStep
<1> QED
  BY <1>2, <1>3 DEF Handshake

LEMMA EndSessionStep == ASSUME Inv, NEW r \in Request, EndSession(r) PROVE Inv'
<1>1. /\ pc[r] = "session" /\ route[r] = "stream" /\ ran[r] = 1 /\ logger[r] = "none" /\ Owns(r)
      /\ pc' = [pc EXCEPT ![r] = "unwind"]
      /\ UNCHANGED <<asked, ctx, aborted, replies, status, ran, context, logging, met>>
  BY DEF Inv, Sound, Place, EndSession, Goto, Back, Owns, Inside
<1>2. TypeOK'
  BY <1>1 DEF Inv, TypeOK, PC, asked, logging
<1>3. Place(r)'
  BY <1>1 DEF Inv, TypeOK, Sound, Place, Before, Entitled, asked, logging
<1>4. ContextOwn(r)'
  BY <1>1 DEF Inv, TypeOK, Sound, ContextOwn, Known, asked
<1>5. EntryOwn(r)'
  BY <1>1 DEF Inv, Sound, EntryOwn, asked, logging
<1>6. \A q \in Request \ {r} : Kept(q)
  BY <1>1 DEF Inv, TypeOK, Kept, Owns, Inside, logging
<1> QED
  BY <1>1, <1>2, <1>3, <1>4, <1>5, <1>6, StepInv DEF Sound

LEMMA PanicInSessionStep == ASSUME Inv, NEW r \in Request, PanicInSession(r) PROVE Inv'
<1>1. /\ pc[r] = "session" /\ route[r] = "stream" /\ Entitled(r) /\ ran[r] = 1 /\ logger[r] = "none" /\ ctx[r] \in Pool
      /\ pc' = [pc EXCEPT ![r] = "done"] /\ aborted' = [aborted EXCEPT ![r] = TRUE]
      /\ status' = [status EXCEPT ![r] = 500]
      /\ met' = [met EXCEPT ![r] = @ \cup {"panic"}]
      /\ UNCHANGED <<asked, ctx, replies, ran, context, logging>>
  BY DEF Inv, Sound, Place, PanicInSession, Goto
<1>2. TypeOK'
  BY <1>1 DEF Inv, TypeOK, PC, Code, asked, logging
<1>3. Place(r)'
  <2>1. Len(replies[r]) = IF "handshake" \in met[r] THEN 2 ELSE 1
    BY <1>1 DEF Inv, Sound, Place, Before
  <2>2. /\ "handshake" \in met'[r] <=> "handshake" \in met[r]
        /\ "panic" \in met'[r] /\ pc'[r] = "done"
    BY <1>1 DEF Inv, TypeOK
  <2> QED
    BY <1>1, <2>1, <2>2 DEF Place, Before, Entitled, asked, logging
<1>4. ~Owns(r)'
  BY <1>1 DEF Inv, TypeOK, Owns, Inside, Reading, logging
<1>5. EntryOwn(r)'
  BY <1>1 DEF Inv, TypeOK, Sound, EntryOwn, asked, logging
<1>6. \A q \in Request \ {r} : Kept(q)
  BY <1>1 DEF Inv, TypeOK, Kept, Owns, Inside, asked, logging
<1> QED
  BY <1>1, <1>2, <1>3, <1>4, <1>5, <1>6, StepInv DEF Sound, ContextOwn

LEMMA PanicStep == ASSUME Inv, NEW r \in Request, Panic(r) PROVE Inv'
<1>0. /\ Inside(r) /\ pc[r] = "handler" /\ logger[r] = "none" /\ Entitled(r)
      /\ replies[r] = <<>> /\ ran[r] = 0 /\ ctx[r] \in Pool /\ "handshake" \notin met[r]
  BY DEF Inv, Sound, Place, Before, Panic, Inside
<1>1. /\ Inside(r) /\ pc[r] = "handler" /\ logger[r] = "none" /\ Entitled(r)
      /\ replies[r] = <<>> /\ ran[r] = 0 /\ ran' = [ran EXCEPT ![r] = 1]
      /\ pc' = [pc EXCEPT ![r] = "done"] /\ aborted' = [aborted EXCEPT ![r] = TRUE]
      /\ met' = [met EXCEPT ![r] = @ \cup {"panic"}]
      /\ UNCHANGED <<asked, ctx, context, logging>>
  BY <1>0 DEF Panic, Goto
<1>2. /\ replies' \in [Request -> Seq(Code)] /\ status' \in [Request -> Code]
      /\ Len(replies'[r]) = 1 /\ replies'[r][1] = status'[r]
      /\ \A q \in Request \ {r} : replies'[q] = replies[q] /\ status'[q] = status[q]
  BY <1>1, ReplyOnce DEF Inv, Panic, Code
<1>3. TypeOK'
  BY <1>1, <1>2 DEF Inv, TypeOK, PC, asked, logging
<1>4. Place(r)'
  <2>1. "handshake" \notin met'[r] /\ "panic" \in met'[r] /\ pc'[r] = "done" /\ ran'[r] = 1
    BY <1>0, <1>1 DEF Inv, TypeOK
  <2> QED
    BY <1>0, <1>1, <1>2, <2>1 DEF Place, Before, Entitled, asked, logging
<1>5. ~Owns(r)'
  BY <1>1 DEF Inv, TypeOK, Owns, Inside, Reading, logging
<1>6. EntryOwn(r)'
  BY <1>1 DEF Inv, TypeOK, Sound, EntryOwn, asked, logging
<1>7. \A q \in Request \ {r} : Kept(q)
  BY <1>1, <1>2 DEF Inv, TypeOK, Kept, Owns, Inside, asked, logging
<1> QED
  BY <1>1, <1>3, <1>4, <1>5, <1>6, <1>7, StepInv DEF Sound, ContextOwn

LEMMA StartLogStep == ASSUME Inv, NEW r \in Request, StartLog(r) PROVE Inv'
<1>1. /\ Inside(r) /\ pc[r] = "log" /\ Owns(r)
      /\ pc' = [pc EXCEPT ![r] = "done"] /\ logger' = [logger EXCEPT ![r] = "user"]
      /\ UNCHANGED <<asked, ctx, aborted, replies, status, ran, context, entry, met>>
  BY DEF StartLog, Goto, Inside, Owns
<1>2. TypeOK'
  BY <1>1 DEF Inv, TypeOK, PC, asked
<1>3. Place(r)'
  BY <1>1 DEF Inv, TypeOK, Sound, Place, Before, Entitled, asked
<1>4. ContextOwn(r)'
  BY <1>1 DEF Inv, TypeOK, Sound, ContextOwn, Known, asked
<1>5. EntryOwn(r)'
  BY <1>1 DEF Inv, TypeOK, Sound, EntryOwn, asked
<1>6. \A q \in Request \ {r} : Kept(q)
  BY <1>1 DEF Inv, TypeOK, Kept, Owns, Inside, asked
<1> QED
  BY <1>1, <1>2, <1>3, <1>4, <1>5, <1>6, StepInv DEF Sound

(* The goroutine of r only moves, and notes e.                             *)
LEMMA LogStep ==
    ASSUME Inv, NEW r \in Request, logger[r] # "none",
           NEW m \in {"claims", "request", "insert", "stored", "lost"},
           NEW e \in [user : Who, claims : Who, req : Who],
           logger' = [logger EXCEPT ![r] = m], entry' = [entry EXCEPT ![r] = e],
           UNCHANGED <<asked, chain, context, met>>,
           m \in Reading => logger[r] \in Reading, EntryOwn(r)'
    PROVE  Inv'
<1>1. TypeOK'
  BY DEF Inv, TypeOK, asked, chain
<1>2. Place(r)'
  BY DEF Inv, TypeOK, Sound, Place, Entitled, asked, chain
<1>3. Owns(r)' => Owns(r)
  BY DEF Inv, TypeOK, Owns, Inside, chain
<1>4. ContextOwn(r)'
  BY <1>3 DEF Inv, Sound, ContextOwn, Known, asked, chain
<1>5. \A q \in Request \ {r} : Kept(q)
  BY DEF Inv, TypeOK, Kept, Owns, Inside, chain
<1> QED
  BY <1>1, <1>2, <1>3, <1>4, <1>5, StepInv DEF Sound, chain

(* What a goroutine reads of a context that is still its own.              *)
LEMMA ReadOwn ==
    ASSUME Inv, NEW r \in Request, logger[r] \in Reading
    PROVE  /\ entry[r] \in [user : Who, claims : Who, req : Who]
           /\ context[ctx[r]] \in [req : Who, user : Who, claims : Who]
           /\ "reused" \notin met[r] =>
                 /\ context[ctx[r]].req = r
                 /\ context[ctx[r]].user \in {r, None} /\ context[ctx[r]].claims \in {r, None}
                 /\ ran[r] = 1 /\ route[r] # "open" => Known(r)
<1>1. ctx[r] \in Pool
  BY DEF Inv, Sound, Place, Reading
<1> QED
  BY <1>1 DEF Inv, TypeOK, Sound, ContextOwn, Owns

LEMMA LogUserStep == ASSUME Inv, NEW r \in Request, LogUser(r) PROVE Inv'
<1> DEFINE e == [entry[r] EXCEPT !.user = context[ctx[r]].user]
<1>1. /\ logger[r] = "user" /\ logger' = [logger EXCEPT ![r] = "claims"]
      /\ entry' = [entry EXCEPT ![r] = e] /\ UNCHANGED <<asked, chain, context, met>>
  BY DEF LogUser, Read
<1>2. /\ e \in [user : Who, claims : Who, req : Who]
      /\ e.user = context[ctx[r]].user /\ e.claims = entry[r].claims
  BY <1>1, ReadOwn DEF Reading
<1>3. entry'[r] = e /\ logger'[r] = "claims"
  BY <1>1 DEF Inv, TypeOK
<1>4. EntryOwn(r)'
  BY <1>1, <1>2, <1>3, ReadOwn DEF Inv, Sound, EntryOwn, Known, Reading, asked, chain
<1> QED
  BY <1>1, <1>2, <1>4, LogStep DEF Reading

LEMMA LogClaimsStep == ASSUME Inv, NEW r \in Request, LogClaims(r) PROVE Inv'
<1> DEFINE e == [entry[r] EXCEPT !.claims = context[ctx[r]].claims]
<1>1. /\ logger[r] = "claims" /\ logger' = [logger EXCEPT ![r] = "request"]
      /\ entry' = [entry EXCEPT ![r] = e] /\ UNCHANGED <<asked, chain, context, met>>
  BY DEF LogClaims, Read
<1>2. /\ e \in [user : Who, claims : Who, req : Who]
      /\ e.claims = context[ctx[r]].claims /\ e.user = entry[r].user
  BY <1>1, ReadOwn DEF Reading
<1>3. entry'[r] = e /\ logger'[r] = "request"
  BY <1>1 DEF Inv, TypeOK
<1>4. EntryOwn(r)'
  BY <1>1, <1>2, <1>3, ReadOwn DEF Inv, Sound, EntryOwn, Known, Reading, asked, chain
<1> QED
  BY <1>1, <1>2, <1>4, LogStep DEF Reading

LEMMA LogRequestStep == ASSUME Inv, NEW r \in Request, LogRequest(r) PROVE Inv'
<1> DEFINE e == [entry[r] EXCEPT !.req = context[ctx[r]].req]
<1>1. /\ logger[r] = "request" /\ logger' = [logger EXCEPT ![r] = "insert"]
      /\ entry' = [entry EXCEPT ![r] = e] /\ UNCHANGED <<asked, chain, context, met>>
  BY DEF LogRequest, Read
<1>2. /\ e \in [user : Who, claims : Who, req : Who] /\ e.req = context[ctx[r]].req
      /\ e.user = entry[r].user /\ e.claims = entry[r].claims
  BY <1>1, ReadOwn DEF Reading
<1>3. entry'[r] = e /\ logger'[r] = "insert"
  BY <1>1 DEF Inv, TypeOK
<1>4. EntryOwn(r)'
  BY <1>1, <1>2, <1>3, ReadOwn DEF Inv, Sound, EntryOwn, Reading, asked, chain
<1> QED
  BY <1>1, <1>2, <1>4, LogStep DEF Reading

LEMMA CreateAccessLogStep == ASSUME Inv, NEW r \in Request, CreateAccessLog(r) PROVE Inv'
<1>1. PICK m \in {"stored", "lost"} : logger' = [logger EXCEPT ![r] = m]
  BY DEF CreateAccessLog
<1>2. logger[r] = "insert" /\ UNCHANGED <<asked, chain, context, entry, met>>
  BY DEF CreateAccessLog
<1>3. entry[r] \in [user : Who, claims : Who, req : Who] /\ entry' = [entry EXCEPT ![r] = entry[r]]
  BY <1>2 DEF Inv, TypeOK
<1>4. EntryOwn(r)'
  BY <1>1, <1>2 DEF Inv, TypeOK, Sound, EntryOwn, asked, chain
<1> QED
  BY <1>1, <1>2, <1>3, <1>4, LogStep DEF Reading

-----------------------------------------------------------------------------

LEMMA NextInv == Inv /\ [Next]_requestVars => Inv'
<1> SUFFICES ASSUME Inv, [Next]_requestVars PROVE Inv'
  OBVIOUS
<1>1. CASE UNCHANGED requestVars
  <2>1. ASSUME NEW q \in Request PROVE Kept(q)
    BY <1>1 DEF Kept, Owns, Inside, requestVars, chain, logging
  <2>2. \A q \in Request : Sound(q)'
    BY <1>1, <2>1, KeptSound DEF Inv, requestVars
  <2>3. TypeOK' /\ Unshared'
    BY <1>1 DEF Inv, TypeOK, Unshared, Owns, Inside, requestVars, asked, chain, logging
  <2> QED
    BY <2>2, <2>3 DEF Inv
<1>2. ASSUME NEW r \in Request, Enter(r) PROVE Inv'
  BY <1>2, AcceptStep, AuthenticateStep, RequireRoleStep DEF Enter
<1>3. ASSUME NEW r \in Request, Ask(r) PROVE Inv'
  BY <1>3, IsAvailableStep, ValidateTokenStep DEF Ask
<1>4. ASSUME NEW r \in Request, Serve(r) PROVE Inv'
  BY <1>4, HandleStep, PanicStep, HandshakeStep, EndSessionStep, PanicInSessionStep DEF Serve
<1>5. ASSUME NEW r \in Request, Leave(r) PROVE Inv'
  BY <1>5, UnwindStep, StartLogStep DEF Leave
<1>6. ASSUME NEW r \in Request, ReadContext(r) \/ CreateAccessLog(r) PROVE Inv'
  BY <1>6, LogUserStep, LogClaimsStep, LogRequestStep, CreateAccessLogStep DEF ReadContext
<1> QED
  BY <1>1, <1>2, <1>3, <1>4, <1>5, <1>6 DEF Next

LEMMA Invariance == Spec => []Inv
  BY InitInv, NextInv, PTL DEF Spec

(* A client gets one reply and no more, whatever the middlewares, the      *)
(* handler and RequireAuth behind them write, unless its handshake failed: *)
(* then it gets two, websocket.Accept's and the handler's.                 *)
THEOREM OneReplyEach == Spec => []OneReply
<1>1. Inv => OneReply
  <2> SUFFICES ASSUME Inv, NEW r \in Request PROVE OneReply!(r)
    BY DEF OneReply
  <2>1. pc[r] \in Before => /\ replies[r] = <<>> /\ pc[r] # "done"
                            /\ "handshake" \notin met[r]
    BY DEF Inv, Sound, Place, Before
  <2>2. pc[r] \notin Before => Len(replies[r]) = IF "handshake" \in met[r] THEN 2 ELSE 1
    BY DEF Inv, Sound, Place
  <2>3. CASE pc[r] \in Before
    <3>1. Len(replies[r]) = 0
      BY <2>1, <2>3
    <3> QED
      BY <2>1, <2>3, <3>1
  <2>4. CASE pc[r] \notin Before
    <3>1. Len(replies[r]) # 0 /\ (Len(replies[r]) <= IF "handshake" \in met[r] THEN 2 ELSE 1)
      BY <2>2, <2>4
    <3>2. replies[r] # <<>>
      BY <3>1
    <3> QED
      BY <3>1, <3>2
  <2> QED
    BY <2>3, <2>4
<1> QED
  BY <1>1, Invariance, PTL

(* Who is not entitled is never served, and who is finds his own request   *)
(* and user in the context, for any number of requests and contexts.       *)
THEOREM ServesTheEntitled == Spec => []ServedRightly
<1>1. Inv => ServedRightly
  <2> SUFFICES ASSUME Inv, NEW r \in Request PROVE ServedRightly!(r)
    BY DEF ServedRightly
  <2>1. ran[r] <= 1 /\ (ran[r] = 1 => Entitled(r))
    BY DEF Inv, Sound, Place
  <2>2. ASSUME pc[r] = "handler"
        PROVE  /\ Entitled(r) /\ context[ctx[r]].req = r
               /\ context[ctx[r]].user = (IF route[r] = "open" THEN None ELSE r)
    BY <2>2 DEF Inv, Sound, Place, ContextOwn, Owns, Inside, Known
  <2> QED
    BY <2>1, <2>2
<1> QED
  BY <1>1, Invariance, PTL

(* The access log has the status of the last reply, the client's unless a  *)
(* handshake failed, and, of a context that was not given away before it   *)
(* was read, the request and its user.                                     *)
THEOREM LogsItsOwn == Spec => []RowIsOwn
<1>1. Inv => RowIsOwn
  <2> SUFFICES ASSUME Inv, NEW r \in Request, logger[r] = "stored" PROVE RowIsOwn!(r)!2
    BY DEF RowIsOwn
  <2>1. pc[r] = "done" /\ "panic" \notin met[r]
    BY DEF Inv, Sound, Place
  <2>2. /\ Len(replies[r]) = IF "handshake" \in met[r] THEN 2 ELSE 1
        /\ status[r] = replies[r][Len(replies[r])]
    BY <2>1 DEF Inv, Sound, Place, Before
  <2>3. Len(replies[r]) # 0
    BY <2>2
  <2>4. replies[r] # <<>>
    BY <2>3
  <2> QED
    BY <2>2, <2>4 DEF Inv, Sound, EntryOwn
<1> QED
  BY <1>1, Invariance, PTL
=============================================================================
