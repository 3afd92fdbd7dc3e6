------------------------------ MODULE WebProofs ------------------------------
(***************************************************************************)
(* Sessions and authorization for every number of tokens, files, browsers  *)
(* and restarts, and for every way of setting the clock.                   *)
(***************************************************************************)
EXTENDS WebUi, TLAPS

\* A setting back of the clock adds to what the clock has lost.
LEMMA SetBack == ASSUME NEW n \in Nat, NEW i \in Int, NEW j \in Int, j < i
                 PROVE  n + (i - j) \in Nat
OBVIOUS

-----------------------------------------------------------------------------
(* Sessions                                                                *)

\* The clock shows a session's age but for what it has been set back.
AgeShown ==
    \A b \in Browsers : cookie[b] # None =>
        time - cookie[b].at <= (clock - cookie[b].issued) + (lost - cookie[b].lost)

\* A secret that is not the environment's is the number of the start.
SecretsOwn ==
    /\ secret \in EnvSecrets \ {None} \/ secret = starts
    /\ \A b \in Browsers : cookie[b] # None =>
          cookie[b].secret \in EnvSecrets \ {None} \/ cookie[b].secret = cookie[b].born

AccessInv == AccessTypeOK /\ AgeShown /\ SecretsOwn

\* Before the first start there is nothing to be signed in with.
LEMMA AccessInitially == AccessInit => AccessInv
<1> SUFFICES ASSUME AccessInit PROVE AccessInv
    OBVIOUS
<1> USE DEF AccessInit
<1>1. \A b \in Browsers : cookie[b] = None
    OBVIOUS
<1>2. AccessTypeOK
    BY DEF AccessTypeOK
<1>3. AgeShown /\ SecretsOwn
    BY <1>1 DEF AgeShown, SecretsOwn
<1> QED BY <1>2, <1>3 DEF AccessInv

\* Every step of the access part keeps the types.
LEMMA AccessTyping == AccessTypeOK /\ [AccessNext]_accessVars => AccessTypeOK'
<1> SUFFICES ASSUME AccessTypeOK, [AccessNext]_accessVars PROVE AccessTypeOK'
    OBVIOUS
<1> USE DEF AccessTypeOK
<1>1. CASE EditConfig
    BY <1>1 DEF EditConfig
<1>2. CASE Start
    <2>1. config \in TokenConfig
        <3>1. PICK S \in SUBSET Tokens : config \in [S -> RawEntry]
            BY AccessAssumption
        <3>2. \A k \in S : config[k] \in Entry
            BY <1>2, <3>1 DEF Start, LoadOK, RawEntry, Entry
        <3> QED BY <3>1, <3>2 DEF TokenConfig
    <2> QED BY <1>2, <2>1 DEF Start, SecretFor
<1>3. CASE Stop
    BY <1>3 DEF Stop
<1>4. CASE Tick
    BY <1>4 DEF Tick
<1>5. CASE SetClock
    <2>1. clock' \in Int /\ lost' \in Nat
        <3>1. clock' \in Int
            BY <1>5, AccessAssumption DEF SetClock
        <3>2. CASE clock' < clock
            <4>1. lost' = lost + (clock - clock')
                BY <1>5, <3>2 DEF SetClock
            <4>2. clock \in Int /\ lost \in Nat
                OBVIOUS
            <4>3. lost + (clock - clock') \in Nat
                BY <3>1, <3>2, <4>2, SetBack
            <4> QED BY <3>1, <4>1, <4>3
        <3>3. CASE ~(clock' < clock)
            BY <1>5, <3>3 DEF SetClock
        <3> QED BY <3>1, <3>2, <3>3
    <2> QED BY <1>5, <2>1 DEF SetClock
<1>6. ASSUME NEW b \in Browsers, SignOut(b) PROVE AccessTypeOK'
    BY <1>6 DEF SignOut
<1>7. ASSUME NEW b \in Browsers, NEW k \in Tokens, SignIn(b, k) PROVE AccessTypeOK'
    BY <1>7 DEF SignIn, Session
<1>8. CASE UNCHANGED accessVars
    BY <1>8 DEF accessVars
<1> QED BY <1>1, <1>2, <1>3, <1>4, <1>5, <1>6, <1>7, <1>8 DEF AccessNext

\* Every step of sessions, process and clock preserves the invariant.
LEMMA AccessStep == AccessInv /\ [AccessNext]_accessVars => AccessInv'
<1> SUFFICES ASSUME AccessInv, [AccessNext]_accessVars PROVE AccessInv'
    OBVIOUS
<1>t. AccessTypeOK /\ AccessTypeOK'
    BY AccessTyping DEF AccessInv
<1> DEFINE Held(b) == cookie[b] # None
<1>h. \A b \in Browsers : Held(b) => cookie[b] \in Session
    BY <1>t DEF AccessTypeOK
<1>1. AgeShown'
    <2>1. CASE UNCHANGED <<cookie, clock, time, lost>>
        BY <2>1 DEF AccessInv, AgeShown
    <2>4. CASE Tick \/ SetClock
        <3> SUFFICES ASSUME NEW b \in Browsers, cookie[b] # None
                     PROVE  time' - cookie[b].at
                              <= (clock' - cookie[b].issued) + (lost' - cookie[b].lost)
            BY <2>4 DEF AgeShown, Tick, SetClock
        <3>1. /\ cookie[b].at \in Int /\ cookie[b].issued \in Int /\ cookie[b].lost \in Int
              /\ time \in Int /\ clock \in Int /\ lost \in Int
              /\ time' \in Int /\ clock' \in Int /\ lost' \in Int
            BY <1>t, <1>h DEF AccessTypeOK, Session
        <3>2. time - cookie[b].at <= (clock - cookie[b].issued) + (lost - cookie[b].lost)
            BY DEF AccessInv, AgeShown
        <3> QED BY <2>4, <3>1, <3>2 DEF Tick, SetClock
    <2>2. ASSUME NEW b \in Browsers, SignOut(b) PROVE AgeShown'
        BY <2>2, <1>t DEF AccessInv, AgeShown, AccessTypeOK, SignOut
    <2>3. ASSUME NEW b \in Browsers, NEW k \in Tokens, SignIn(b, k) PROVE AgeShown'
        BY <2>3, <1>t, <1>h DEF AccessInv, AgeShown, AccessTypeOK, SignIn
    <2> QED BY <2>1, <2>2, <2>3, <2>4
            DEF AccessNext, accessVars, EditConfig, Start, Stop
<1>2. SecretsOwn'
    <2>1. CASE UNCHANGED <<secret, starts, cookie>>
        BY <2>1 DEF AccessInv, SecretsOwn
    <2>2. CASE Start
        BY <2>2, AccessAssumption DEF AccessInv, SecretsOwn, Start, SecretFor
    <2>3. ASSUME NEW b \in Browsers, SignOut(b) PROVE SecretsOwn'
        BY <2>3, <1>t DEF AccessInv, SecretsOwn, AccessTypeOK, SignOut
    <2>4. ASSUME NEW b \in Browsers, NEW k \in Tokens, SignIn(b, k) PROVE SecretsOwn'
        BY <2>4, <1>t DEF AccessInv, SecretsOwn, AccessTypeOK, SignIn
    <2> QED BY <2>1, <2>2, <2>3, <2>4
            DEF AccessNext, accessVars, EditConfig, Stop, Tick, SetClock
<1> QED BY <1>t, <1>1, <1>2 DEF AccessInv

\* What verify_session compares bounds the time that has really gone by.
LEMMA LifetimeFollows == AccessInv => SessionLifetime
<1> SUFFICES ASSUME AccessInv, NEW b \in Browsers, SignedIn(b)
             PROVE  time - cookie[b].at <= MaxAge + (lost - cookie[b].lost)
    BY DEF SessionLifetime
<1>1. cookie[b] # None /\ cookie[b] \in Session
    BY DEF AccessInv, AccessTypeOK, SignedIn, Accepts
<1>2. clock - cookie[b].issued <= MaxAge
    BY DEF SignedIn, Accepts, InTime
<1> QED BY <1>1, <1>2, AccessAssumption DEF AccessInv, AgeShown, AccessTypeOK, Session

\* A secret that the process drew is in no cookie of another process.
LEMMA ResetFollows == AccessInv => ResetOnRestart
<1> SUFFICES ASSUME AccessInv, NEW b \in Browsers, SignedIn(b),
                    secret \notin EnvSecrets \ {None}
             PROVE  cookie[b].born = starts
    BY DEF ResetOnRestart
<1>1. cookie[b] # None /\ cookie[b].secret = secret
    BY DEF SignedIn, Accepts
<1> QED BY <1>1 DEF AccessInv, SecretsOwn

-----------------------------------------------------------------------------
(* Requests                                                                *)

\* Token t may write file f in the process that runs.
Authorized(t, f) ==
    /\ Running /\ t \in DOMAIN entries
    /\ entries[t] = [file |-> f, mode |-> "read-write"]

Request == [token : Tokens, file : Files, name : Names]

\* A DELETE that is under way was let in by the configuration that is still
\* that of the process.
DoomedAuthorized ==
    /\ DOMAIN graphs = Files
    /\ doomed \in [Browsers -> Request \cup {None}]
    /\ \A b \in Browsers : doomed[b] # None => Authorized(doomed[b].token, doomed[b].file)

WebInv == AccessInv /\ DoomedAuthorized

\* Whatever a request does, it leaves tokens, sessions and clock alone.
LEMMA RequestsLeaveAccess == [WebNext]_webVars => [AccessNext]_accessVars
<1> SUFFICES ASSUME [WebNext]_webVars PROVE [AccessNext]_accessVars
    OBVIOUS
<1> USE DEF Serve
<1>1. ASSUME NEW b \in Browsers,
             \/ UpdateObservationRequest(b) \/ DeleteObservationRequest(b)
             \/ FindEntity(b) \/ DeleteEntityRequest(b)
      PROVE  UNCHANGED accessVars
    BY <1>1 DEF UpdateObservationRequest, DeleteObservationRequest, FindEntity,
                DeleteEntityRequest
<1>2. ASSUME NEW k \in Tokens, CallTool(k) PROVE UNCHANGED accessVars
    BY <1>2 DEF CallTool
<1>3. CASE Background
    BY <1>3 DEF Background
<1>4. CASE UNCHANGED webVars
    BY <1>4 DEF webVars
<1> QED BY <1>1, <1>2, <1>3, <1>4 DEF WebNext

\* An entry that lets a token write is its file and read-write.
LEMMA WritersAuthorized ==
    ASSUME AccessTypeOK, NEW t, Running, t \in DOMAIN entries, ~ReadOnly(entries[t])
    PROVE  Authorized(t, entries[t].file)
<1>1. PICK S \in SUBSET Tokens : entries \in [S -> Entry]
    BY DEF AccessTypeOK, TokenConfig, Running
<1>2. entries[t] \in Entry
    BY <1>1
<1> QED BY <1>2 DEF Authorized, ReadOnly, Entry

\* While the process lives its configuration stays as it was read.
LEMMA ConfigurationFixed ==
    ASSUME [AccessNext]_accessVars, Running, entries' # None
    PROVE  entries' = entries
BY DEF AccessNext, accessVars, EditConfig, Start, Stop, Tick, SetClock, SignIn,
       SignOut, Running

\* Every request and everything in the background preserves the invariant.
LEMMA WebStep == WebInv /\ [WebNext]_webVars => WebInv'
<1> SUFFICES ASSUME WebInv, [WebNext]_webVars PROVE WebInv'
    OBVIOUS
<1>1. AccessInv' /\ AccessTypeOK
    BY AccessStep, RequestsLeaveAccess DEF WebInv, AccessInv
<1> USE DEF WebInv, DoomedAuthorized
<1>2. CASE Background
    <2>1. CASE entries' = None
        <3>1. doomed' = [b \in Browsers |-> None]
            BY <1>2, <2>1 DEF Background
        <3>2. doomed' \in [Browsers -> Request \cup {None}]
            BY <3>1
        <3>3. \A b \in Browsers : doomed'[b] = None
            BY <3>1
        <3> QED BY <1>1, <1>2, <3>2, <3>3 DEF Background
    <2>2. CASE entries' # None
        <3>1. doomed' = doomed
            BY <1>2, <2>2 DEF Background
        <3>2. \A k, f : Authorized(k, f) => Authorized(k, f)'
            BY <1>2, <2>2, ConfigurationFixed DEF Background, Authorized, Running
        <3> QED BY <1>1, <1>2, <3>1, <3>2 DEF Background
    <2> QED BY <2>1, <2>2, <1>1
<1>3. ASSUME UNCHANGED <<accessVars, doomed>>, DOMAIN graphs' = Files PROVE WebInv'
    BY <1>1, <1>3 DEF Authorized, Running, accessVars
<1>4. ASSUME NEW b \in Browsers, FindEntity(b) PROVE WebInv'
    <2>1. Authorized(cookie[b].token, EntryOf(b).file)
        BY <1>1, <1>4, WritersAuthorized DEF FindEntity, MayWrite, SignedIn, EntryOf
    <2>2. /\ cookie[b].token \in Tokens /\ EntryOf(b).file \in Files
        <3>1. PICK S \in SUBSET Tokens : entries \in [S -> Entry]
            BY <1>1, <1>4 DEF AccessTypeOK, TokenConfig, FindEntity, MayWrite, SignedIn, Running
        <3>2. cookie[b].token \in S
            BY <1>4, <3>1 DEF FindEntity, MayWrite, SignedIn
        <3> QED BY <3>1, <3>2 DEF EntryOf, Entry
    <2>3. PICK n \in Names :
            doomed' = [doomed EXCEPT ![b] =
                [token |-> cookie[b].token, file |-> EntryOf(b).file, name |-> n]]
        BY <1>4 DEF FindEntity
    <2>4. doomed' \in [Browsers -> Request \cup {None}]
        BY <2>2, <2>3 DEF Request
    <2>5. \A k, f : Authorized(k, f) => Authorized(k, f)'
        BY <1>4 DEF FindEntity, accessVars, Authorized, Running
    <2>6. ASSUME NEW o \in Browsers, doomed'[o] # None
          PROVE  Authorized(doomed[o].token, doomed[o].file)'
        <3>1. CASE o = b
            BY <2>1, <2>3, <2>5, <3>1
        <3>2. CASE o # b
            BY <2>3, <2>5, <2>6, <3>2
        <3> QED BY <3>1, <3>2
    <2> QED BY <1>1, <1>4, <2>4, <2>6 DEF FindEntity
<1>5. ASSUME NEW b \in Browsers, DeleteEntityRequest(b) PROVE WebInv'
    <2>1. \A k, f : Authorized(k, f) => Authorized(k, f)'
        BY <1>5 DEF DeleteEntityRequest, Serve, accessVars, Authorized, Running
    <2> QED BY <1>1, <1>5, <2>1 DEF DeleteEntityRequest, Serve
<1>6. ASSUME NEW b \in Browsers, UpdateObservationRequest(b) \/ DeleteObservationRequest(b)
      PROVE  UNCHANGED <<accessVars, doomed>> /\ DOMAIN graphs' = Files
    BY <1>6 DEF UpdateObservationRequest, DeleteObservationRequest, Serve
<1>7. ASSUME NEW k \in Tokens, CallTool(k)
      PROVE  UNCHANGED <<accessVars, doomed>> /\ DOMAIN graphs' = Files
    BY <1>7 DEF CallTool, Serve
<1>8. CASE UNCHANGED webVars
    BY <1>3, <1>8 DEF webVars
<1> QED BY <1>2, <1>3, <1>4, <1>5, <1>6, <1>7, <1>8 DEF WebNext

\* The invariant holds in every reachable state.
LEMMA WebInvariant == WebSpec => []WebInv
<1>1. WebInit => WebInv
    BY AccessInitially DEF WebInit, WebInv, DoomedAuthorized
<1> QED BY <1>1, WebStep, PTL DEF WebSpec

-----------------------------------------------------------------------------
\* A session is accepted for MaxAge and no longer, but for what the clock has
\* been set back since it was issued, across edits of tokens.json and restarts.
THEOREM SessionsEnd == WebSpec => []SessionLifetime
BY WebInvariant, LifetimeFollows, PTL DEF WebInv

\* Without MEMORY_UI_SECRET a session ends with the process that issued it.
THEOREM SessionsReset == WebSpec => []ResetOnRestart
BY WebInvariant, ResetFollows, PTL DEF WebInv

\* A request changes the file that it is served and no other.
LEMMA ServedFile ==
    ASSUME NEW k, NEW f, NEW g, NEW h \in Files, Serve(k, f, g), graphs'[h] # graphs[h],
           DOMAIN graphs = Files
    PROVE  h = f /\ last' = k
BY DEF Serve

\* A step that changes a file was made for a token that may write it.
LEMMA StepAuthorized ==
    ASSUME WebInv, WebNext, NEW h \in Files, graphs'[h] # graphs[h]
    PROVE  Authorized(last', h)
<1>1. AccessTypeOK /\ DOMAIN graphs = Files
    BY DEF WebInv, AccessInv, DoomedAuthorized
<1>2. ASSUME NEW b \in Browsers, UpdateObservationRequest(b) \/ DeleteObservationRequest(b)
      PROVE  Authorized(last', h)
    <2>1. PICK g : Serve(cookie[b].token, EntryOf(b).file, g)
        BY <1>2 DEF UpdateObservationRequest, DeleteObservationRequest
    <2>2. h = EntryOf(b).file /\ last' = cookie[b].token
        BY <1>1, <2>1, ServedFile
    <2> QED BY <1>1, <1>2, <2>2, WritersAuthorized
            DEF UpdateObservationRequest, DeleteObservationRequest, MayWrite, SignedIn, EntryOf
<1>3. ASSUME NEW b \in Browsers, DeleteEntityRequest(b) PROVE Authorized(last', h)
    <2>1. h = doomed[b].file /\ last' = doomed[b].token
        BY <1>1, <1>3, ServedFile DEF DeleteEntityRequest
    <2> QED BY <1>3, <2>1 DEF WebInv, DoomedAuthorized, DeleteEntityRequest
<1>4. ASSUME NEW k \in Tokens, CallTool(k) PROVE Authorized(last', h)
    <2>1. PICK g : Serve(k, entries[k].file, g)
        BY <1>4 DEF CallTool
    <2>2. h = entries[k].file /\ last' = k
        BY <1>1, <2>1, ServedFile
    <2> QED BY <1>1, <1>4, <2>2, WritersAuthorized DEF CallTool, ToolMayWrite
<1>5. ASSUME NEW b \in Browsers PROVE ~FindEntity(b)
    BY DEF FindEntity
<1>6. ~Background
    BY DEF Background
<1> QED BY <1>2, <1>3, <1>4, <1>5, <1>6 DEF WebNext

\* Only the holder of a token that the process knows as read-write for a file
\* changes that file's graph, however a request interleaves with sign-ins,
\* other requests, edits of tokens.json and the end of the process.
THEOREM Authorization == WebSpec => WritesAreAuthorized
<1>1. WebInv /\ [WebNext]_webVars =>
        [\A f \in Files : graphs'[f] # graphs[f] =>
          /\ Running /\ last' \in DOMAIN entries
          /\ entries[last'] = [file |-> f, mode |-> "read-write"]]_webVars
    BY StepAuthorized DEF Authorized
<1> QED BY <1>1, WebInvariant, PTL DEF WebSpec, WritesAreAuthorized
=============================================================================
