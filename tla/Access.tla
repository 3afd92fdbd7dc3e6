------------------------------- MODULE Access --------------------------------
(***************************************************************************)
(* Who may do what: tokens.json, read once when the process starts         *)
(* (src/src/tokens.rs, main.rs), and the web UI's sessions, which are      *)
(* signed cookies that name a token (src/src/webui/auth.rs).  The server   *)
(* keeps no list of sessions: what it knows of one is in the cookie.       *)
(*                                                                         *)
(* The wall clock may be set; time is what has really gone by.             *)
(***************************************************************************)
EXTENDS Integers

CONSTANTS
    None,        \* nothing: no session, no value in tokens.json
    Tokens, Files, Browsers,
    Configs,     \* contents of tokens.json: functions from some tokens to
                 \* [file, mode], None for a key that is not given
    EnvSecrets,  \* values of MEMORY_UI_SECRET at a start, None if not set
    MaxAge,      \* COOKIE_MAX_AGE
    MaxStarts, MaxTime, MaxLost  \* bounds

Modes == {"read-only", "read-write"}
RawEntry == [file : Files \cup {None}, mode : Modes \cup {None, "admin"}]
Entry == [file : Files, mode : Modes \cup {None}]
TokenConfig == UNION {[S -> Entry] : S \in SUBSET Tokens}

ASSUME AccessAssumption ==
    /\ Configs \subseteq UNION {[S -> RawEntry] : S \in SUBSET Tokens}
    /\ None \notin Configs \cup Files
    /\ EnvSecrets \cap Int = {}
    /\ MaxAge \in Nat /\ MaxStarts \in Nat /\ MaxTime \in Nat /\ MaxLost \in Nat

VARIABLES
    config,   \* the file tokens.json
    entries,  \* TokenConfig of the process, as read; None if there is none
    secret,   \* WebUi.ui_secret: from the environment, or one of its own
    starts,   \* how often the process has been started
    cookie,   \* the session cookie each browser holds
    clock,    \* Utc::now
    time,     \* history: what has gone by
    lost      \* history: by how much the clock has been set back, in total

accessVars == <<config, entries, secret, starts, cookie, clock, time, lost>>

Running == entries # None

\* A cookie is signed over token and issued; born, at and lost are history:
\* the start, the time and the value of lost when it was issued.
Session == [token : Tokens, issued : Int, secret : EnvSecrets \cup Nat,
            born : Nat, at : Nat, lost : Nat]

AccessTypeOK ==
    /\ config \in Configs
    /\ entries \in TokenConfig \cup {None}
    /\ secret \in EnvSecrets \cup Nat /\ starts \in Nat
    /\ cookie \in [Browsers -> Session \cup {None}]
    /\ clock \in Int /\ time \in Nat /\ lost \in Nat

AccessInit ==
    /\ config \in Configs /\ entries = None
    /\ secret = 0 /\ starts = 0
    /\ cookie = [b \in Browsers |-> None]
    /\ clock = 0 /\ time = 0 /\ lost = 0

-----------------------------------------------------------------------------
(* The configuration and the process                                       *)

\* An operator edits tokens.json; the process does not look.
EditConfig ==
    /\ config' \in Configs
    /\ UNCHANGED <<entries, secret, starts, cookie, clock, time, lost>>

\* TokenConfig::load fails on an empty object, a mode that does not exist and
\* an entry without a file.
LoadOK(raw) ==
    /\ DOMAIN raw # {}
    /\ \A t \in DOMAIN raw :
          raw[t].mode \in Modes \cup {None} /\ raw[t].file # None

\* Mutant of SecretFor: without MEMORY_UI_SECRET there is a default.
SecretByDefault(env, n) == IF env = None THEN 0 ELSE env

\* Without MEMORY_UI_SECRET every process draws a secret of its own.
SecretFor(env, n) == IF env = None THEN n ELSE env

\* With a configuration that does not load there is no process.
Start ==
    /\ ~Running /\ LoadOK(config) /\ starts < MaxStarts
    /\ entries' = config
    /\ starts' = starts + 1
    /\ \E env \in EnvSecrets : secret' = SecretFor(env, starts')
    /\ UNCHANGED <<config, cookie, clock, time, lost>>

Stop ==
    /\ Running /\ entries' = None
    /\ UNCHANGED <<config, secret, starts, cookie, clock, time, lost>>

Tick ==
    /\ time < MaxTime
    /\ time' = time + 1 /\ clock' = clock + 1
    /\ UNCHANGED <<config, entries, secret, starts, cookie, lost>>

\* The clock is set, forward or back.
SetClock ==
    /\ clock' \in 0..MaxTime
    /\ lost' = IF clock' < clock THEN lost + (clock - clock') ELSE lost
    /\ lost' <= MaxLost
    /\ UNCHANGED <<config, entries, secret, starts, cookie, time>>

-----------------------------------------------------------------------------
(* Sessions                                                                *)

\* POST /ui/login; with a token that is not known the page comes back and the
\* browser keeps the cookie it has.
SignIn(b, t) ==
    /\ Running /\ t \in DOMAIN entries
    /\ cookie' = [cookie EXCEPT ![b] =
          [token |-> t, issued |-> clock, secret |-> secret,
           born |-> starts, at |-> time, lost |-> lost]]
    /\ UNCHANGED <<config, entries, secret, starts, clock, time, lost>>

\* POST /ui/logout, which clears the cookie whatever it is, and the browser
\* when it drops the cookie.
SignOut(b) ==
    /\ cookie' = [cookie EXCEPT ![b] = None]
    /\ UNCHANGED <<config, entries, secret, starts, clock, time, lost>>

\* Mutant of InTime: the age is compared the wrong way round.
InTimeSwapped(issued) == issued <= clock /\ issued - clock <= MaxAge

InTime(issued) == issued <= clock /\ clock - issued <= MaxAge

\* verify_session: the signature, then the age.
Accepts(c) == c # None /\ c.secret = secret /\ InTime(c.issued)

\* resolve_session: the token of an accepted cookie, looked up in the
\* configuration of the process.
SignedIn(b) == Running /\ Accepts(cookie[b]) /\ cookie[b].token \in DOMAIN entries

EntryOf(b) == entries[cookie[b].token]

\* Mutant of ReadOnly: an entry without a mode may write.
ReadOnlyIfSaid(entry) == entry.mode = "read-only"

\* An entry without a mode is read-only.
ReadOnly(entry) == entry.mode # "read-write"

AccessNext ==
    \/ EditConfig \/ Start \/ Stop \/ Tick \/ SetClock
    \/ \E b \in Browsers : SignOut(b) \/ \E t \in Tokens : SignIn(b, t)

AccessSpec == AccessInit /\ [][AccessNext]_accessVars

-----------------------------------------------------------------------------
\* COOKIE_MAX_AGE is meant as 24 hours of life: a session is accepted for no
\* longer after its sign-in than that, plus whatever the clock has been set
\* back in the meantime.  (Setting it forward only ends sessions sooner.)
SessionLifetime ==
    \A b \in Browsers : SignedIn(b) =>
        time - cookie[b].at <= MaxAge + (lost - cookie[b].lost)

\* "If unset, an ephemeral secret is generated and sessions reset on restart":
\* a session is accepted by the process that issued it and, only if both got
\* their secret from the environment, by a later one.
ResetOnRestart ==
    \A b \in Browsers : SignedIn(b) =>
        cookie[b].born = starts \/ secret \in EnvSecrets \ {None}

\* "Every request re-resolves the token so revocations take effect
\* immediately": a session whose token is not in tokens.json is refused.
RevokedAtOnce == \A b \in Browsers : SignedIn(b) => cookie[b].token \in DOMAIN config
=============================================================================
