-------------------------------- MODULE OAuth --------------------------------
(***************************************************************************)
(* The OAuth authorization server in front of an MCP endpoint: src/src/    *)
(* oauth, the loading of its `oauth:` block (scripts/get_oauth_credentials)*)
(* and the gates that call it (http_proxy_pass/handle_oauth.rs and the h1  *)
(* twin, h1_proxy_server/pipeline/oauth_gate.rs).                          *)
(*                                                                         *)
(* A request takes the live context once, then waits for its body, and     *)
(* only then is handled, whole and under the code store's lock; meanwhile  *)
(* settings loads may replace the context.  A load reads the settings, asks*)
(* whether the live context has them already, resolves the signing key,    *)
(* possibly through the key file, and installs a new context, with awaits  *)
(* in between and nothing that keeps two loads apart.                      *)
(*                                                                         *)
(* Codes and generated keys are random in the code; here they are numbered *)
(* as they are made.  A challenge is named by the verifier it was computed *)
(* from, and a signature by its key.  A resource is a host and the segments*)
(* of a path; a host is the sequence of its pieces, so that one may start  *)
(* with another.                                                           *)
(***************************************************************************)
EXTENDS Integers, FiniteSets, SequencesExt

CONSTANTS
    Requests,           \* requests on the OAuth endpoints at a time
    Loads,              \* settings loads at a time
    Blocks,             \* the `oauth:` blocks the operator may write
    Asks,               \* what clients ask /authorize for
    AllowedRedirects,   \* where is_allowed_redirect_uri lets a code go
    Places,             \* the locations a proxied request may be for
    MAX_CODES,          \* codes in a store
    AUTH_CODE_TTL_SEC, AccessTtl, RefreshTtl,   \* lives, in clock ticks
    MaxIssued,          \* bound: codes ever issued
    MaxContexts,        \* bound: contexts made by one run of the process
    MaxKeys,            \* bound: keys ever generated
    MaxTime             \* bound: the clock

Codes == 1 .. MaxIssued
Contexts == 1 .. MaxContexts
NoUrl == <<>>
NoResource == [host |-> NoUrl, path |-> <<>>]
FileKey(n) == [origin |-> "file", n |-> n]
PinnedKey(n) == [origin |-> "pinned", n |-> n]
NoKey == FileKey(0)
Keys == {FileKey(n) : n \in 0 .. MaxKeys} \cup {PinnedKey(b.pin) : b \in Blocks}
Scopes == {{"mcp"}, {"mcp", "offline_access"}}

Granted == [redirect_uri : {a.redirect_uri : a \in Asks},
            code_challenge : {a.code_challenge : a \in Asks},
            scope : Scopes, resource : {a.resource : a \in Asks}]
NoConsent == [redirect_uri |-> "none"]

ASSUME ConstantsAssumption ==
    /\ Blocks # {}
    /\ MAX_CODES \in Nat \ {0}
    /\ {AUTH_CODE_TTL_SEC, AccessTtl, RefreshTtl} \subseteq Nat \ {0}
    /\ {MaxIssued, MaxContexts, MaxKeys, MaxTime} \subseteq Nat
    /\ \A b \in Blocks : b.pin \in Nat
    /\ \A a \in Asks : a.redirect_uri # "none"

VARIABLES
    now,        \* the clock
    settings,   \* the block in the settings files
    keyFile,    \* the key in signing_key_file, NoKey: no such file
    tmp,        \* the key in its temporary file
    keys,       \* keys generated so far
    load,       \* load[l]: where get_oauth_credentials is, and what it has
    made,       \* contexts made since the process started
    context,    \* context[c]: its settings and signing key
    codes,      \* codes[c]: the codes waiting in its store
    live,       \* the context in the configuration, 0: none
    holds,      \* holds[r]: the context request r took, 0: no request
    tokens,     \* every token handed out
    issued, consent, taken, exchanged,   \* history of the codes
    raced       \* history: two loads each generated a key for the file

keyVars == <<keyFile, tmp, keys, raced>>
ctxVars == <<made, context, live>>
codeVars == <<issued, consent, taken, exchanged>>
vars == <<now, settings, keyVars, load, ctxVars, codes, holds, tokens, codeVars>>

NoBlock == CHOOSE b \in Blocks : TRUE
LoadAt(pc, block, key, saw) == [pc |-> pc, block |-> block, key |-> key, saw |-> saw]
Idle == LoadAt("idle", NoBlock, NoKey, 0)
NoCtx == [settings |-> NoBlock, key |-> NoKey]

Init ==
    /\ now = 0
    /\ settings \in Blocks
    /\ keyFile = NoKey /\ tmp = NoKey /\ keys = 0 /\ raced = FALSE
    /\ load = [l \in Loads |-> Idle]
    /\ made = 0 /\ context = [c \in Contexts |-> NoCtx] /\ live = 0
    /\ codes = [c \in Contexts |-> {}]
    /\ holds = [r \in Requests |-> 0]
    /\ tokens = {}
    /\ issued = 0 /\ consent = [k \in Codes |-> NoConsent]
    /\ taken = {} /\ exchanged = [k \in Codes |-> 0]

(***************************************************************************)
(* Loading the block: get_oauth_credentials and the signing key file.      *)
(***************************************************************************)
\* The settings are read and compiled; the answer is used awaits later.
LoadBegins(l) ==
    /\ load[l] = Idle
    /\ load' = [load EXCEPT ![l] = LoadAt("check", settings, NoKey, 0)]
    /\ UNCHANGED <<now, settings, keyVars, ctxVars, codes, holds, tokens, codeVars>>

UpToDate(block) == live # 0 /\ context[live].settings = block

\* An unchanged block keeps its context.  Otherwise resolve_signing_key: a
\* key pinned in the settings is taken as it is.
CheckUpToDate(l) ==
    /\ load[l].pc = "check"
    /\ LET pin == load[l].block.pin IN
       \/ /\ UpToDate(load[l].block)
          /\ load' = [load EXCEPT ![l] = Idle]
       \/ /\ ~UpToDate(load[l].block) /\ pin # 0
          /\ load' = [load EXCEPT ![l] = LoadAt("install", load[l].block, PinnedKey(pin), live)]
       \/ /\ ~UpToDate(load[l].block) /\ pin = 0
          /\ load' = [load EXCEPT ![l] = LoadAt("read", load[l].block, NoKey, live)]
    /\ UNCHANGED <<now, settings, keyVars, ctxVars, codes, holds, tokens, codeVars>>

\* load_or_create: the key on file, or a generated one that must be saved.
ReadKey(l) ==
    /\ load[l].pc = "read"
    /\ keyFile # NoKey
    /\ load' = [load EXCEPT ![l] = LoadAt("install", load[l].block, keyFile, load[l].saw)]
    /\ UNCHANGED <<now, settings, keyVars, ctxVars, codes, holds, tokens, codeVars>>

\* Mutant: the generated key is used without being saved.
GenerateKeyUnsaved(l) ==
    /\ load[l].pc = "read"
    /\ keyFile = NoKey
    /\ keys < MaxKeys
    /\ keys' = keys + 1
    /\ load' = [load EXCEPT ![l] = LoadAt("install", load[l].block, FileKey(keys + 1), load[l].saw)]
    /\ UNCHANGED <<now, settings, keyFile, tmp, raced, ctxVars, codes, holds, tokens, codeVars>>

GenerateKey(l) ==
    /\ load[l].pc = "read"
    /\ keyFile = NoKey
    /\ keys < MaxKeys
    /\ keys' = keys + 1
    /\ load' = [load EXCEPT ![l] = LoadAt("write", load[l].block, FileKey(keys + 1), load[l].saw)]
    /\ raced' = (raced \/ \E m \in Loads : load[m].pc \in {"write", "rename"})
    /\ UNCHANGED <<now, settings, keyFile, tmp, ctxVars, codes, holds, tokens, codeVars>>

\* save: every load writes the same temporary file and renames it.
WriteTemporary(l) ==
    /\ load[l].pc = "write"
    /\ tmp' = load[l].key
    /\ load' = [load EXCEPT ![l].pc = "rename"]
    /\ UNCHANGED <<now, settings, keyFile, keys, raced, ctxVars, codes, holds, tokens, codeVars>>

Rename(l) ==
    /\ load[l].pc = "rename"
    /\ tmp # NoKey
    /\ keyFile' = tmp
    /\ tmp' = NoKey
    /\ load' = [load EXCEPT ![l].pc = "install"]
    /\ UNCHANGED <<now, settings, keys, raced, ctxVars, codes, holds, tokens, codeVars>>

\* The file system refuses, or the temporary file has been renamed away: the
\* endpoint gets the error and the configuration keeps what it has.
LoadFails(l) ==
    /\ load[l].pc \in {"read", "write", "rename"}
    /\ load' = [load EXCEPT ![l] = Idle]
    /\ UNCHANGED <<now, settings, keyVars, ctxVars, codes, holds, tokens, codeVars>>

\* OAuthContext::new, with an empty code store, and add_or_update.
Install(l) ==
    /\ load[l].pc = "install"
    /\ made < MaxContexts
    /\ made' = made + 1
    /\ context' = [context EXCEPT ![made + 1] =
                      [settings |-> load[l].block, key |-> load[l].key]]
    /\ live' = made + 1
    /\ load' = [load EXCEPT ![l] = Idle]
    /\ UNCHANGED <<now, settings, keyVars, codes, holds, tokens, codeVars>>

(***************************************************************************)
(* Requests on the OAuth endpoints.                                        *)
(***************************************************************************)
\* The gate takes the context, or answers 503 when there is none, and waits
\* for the body.
TakeContext(r) ==
    /\ holds[r] = 0
    /\ live # 0
    /\ holds' = [holds EXCEPT ![r] = live]
    /\ UNCHANGED <<now, settings, keyVars, load, ctxVars, codes, tokens, codeVars>>

Answered(r) == holds' = [holds EXCEPT ![r] = 0]

\* The body breaks off or is too large, or the request is turned down before
\* it reaches the code store or the signer.
TurnedDown(r) ==
    /\ holds[r] # 0
    /\ Answered(r)
    /\ UNCHANGED <<now, settings, keyVars, load, ctxVars, codes, tokens, codeVars>>

\* The credentials of one edition of the block: client id and secret, and the
\* consent password.
KnowsSecrets(c, rev) == context[c].settings.rev = rev

granted_scope(requested) == {"mcp"} \cup (requested \cap {"offline_access"})

base_url(c, host) ==
    IF context[c].settings.public_url # NoUrl
    THEN context[c].settings.public_url ELSE host

Unexpired(store) == {k \in store : k.expires_at_sec > now}

\* Mutants: the store may exceed its limit by one; the newest code is dropped.
StoresOneMore(store, new) ==
    LET kept == Unexpired(store)
    IN  IF Cardinality(kept) > MAX_CODES
        THEN {(kept \ {k}) \cup {new} : k \in kept}
        ELSE {kept \cup {new}}

StoresDropNewest(store, new) ==
    LET kept == Unexpired(store)
        newest == {k \in kept : \A j \in kept : k.expires_at_sec >= j.expires_at_sec}
    IN  IF Cardinality(kept) >= MAX_CODES
        THEN {(kept \ {k}) \cup {new} : k \in newest}
        ELSE {kept \cup {new}}

\* add: expired codes go, then, in a full store, one of the oldest.
Stores(store, new) ==
    LET kept == Unexpired(store)
        oldest == {k \in kept : \A j \in kept : k.expires_at_sec <= j.expires_at_sec}
    IN  IF Cardinality(kept) >= MAX_CODES
        THEN {(kept \ {k}) \cup {new} : k \in oldest}
        ELSE {kept \cup {new}}

\* POST /authorize with the right consent password.
Authorize(r, ask, rev, host) ==
    /\ holds[r] # 0
    /\ issued < MaxIssued
    /\ KnowsSecrets(holds[r], rev)
    /\ ask.redirect_uri \in AllowedRedirects
    /\ ask.resource # NoResource => IsPrefix(base_url(holds[r], host), ask.resource.host)
    /\ LET agreed == [redirect_uri |-> ask.redirect_uri,
                      code_challenge |-> ask.code_challenge,
                      scope |-> granted_scope(ask.scope),
                      resource |-> ask.resource]
       IN  /\ consent' = [consent EXCEPT ![issued + 1] = agreed]
           /\ \E store \in Stores(codes[holds[r]],
                                  [code |-> issued + 1, granted |-> agreed,
                                   expires_at_sec |-> now + AUTH_CODE_TTL_SEC]) :
                  codes' = [codes EXCEPT ![holds[r]] = store]
    /\ issued' = issued + 1
    /\ Answered(r)
    /\ UNCHANGED <<now, settings, keyVars, load, ctxVars, tokens, taken, exchanged>>

\* mint_tokens: a refresh token only with offline_access.
Minted(c, code, scope, resource) ==
    LET token(kind, ttl) ==
            [kind |-> kind, key |-> context[c].key, scope |-> scope,
             audience |-> resource, exp |-> now + ttl, code |-> code]
    IN  {token("access", AccessTtl)} \cup
        (IF "offline_access" \in scope THEN {token("refresh", RefreshTtl)} ELSE {})

verify(c, token, kind) ==
    token.key = context[c].key /\ token.kind = kind /\ token.exp > now

\* Mutant: the code is looked up and left in the store.
TakeLeaves(store, code) == Unexpired(store)

\* take: expired codes go, and the code itself.
Take(store, code) == {k \in Unexpired(store) : k.code # code}

\* grant_type=authorization_code: the code is taken out of the store before
\* redirect_uri and verifier are compared with what was agreed.
Exchange(r, code, rev, uri, verifier) ==
    /\ holds[r] # 0
    /\ KnowsSecrets(holds[r], rev)
    /\ codes' = [codes EXCEPT ![holds[r]] = Take(@, code)]
    /\ \E k \in Unexpired(codes[holds[r]]) :
           /\ k.code = code
           /\ taken' = taken \cup {code}
           /\ \/ /\ uri = k.granted.redirect_uri
                 /\ verifier = k.granted.code_challenge
                 /\ tokens' = tokens \cup
                        Minted(holds[r], code, k.granted.scope, k.granted.resource)
                 /\ exchanged' = [exchanged EXCEPT ![code] = @ + 1]
              \/ /\ uri # k.granted.redirect_uri \/ verifier # k.granted.code_challenge
                 /\ UNCHANGED <<tokens, exchanged>>
    /\ Answered(r)
    /\ UNCHANGED <<now, settings, keyVars, load, ctxVars, issued, consent>>

\* An unknown, used or expired code: only the expired ones leave the store.
ExchangeUnknown(r, code, rev) ==
    /\ holds[r] # 0
    /\ KnowsSecrets(holds[r], rev)
    /\ \A k \in Unexpired(codes[holds[r]]) : k.code # code
    /\ codes' = [codes EXCEPT ![holds[r]] = Take(@, code)]
    /\ Answered(r)
    /\ UNCHANGED <<now, settings, keyVars, load, ctxVars, tokens, codeVars>>

\* Mutant: the audience is the request's, which need not name one.
RefreshFromRequest(r, token, rev) ==
    /\ holds[r] # 0
    /\ KnowsSecrets(holds[r], rev)
    /\ verify(holds[r], token, "refresh")
    /\ tokens' = tokens \cup Minted(holds[r], token.code, token.scope, NoResource)
    /\ Answered(r)
    /\ UNCHANGED <<now, settings, keyVars, load, ctxVars, codes, codeVars>>

\* grant_type=refresh_token: scope and audience are the refresh token's, which
\* stays valid.
Refresh(r, token, rev) ==
    /\ holds[r] # 0
    /\ KnowsSecrets(holds[r], rev)
    /\ verify(holds[r], token, "refresh")
    /\ tokens' = tokens \cup Minted(holds[r], token.code, token.scope, token.audience)
    /\ Answered(r)
    /\ UNCHANGED <<now, settings, keyVars, load, ctxVars, codes, codeVars>>

(***************************************************************************)
(* The gate in front of a proxied request.  It takes the live context and  *)
(* decides without an await, and changes nothing.                          *)
(***************************************************************************)
\* Mutant: a host that starts with the base is taken for the base.
audience_allows_prefix(audience, base, path) ==
    IsPrefix(base, audience.host) /\ IsPrefix(audience.path, path)

audience_allows(audience, base, path) ==
    audience.host = base /\ IsPrefix(audience.path, path)

check_bearer(token, place) ==
    /\ live # 0
    /\ verify(live, token, "access")
    /\ token.audience # NoResource =>
           audience_allows(token.audience, base_url(live, place.host), place.path)

(***************************************************************************)
(* What happens around it.                                                 *)
(***************************************************************************)
Edit(block) ==
    /\ settings' = block
    /\ UNCHANGED <<now, keyVars, load, ctxVars, codes, holds, tokens, codeVars>>

Tick ==
    /\ now < MaxTime
    /\ now' = now + 1
    /\ UNCHANGED <<settings, keyVars, load, ctxVars, codes, holds, tokens, codeVars>>

\* The process ends, at any point, and starts again: the files remain.
Restart ==
    /\ load' = [l \in Loads |-> Idle]
    /\ made' = 0 /\ context' = [c \in Contexts |-> NoCtx] /\ live' = 0
    /\ codes' = [c \in Contexts |-> {}]
    /\ holds' = [r \in Requests |-> 0]
    /\ UNCHANGED <<now, settings, keyVars, tokens, codeVars>>

LoadStep(l) ==
    LoadBegins(l) \/ CheckUpToDate(l) \/ ReadKey(l) \/ GenerateKey(l) \/ WriteTemporary(l)
        \/ Rename(l) \/ LoadFails(l) \/ Install(l)

RequestStep(r) ==
    \/ TakeContext(r) \/ TurnedDown(r)
    \/ \E b \in Blocks :
        \/ \E a \in Asks, p \in Places : Authorize(r, a, b.rev, p.host)
        \/ \E k \in 1 .. issued :
              \/ \E a, d \in Asks : Exchange(r, k, b.rev, a.redirect_uri, d.code_challenge)
              \/ ExchangeUnknown(r, k, b.rev)
        \/ \E t \in tokens : Refresh(r, t, b.rev)

Next ==
    \/ \E l \in Loads : LoadStep(l)
    \/ \E r \in Requests : RequestStep(r)
    \/ \E b \in Blocks \ {settings} : Edit(b)
    \/ Tick
    \/ Restart

Spec == Init /\ [][Next]_vars

(***************************************************************************)
(* Properties.                                                             *)
(***************************************************************************)
Stages == {"idle", "check", "read", "write", "rename", "install"}
CodeEntries == [code : Codes, granted : Granted, expires_at_sec : Nat]
Tokens == [kind : {"access", "refresh"}, key : Keys, scope : Scopes,
           audience : {a.resource : a \in Asks}, exp : Nat, code : Codes]

\* The variables hold what the program can hold, and no code store of
\* AuthCodes grows past MAX_CODES.
TypeOK ==
    /\ now \in Nat
    /\ settings \in Blocks
    /\ keyFile \in Keys /\ tmp \in Keys /\ keys \in 0 .. MaxKeys /\ raced \in BOOLEAN
    /\ load \in [Loads -> [pc : Stages, block : Blocks, key : Keys, saw : 0 .. MaxContexts]]
    /\ made \in 0 .. MaxContexts /\ live \in 0 .. made
    /\ context \in [Contexts -> [settings : Blocks, key : Keys]]
    /\ codes \in [Contexts -> SUBSET CodeEntries]
    /\ \A c \in Contexts : Cardinality(codes[c]) <= MAX_CODES
    /\ holds \in [Requests -> 0 .. made]
    /\ tokens \subseteq Tokens
    /\ issued \in 0 .. MaxIssued
    /\ consent \in [Codes -> Granted \cup {NoConsent}]
    /\ taken \subseteq Codes
    /\ exchanged \in [Codes -> Nat]

\* A code buys tokens at most once, and none after an exchange that failed:
\* not over two requests at a time, not over a context a request still holds
\* after a reload, and not over a restart (exchange_authorization_code takes
\* the code before it looks at the rest).
CodeUsedOnce ==
    /\ \A k \in Codes : exchanged[k] <= 1
    /\ \A c \in Contexts : \A e \in codes[c] : e.code \notin taken

\* Every token, however many refreshes, reloads and restarts after the
\* exchange, carries the scope and the audience of the consent its code stands
\* for, and a refresh token exists only where offline_access was agreed to
\* (refresh carries both over instead of reading the request).
TokensTraceToConsent ==
    \A t \in tokens :
        LET agreed == consent[t.code] IN
        /\ agreed # NoConsent
        /\ t.scope = agreed.scope
        /\ t.audience = agreed.resource
        /\ t.kind = "refresh" => "offline_access" \in agreed.scope

\* The bearer gate opens only to an access token that has not expired, bought
\* with a code, and only at or below the path of the resource the user agreed
\* to, on its host or under the configured public_url (check_bearer and what
\* minted the token before).
GateHonoursConsent ==
    \A t \in tokens, p \in Places :
        check_bearer(t, p) =>
            LET agreed == consent[t.code].resource IN
            /\ t.kind = "access" /\ t.exp > now
            /\ exchanged[t.code] = 1
            /\ \/ agreed = NoResource
               \/ /\ IsPrefix(agreed.path, p.path)
                  /\ agreed.host \in {p.host, context[live].settings.public_url}

\* The key that signs is the key on file, so that tokens outlive a restart:
\* "a token minted before a restart still works after one"
\* (docs/mcp-oauth.md), at every point a crash may hit the saving of the key.
TokensSurviveRestart ==
    \A t \in tokens : t.key.origin = "file" => t.key = keyFile

\* The same, unless two loads found no file at the same time and generated a
\* key each (load_or_create has no lock over read, write and rename).
TokensSurviveUnlessRaced == raced \/ TokensSurviveRestart

\* A code leaves its store only by being redeemed, by expiring, or, in a full
\* store, as one that no remaining code is older than (add and take of
\* AuthCodesInner); a restart empties them all.
CodesWait ==
    [][made' # 0 =>
        \A c \in Contexts : \A e \in codes[c] \ codes'[c] :
            \/ e.expires_at_sec <= now
            \/ e.code \in taken' \ taken
            \/ /\ Cardinality(Unexpired(codes[c])) = MAX_CODES
               /\ \A f \in codes'[c] : e.expires_at_sec <= f.expires_at_sec]_vars

\* "An unchanged block keeps the context it already has, along with the
\* authorization codes waiting in it" (get_oauth_credentials): a context gives
\* way only to other settings, or to a load that asked before another one
\* installed.
UnchangedKeepsContext ==
    [][live # 0 /\ live' \notin {0, live} =>
        \/ context'[live'].settings # context[live].settings
        \/ \E l \in Loads : load[l].pc = "install" /\ load'[l].pc = "idle"
                             /\ load[l].saw # live]_vars

\* A code a client was given can be redeemed until it expires: a reload that
\* changes nothing does not take it away, and later codes only when it is the
\* oldest of a full store (get_oauth_credentials, add).
CodesKept == CodesWait /\ UnchangedKeepsContext
=============================================================================
