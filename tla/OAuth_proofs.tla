---------------------------- MODULE OAuth_proofs ----------------------------
(***************************************************************************)
(* OAuth for every number of requests and loads, every set of settings     *)
(* blocks and of things to ask for, and every bound.                       *)
(***************************************************************************)
EXTENDS OAuth, FiniteSetTheorems, TLAPS

\* Types of what the loads, the files and the configuration hold.
TypeLoads ==
    /\ now \in Nat
    /\ settings \in Blocks
    /\ keyFile \in Keys /\ tmp \in Keys /\ keys \in 0 .. MaxKeys /\ raced \in BOOLEAN
    /\ load \in [Loads -> [pc : Stages, block : Blocks, key : Keys, saw : 0 .. MaxContexts]]
    /\ made \in 0 .. MaxContexts /\ live \in 0 .. made
    /\ context \in [Contexts -> [settings : Blocks, key : Keys]]
    /\ holds \in [Requests -> 0 .. made]

\* Types of the codes and tokens.
TypeCodes ==
    /\ codes \in [Contexts -> SUBSET CodeEntries]
    /\ tokens \subseteq Tokens
    /\ issued \in 0 .. MaxIssued
    /\ consent \in [Codes -> Granted \cup {NoConsent}]
    /\ taken \subseteq Codes
    /\ exchanged \in [Codes -> Nat]

\* Every store is finite and within its limit.
Bounded ==
    \A c \in Contexts : IsFiniteSet(codes[c]) /\ Cardinality(codes[c]) <= MAX_CODES

\* A context, and a load that is about to make one, has a key; a key that came
\* from the file is the one on file; while a generated key is being saved there
\* is none, and only one load does so, through the temporary file.
LoadKeys ==
    /\ \A l \in Loads : load[l].pc \in {"write", "rename", "install"} => load[l].key # NoKey
    /\ \A c \in 1 .. made : context[c].key # NoKey
    /\ ~raced =>
        /\ \A c \in 1 .. made : context[c].key.origin = "file" => context[c].key = keyFile
        /\ \A l \in Loads :
              /\ load[l].pc = "install" /\ load[l].key.origin = "file" => load[l].key = keyFile
              /\ load[l].pc \in {"write", "rename"} => keyFile = NoKey
              /\ load[l].pc = "rename" => tmp = load[l].key
        /\ \A l, m \in Loads :
              load[l].pc \in {"write", "rename"} /\ load[m].pc \in {"write", "rename"} => l = m

\* Likewise what was signed.
TokenKeys ==
    \A t \in tokens :
        t.key # NoKey /\ (~raced /\ t.key.origin = "file" => t.key = keyFile)

\* Where a code may be, and what is known of it there: in one store, not yet
\* taken, with what was agreed; taken before it was exchanged.
CodeInv ==
    /\ \A c \in Contexts : \A e \in codes[c] :
          e.code \in 1 .. issued /\ e.code \notin taken /\ e.granted = consent[e.code]
    /\ \A c, d \in Contexts : \A e \in codes[c], f \in codes[d] : e.code = f.code => c = d
    /\ taken \subseteq 1 .. issued
    /\ \A k \in Codes : exchanged[k] <= 1 /\ (exchanged[k] # 0 => k \in taken)
    /\ \A k \in 1 .. issued : consent[k] \in Granted

\* No code outlives one that is issued now.
AgeInv ==
    \A c \in Contexts : \A e \in codes[c] : e.expires_at_sec <= now + AUTH_CODE_TTL_SEC

\* A token comes from an exchanged code and says what was agreed.
TokenInv ==
    \A t \in tokens :
        /\ t.code \in 1 .. issued
        /\ exchanged[t.code] = 1
        /\ t.scope = consent[t.code].scope
        /\ t.audience = consent[t.code].resource
        /\ t.kind = "refresh" => "offline_access" \in t.scope

\* A load that goes on to install has asked, and unless another has installed
\* since, its settings are not those of the live context.
SawInv ==
    \A l \in Loads : load[l].pc \in {"read", "write", "rename", "install"} =>
        /\ load[l].saw <= made
        /\ load[l].saw = live /\ live # 0 => load[l].block # context[live].settings

IInv ==
    /\ TypeLoads /\ TypeCodes /\ Bounded
    /\ LoadKeys /\ TokenKeys /\ SawInv
    /\ CodeInv /\ AgeInv /\ TokenInv

\* The steps, one disjunct each.
LEMMA Steps ==
    ASSUME Next
    PROVE  \/ \E l \in Loads : LoadBegins(l)
           \/ \E l \in Loads : CheckUpToDate(l)
           \/ \E l \in Loads : ReadKey(l)
           \/ \E l \in Loads : GenerateKey(l)
           \/ \E l \in Loads : WriteTemporary(l)
           \/ \E l \in Loads : Rename(l)
           \/ \E l \in Loads : LoadFails(l)
           \/ \E l \in Loads : Install(l)
           \/ \E r \in Requests : TakeContext(r)
           \/ \E r \in Requests : TurnedDown(r)
           \/ \E r \in Requests, b \in Blocks, a \in Asks, p \in Places : Authorize(r, a, b.rev, p.host)
           \/ \E r \in Requests, b \in Blocks, a, d \in Asks, k \in 1 .. issued :
                 Exchange(r, k, b.rev, a.redirect_uri, d.code_challenge)
           \/ \E r \in Requests, b \in Blocks, k \in 1 .. issued : ExchangeUnknown(r, k, b.rev)
           \/ \E r \in Requests, b \in Blocks, t \in tokens : Refresh(r, t, b.rev)
           \/ \E b \in Blocks : Edit(b)
           \/ Tick
           \/ Restart
BY DEF Next, LoadStep, RequestStep

\* The parts of ConstantsAssumption the proofs use.
LEMMA BoundsAreNat ==
    /\ MAX_CODES \in Nat \ {0} /\ AUTH_CODE_TTL_SEC \in Nat /\ AccessTtl \in Nat /\ RefreshTtl \in Nat
    /\ MaxIssued \in Nat /\ MaxContexts \in Nat /\ MaxKeys \in Nat
    /\ \A b \in Blocks : b.pin \in Nat
BY ConstantsAssumption

\* The special values have their types, and a made key is never NoKey.
LEMMA Values ==
    /\ NoBlock \in Blocks
    /\ NoKey \in Keys
    /\ \A n \in 0 .. MaxKeys : FileKey(n) \in Keys
    /\ \A b \in Blocks : PinnedKey(b.pin) \in Keys
    /\ \A n \in Nat : FileKey(n).origin = "file" /\ (n # 0 => FileKey(n) # NoKey)
    /\ \A n \in Nat : PinnedKey(n).origin = "pinned" /\ PinnedKey(n) # NoKey
<1>1. NoBlock \in Blocks
  BY ConstantsAssumption DEF NoBlock
<1>2. NoKey \in Keys /\ (\A n \in 0 .. MaxKeys : FileKey(n) \in Keys)
  BY BoundsAreNat DEF NoKey, Keys
<1>3. \A b \in Blocks : PinnedKey(b.pin) \in Keys
  BY DEF Keys
<1>4. \A n \in Nat : /\ FileKey(n).origin = "file" /\ (n # 0 => FileKey(n) # NoKey)
                     /\ PinnedKey(n).origin = "pinned" /\ PinnedKey(n) # NoKey
  BY DEF FileKey, PinnedKey, NoKey
<1> QED
  BY <1>1, <1>2, <1>3, <1>4

\* A load at rest is well-typed.
LEMMA IdleType == Idle \in [pc : Stages, block : Blocks, key : Keys, saw : 0 .. MaxContexts]
BY Values, BoundsAreNat DEF Idle, LoadAt, Stages

\* One step per action: what loads, files and configuration hold stays typed.
LEMMA TypeLoadsStep == TypeLoads /\ Next => TypeLoads'
<1> SUFFICES ASSUME TypeLoads, Next PROVE TypeLoads'
  OBVIOUS
<1> USE BoundsAreNat, IdleType, Values DEF LoadAt, keyVars, ctxVars, codeVars
<1>1. CASE \E l \in Loads : LoadBegins(l)
  BY <1>1 DEF LoadBegins, TypeLoads, Stages
<1>2. CASE \E l \in Loads : CheckUpToDate(l)
  <2>1. PICK l \in Loads : CheckUpToDate(l)
    BY <1>2
  <2>2. live \in 0 .. MaxContexts /\ load[l].block \in Blocks
    BY DEF TypeLoads
  <2>3. load' \in [Loads -> [pc : Stages, block : Blocks, key : Keys, saw : 0 .. MaxContexts]]
    BY <2>1, <2>2 DEF CheckUpToDate, TypeLoads, Stages
  <2> QED
    BY <2>1, <2>3 DEF CheckUpToDate, TypeLoads
<1>3. CASE \E l \in Loads : ReadKey(l)
  BY <1>3 DEF ReadKey, TypeLoads, Stages
<1>4. CASE \E l \in Loads : GenerateKey(l)
  <2>1. PICK l \in Loads : GenerateKey(l)
    BY <1>4
  <2>2. keys + 1 \in 0 .. MaxKeys /\ raced' \in BOOLEAN
    BY <2>1 DEF GenerateKey, TypeLoads
  <2>3. load' \in [Loads -> [pc : Stages, block : Blocks, key : Keys, saw : 0 .. MaxContexts]]
    BY <2>1, <2>2 DEF GenerateKey, TypeLoads, Stages
  <2> QED
    BY <2>1, <2>2, <2>3 DEF GenerateKey, TypeLoads
<1>5. CASE \E l \in Loads : WriteTemporary(l)
  BY <1>5 DEF WriteTemporary, TypeLoads, Stages
<1>6. CASE \E l \in Loads : Rename(l)
  BY <1>6 DEF Rename, TypeLoads, Stages
<1>7. CASE \E l \in Loads : LoadFails(l)
  BY <1>7 DEF LoadFails, TypeLoads
<1>8. CASE \E l \in Loads : Install(l)
  <2>1. PICK l \in Loads : Install(l)
    BY <1>8
  <2>2. made + 1 \in 0 .. MaxContexts /\ load[l].block \in Blocks /\ load[l].key \in Keys
    BY <2>1 DEF Install, TypeLoads
  <2>3. context' \in [Contexts -> [settings : Blocks, key : Keys]]
    BY <2>1, <2>2 DEF Install, TypeLoads, Contexts
  <2>4. load' \in [Loads -> [pc : Stages, block : Blocks, key : Keys, saw : 0 .. MaxContexts]]
    BY <2>1 DEF Install, TypeLoads
  <2> QED
    BY <2>1, <2>2, <2>3, <2>4 DEF Install, TypeLoads
<1>9. CASE \E r \in Requests : TakeContext(r)
  BY <1>9 DEF TakeContext, TypeLoads
<1>10. CASE \E r \in Requests : TurnedDown(r)
  BY <1>10 DEF TurnedDown, Answered, TypeLoads
<1>11. CASE \E r \in Requests, b \in Blocks, a \in Asks, p \in Places : Authorize(r, a, b.rev, p.host)
  BY <1>11 DEF Authorize, Answered, TypeLoads
<1>12. CASE \E r \in Requests, b \in Blocks, a, d \in Asks, k \in 1 .. issued :
              Exchange(r, k, b.rev, a.redirect_uri, d.code_challenge)
  BY <1>12 DEF Exchange, Answered, TypeLoads
<1>13. CASE \E r \in Requests, b \in Blocks, k \in 1 .. issued : ExchangeUnknown(r, k, b.rev)
  BY <1>13 DEF ExchangeUnknown, Answered, TypeLoads
<1>14. CASE \E r \in Requests, b \in Blocks, t \in tokens : Refresh(r, t, b.rev)
  BY <1>14 DEF Refresh, Answered, TypeLoads
<1>15. CASE \E b \in Blocks : Edit(b)
  BY <1>15 DEF Edit, TypeLoads
<1>16. CASE Tick
  BY <1>16 DEF Tick, TypeLoads
<1>17. CASE Restart
  BY <1>17 DEF Restart, TypeLoads, NoCtx
<1> QED
  BY <1>1, <1>2, <1>3, <1>4, <1>5, <1>6, <1>7, <1>8, <1>9, <1>10, <1>11, <1>12, <1>13, <1>14,
     <1>15, <1>16, <1>17, Steps

\* What a step does to codes and tokens: nothing, or one of these.
LEMMA CodeSteps ==
    ASSUME TypeLoads, Next
    PROVE  \/ UNCHANGED <<codes, tokens, codeVars>>
           \/ \E r \in Requests, b \in Blocks, a \in Asks, p \in Places : Authorize(r, a, b.rev, p.host)
           \/ \E r \in Requests, b \in Blocks, a, d \in Asks, k \in 1 .. issued :
                 Exchange(r, k, b.rev, a.redirect_uri, d.code_challenge)
           \/ \E r \in Requests, b \in Blocks, k \in 1 .. issued : ExchangeUnknown(r, k, b.rev)
           \/ \E r \in Requests, b \in Blocks, t \in tokens : Refresh(r, t, b.rev)
           \/ Restart
BY Steps DEF LoadBegins, CheckUpToDate, ReadKey, GenerateKey, WriteTemporary, Rename, LoadFails,
   Install, TakeContext, TurnedDown, Edit, Tick, codeVars

\* granted_scope narrows whatever was requested to one of two scopes.
LEMMA ScopeGranted == \A requested : granted_scope(requested) \in Scopes
<1> TAKE requested
<1>1. CASE "offline_access" \in requested
  <2>1. granted_scope(requested) = {"mcp", "offline_access"}
    BY <1>1 DEF granted_scope
  <2> QED
    BY <2>1 DEF Scopes
<1>2. CASE "offline_access" \notin requested
  <2>1. granted_scope(requested) = {"mcp"}
    BY <1>2 DEF granted_scope
  <2> QED
    BY <2>1 DEF Scopes
<1> QED
  BY <1>1, <1>2

\* Whatever add leaves in a store was there, unexpired, or is the new code.
LEMMA StoresContent ==
    ASSUME NEW store, NEW new, NEW kept \in Stores(store, new)
    PROVE  kept \subseteq Unexpired(store) \cup {new}
BY DEF Stores

\* remove_expired only removes.
LEMMA UnexpiredContent ==
    ASSUME NEW store PROVE Unexpired(store) \subseteq store
BY DEF Unexpired

\* The limit of a store, over add.
LEMMA StoresBounded ==
    ASSUME NEW store, IsFiniteSet(store), Cardinality(store) <= MAX_CODES,
           NEW new, NEW kept \in Stores(store, new)
    PROVE  IsFiniteSet(kept) /\ Cardinality(kept) <= MAX_CODES
<1> DEFINE U == Unexpired(store)
<1>1. IsFiniteSet(U) /\ Cardinality(U) \in Nat /\ Cardinality(U) <= MAX_CODES
  <2>1. U \in SUBSET store
    BY UnexpiredContent
  <2>2. IsFiniteSet(U) /\ Cardinality(U) <= Cardinality(store)
    BY <2>1, FS_Subset
  <2>3. Cardinality(U) \in Nat /\ Cardinality(store) \in Nat
    BY <2>2, FS_CardinalityType
  <2> QED
    BY <2>2, <2>3, BoundsAreNat
<1>2. CASE Cardinality(U) >= MAX_CODES
  <2>1. PICK k \in U : kept = (U \ {k}) \cup {new}
    BY <1>2 DEF Stores
  <2>2. IsFiniteSet(U \ {k}) /\ Cardinality(U \ {k}) = Cardinality(U) - 1
    BY <1>1, <2>1, FS_RemoveElement
  <2>3. /\ IsFiniteSet((U \ {k}) \cup {new})
        /\ Cardinality((U \ {k}) \cup {new}) \in 0 .. Cardinality(U \ {k}) + 1
    <3>1. /\ IsFiniteSet((U \ {k}) \cup {new})
          /\ Cardinality((U \ {k}) \cup {new}) =
                IF new \in U \ {k} THEN Cardinality(U \ {k}) ELSE Cardinality(U \ {k}) + 1
      BY <2>2, FS_AddElement
    <3>2. Cardinality(U \ {k}) \in Nat
      BY <2>2, FS_CardinalityType
    <3> QED
      BY <3>1, <3>2
  <2> QED
    BY <1>1, <2>1, <2>2, <2>3, BoundsAreNat
<1>3. CASE ~(Cardinality(U) >= MAX_CODES)
  <2>1. kept = U \cup {new}
    BY <1>3 DEF Stores
  <2>2. /\ IsFiniteSet(U \cup {new})
        /\ Cardinality(U \cup {new}) = IF new \in U THEN Cardinality(U) ELSE Cardinality(U) + 1
    BY <1>1, FS_AddElement
  <2> QED
    BY <1>1, <1>3, <2>1, <2>2, BoundsAreNat
<1> QED
  BY <1>2, <1>3

\* No step grows a store past its limit.
LEMMA BoundedStep == TypeLoads /\ TypeCodes /\ Bounded /\ Next => Bounded'
<1> SUFFICES ASSUME TypeLoads, TypeCodes, Bounded, Next, NEW c \in Contexts
             PROVE  IsFiniteSet(codes'[c]) /\ Cardinality(codes'[c]) <= MAX_CODES
  BY DEF Bounded
<1>0. IsFiniteSet(codes[c]) /\ Cardinality(codes[c]) <= MAX_CODES /\ DOMAIN codes = Contexts
  BY DEF Bounded, TypeCodes
<1>1. CASE UNCHANGED <<codes, tokens, codeVars>>
  BY <1>0, <1>1
<1>2. CASE \E r \in Requests, b \in Blocks, a \in Asks, p \in Places : Authorize(r, a, b.rev, p.host)
  <2>1. PICK r \in Requests : \E new : \E store \in Stores(codes[holds[r]], new) :
                                 codes' = [codes EXCEPT ![holds[r]] = store]
    BY <1>2 DEF Authorize
  <2>2. PICK new : \E store \in Stores(codes[holds[r]], new) :
                      codes' = [codes EXCEPT ![holds[r]] = store]
    BY <2>1
  <2>5. PICK store \in Stores(codes[holds[r]], new) : codes' = [codes EXCEPT ![holds[r]] = store]
    BY <2>2
  <2>3. CASE c = holds[r]
    <3>1. codes'[c] = store /\ store \in Stores(codes[c], new)
      BY <2>5, <2>3, <1>0
    <3> QED
      BY <3>1, <1>0, StoresBounded
  <2>4. CASE c # holds[r]
    BY <2>5, <2>4, <1>0
  <2> QED
    BY <2>3, <2>4
<1>3. CASE \E r \in Requests, k \in 1 .. issued : codes' = [codes EXCEPT ![holds[r]] = Take(@, k)]
  <2>1. codes'[c] \in SUBSET codes[c]
    BY <1>3, <1>0 DEF Take, Unexpired
  <2>2. IsFiniteSet(codes'[c]) /\ Cardinality(codes'[c]) <= Cardinality(codes[c])
    BY <2>1, <1>0, FS_Subset
  <2>3. Cardinality(codes'[c]) \in Nat /\ Cardinality(codes[c]) \in Nat
    BY <2>2, <1>0, FS_CardinalityType
  <2> QED
    BY <2>2, <2>3, <1>0, BoundsAreNat
<1>4. CASE \E r \in Requests, b \in Blocks, t \in tokens : Refresh(r, t, b.rev)
  BY <1>0, <1>4 DEF Refresh
<1>5. CASE Restart
  <2>1. codes'[c] = {}
    BY <1>5 DEF Restart
  <2> QED
    BY <2>1, FS_EmptySet, BoundsAreNat
<1> QED
  BY <1>1, <1>2, <1>3, <1>4, <1>5, CodeSteps DEF Exchange, ExchangeUnknown

\* The tokens of one call of mint_tokens.
LEMMA MintedContent ==
    ASSUME TypeLoads, NEW c \in Contexts, NEW code \in Codes, NEW scope \in Scopes,
           NEW resource \in {a.resource : a \in Asks}, NEW t \in Minted(c, code, scope, resource)
    PROVE  /\ t \in Tokens
           /\ t.code = code /\ t.scope = scope /\ t.audience = resource
           /\ t.key = context[c].key
           /\ t.kind = "refresh" => "offline_access" \in scope
<1> DEFINE token(kind, ttl) ==
            [kind |-> kind, key |-> context[c].key, scope |-> scope,
             audience |-> resource, exp |-> now + ttl, code |-> code]
<1>1. context[c].key \in Keys /\ now \in Nat
  BY DEF TypeLoads
<1>2. \/ t = token("access", AccessTtl)
      \/ t = token("refresh", RefreshTtl) /\ "offline_access" \in scope
  BY DEF Minted
<1>3. now + AccessTtl \in Nat /\ now + RefreshTtl \in Nat
  BY <1>1, BoundsAreNat
<1>4. CASE t = token("access", AccessTtl)
  BY <1>1, <1>3, <1>4 DEF Tokens
<1>5. CASE t = token("refresh", RefreshTtl) /\ "offline_access" \in scope
  BY <1>1, <1>3, <1>5 DEF Tokens
<1> QED
  BY <1>2, <1>4, <1>5

\* An exchange that finds its code: what it finds, takes and mints.
LEMMA ExchangeFinds ==
    ASSUME TypeLoads, TypeCodes, NEW r \in Requests, NEW k \in 1 .. issued, NEW rev, NEW uri, NEW verifier,
           Exchange(r, k, rev, uri, verifier)
    PROVE  /\ holds[r] \in Contexts /\ holds[r] <= made /\ k \in Codes
           /\ codes' = [codes EXCEPT ![holds[r]] = Take(@, k)]
           /\ taken' = taken \cup {k}
           /\ UNCHANGED <<issued, consent>>
           /\ \E e \in codes[holds[r]] :
                 /\ e.code = k
                 /\ \/ UNCHANGED <<tokens, exchanged>>
                    \/ /\ exchanged' = [exchanged EXCEPT ![k] = @ + 1]
                       /\ tokens' = tokens \cup
                             Minted(holds[r], k, e.granted.scope, e.granted.resource)
<1>1. holds[r] \in Contexts /\ holds[r] <= made
  BY BoundsAreNat DEF Exchange, TypeLoads, Contexts
<1>2. k \in Codes
  BY BoundsAreNat DEF TypeCodes, Codes
<1> QED
  BY <1>1, <1>2, UnexpiredContent DEF Exchange

\* What a store holds, unpacked.
LEMMA EntryType ==
    ASSUME TypeCodes, NEW c \in Contexts, NEW e \in codes[c]
    PROVE  /\ e.code \in Codes /\ e.granted \in Granted
           /\ e.granted.scope \in Scopes /\ e.granted.resource \in {a.resource : a \in Asks}
<1>1. e \in CodeEntries
  BY DEF TypeCodes
<1>2. e.code \in Codes /\ e.granted \in Granted
  BY <1>1 DEF CodeEntries
<1> QED
  BY <1>2 DEF Granted

\* Authorize, in terms of what is issued.
LEMMA AuthorizeIssues ==
    ASSUME TypeLoads, TypeCodes, NEW r \in Requests, NEW a \in Asks, NEW rev, NEW host,
           Authorize(r, a, rev, host)
    PROVE  /\ issued + 1 \in Codes /\ issued' = issued + 1
           /\ UNCHANGED <<now, tokens, taken, exchanged>>
           /\ holds[r] \in Contexts
           /\ \E agreed \in Granted, new \in CodeEntries :
                 /\ new.code = issued + 1 /\ new.granted = agreed
                 /\ new.expires_at_sec = now + AUTH_CODE_TTL_SEC
                 /\ consent' = [consent EXCEPT ![issued + 1] = agreed]
                 /\ \E store \in Stores(codes[holds[r]], new) :
                       codes' = [codes EXCEPT ![holds[r]] = store]
<1> DEFINE agreed == [redirect_uri |-> a.redirect_uri, code_challenge |-> a.code_challenge,
                      scope |-> granted_scope(a.scope), resource |-> a.resource]
           new == [code |-> issued + 1, granted |-> agreed, expires_at_sec |-> now + AUTH_CODE_TTL_SEC]
<1>1. issued + 1 \in Codes
  BY BoundsAreNat DEF Authorize, TypeCodes, Codes
<1>2. agreed \in Granted
  BY ScopeGranted DEF Granted
<1>3. now + AUTH_CODE_TTL_SEC \in Nat
  BY BoundsAreNat DEF TypeLoads
<1>4. /\ new \in CodeEntries /\ new.code = issued + 1 /\ new.granted = agreed
      /\ new.expires_at_sec = now + AUTH_CODE_TTL_SEC
  BY <1>1, <1>2, <1>3 DEF CodeEntries
<1>5. holds[r] \in Contexts
  BY BoundsAreNat DEF Authorize, TypeLoads, Contexts
<1>6. /\ consent' = [consent EXCEPT ![issued + 1] = agreed]
      /\ \E store \in Stores(codes[holds[r]], new) : codes' = [codes EXCEPT ![holds[r]] = store]
      /\ issued' = issued + 1
      /\ UNCHANGED <<now, tokens, taken, exchanged>>
  BY DEF Authorize
<1> HIDE DEF agreed, new
<1> QED
  BY <1>1, <1>2, <1>4, <1>5, <1>6

\* One step per action: codes and tokens stay typed.
LEMMA TypeCodesStep == TypeLoads /\ TypeCodes /\ TokenInv /\ Next => TypeCodes'
<1> SUFFICES ASSUME TypeLoads, TypeCodes, TokenInv, Next PROVE TypeCodes'
  OBVIOUS
<1>1. CASE UNCHANGED <<codes, tokens, codeVars>>
  BY <1>1 DEF TypeCodes, codeVars
<1>2. CASE \E r \in Requests, b \in Blocks, a \in Asks, p \in Places : Authorize(r, a, b.rev, p.host)
  <2>1. PICK r \in Requests, b \in Blocks, a \in Asks, p \in Places : Authorize(r, a, b.rev, p.host)
    BY <1>2
  <2>2. PICK agreed \in Granted, new \in CodeEntries :
               /\ consent' = [consent EXCEPT ![issued + 1] = agreed]
               /\ \E store \in Stores(codes[holds[r]], new) :
                     codes' = [codes EXCEPT ![holds[r]] = store]
    BY <2>1, AuthorizeIssues
  <2>3. PICK store \in Stores(codes[holds[r]], new) : codes' = [codes EXCEPT ![holds[r]] = store]
    BY <2>2
  <2>4. store \subseteq CodeEntries
    <3>1. holds[r] \in Contexts
      BY <2>1, AuthorizeIssues
    <3>2. Unexpired(codes[holds[r]]) \subseteq CodeEntries
      BY <3>1, UnexpiredContent DEF TypeCodes
    <3> QED
      BY <3>2, StoresContent
  <2>5. /\ issued + 1 \in Codes /\ issued' = issued + 1
        /\ UNCHANGED <<tokens, taken, exchanged>>
    BY <2>1, AuthorizeIssues
  <2>6. codes' \in [Contexts -> SUBSET CodeEntries]
    BY <2>3, <2>4 DEF TypeCodes
  <2>7. consent' \in [Codes -> Granted \cup {NoConsent}]
    BY <2>2 DEF TypeCodes
  <2>8. issued' \in 0 .. MaxIssued
    BY <2>5 DEF TypeCodes, Codes
  <2> QED
    BY <2>5, <2>6, <2>7, <2>8 DEF TypeCodes
<1>3. CASE \E r \in Requests, b \in Blocks, a, d \in Asks, k \in 1 .. issued :
              Exchange(r, k, b.rev, a.redirect_uri, d.code_challenge)
  <2>1. PICK r \in Requests, b \in Blocks, k \in 1 .. issued, c1, c2 \in Asks :
             Exchange(r, k, b.rev, c1.redirect_uri, c2.code_challenge)
    BY <1>3
  <2>2. PICK e \in codes[holds[r]] :
               /\ e.code = k
               /\ \/ UNCHANGED <<tokens, exchanged>>
                  \/ /\ exchanged' = [exchanged EXCEPT ![k] = @ + 1]
                     /\ tokens' = tokens \cup
                           Minted(holds[r], k, e.granted.scope, e.granted.resource)
    BY <2>1, ExchangeFinds
  <2>3. /\ holds[r] \in Contexts /\ k \in Codes
        /\ codes' = [codes EXCEPT ![holds[r]] = Take(@, k)]
        /\ taken' = taken \cup {k}
        /\ UNCHANGED <<issued, consent>>
    BY <2>1, ExchangeFinds
  <2>4. codes' \in [Contexts -> SUBSET CodeEntries]
    BY <2>3 DEF TypeCodes, Take, Unexpired
  <2>5. exchanged' \in [Codes -> Nat]
    BY <2>2, <2>3 DEF TypeCodes
  <2>6. tokens' \subseteq Tokens
    <3>1. e.granted.scope \in Scopes /\ e.granted.resource \in {a.resource : a \in Asks}
      BY <2>3, EntryType
    <3>2. Minted(holds[r], k, e.granted.scope, e.granted.resource) \subseteq Tokens
      BY <3>1, <2>3, MintedContent
    <3> QED
      BY <3>2, <2>2 DEF TypeCodes
  <2> QED
    BY <2>3, <2>4, <2>5, <2>6 DEF TypeCodes
<1>4. CASE \E r \in Requests, b \in Blocks, k \in 1 .. issued : ExchangeUnknown(r, k, b.rev)
  BY <1>4 DEF ExchangeUnknown, TypeCodes, Take, Unexpired, codeVars
<1>5. CASE \E r \in Requests, b \in Blocks, t \in tokens : Refresh(r, t, b.rev)
  <2>1. PICK r \in Requests, b \in Blocks, t \in tokens : Refresh(r, t, b.rev)
    BY <1>5
  <2>2. t \in Tokens /\ holds[r] \in Contexts
    BY <2>1, BoundsAreNat DEF Refresh, TypeLoads, TypeCodes, Contexts
  <2>3. Minted(holds[r], t.code, t.scope, t.audience) \subseteq Tokens
    <3>1. t.code \in Codes /\ t.scope \in Scopes /\ t.audience \in {a.resource : a \in Asks}
      BY <2>2 DEF Tokens
    <3> QED
      BY <3>1, <2>2, MintedContent
  <2> QED
    BY <2>1, <2>3 DEF Refresh, TypeCodes, codeVars
<1>6. CASE Restart
  BY <1>6 DEF Restart, TypeCodes, codeVars
<1> QED
  BY <1>1, <1>2, <1>3, <1>4, <1>5, <1>6, CodeSteps

\* Stores only lose codes, apart from the one Authorize issues: nothing is in
\* two stores, and what was taken is gone from all of them.
LEMMA CodeInvStep == TypeLoads /\ TypeCodes /\ CodeInv /\ Next => CodeInv'
<1> SUFFICES ASSUME TypeLoads, TypeCodes, CodeInv, Next PROVE CodeInv'
  OBVIOUS
<1>0. issued \in Nat /\ DOMAIN codes = Contexts /\ DOMAIN consent = Codes /\ DOMAIN exchanged = Codes
  BY BoundsAreNat DEF TypeCodes
<1>1. CASE UNCHANGED <<codes, tokens, codeVars>>
  BY <1>1 DEF CodeInv, codeVars
<1>2. CASE \E r \in Requests, b \in Blocks, a \in Asks, p \in Places : Authorize(r, a, b.rev, p.host)
  <2>1. PICK r \in Requests, b \in Blocks, a \in Asks, p \in Places : Authorize(r, a, b.rev, p.host)
    BY <1>2
  <2>2. PICK agreed \in Granted, new \in CodeEntries :
               /\ new.code = issued + 1 /\ new.granted = agreed
               /\ consent' = [consent EXCEPT ![issued + 1] = agreed]
               /\ \E store \in Stores(codes[holds[r]], new) :
                     codes' = [codes EXCEPT ![holds[r]] = store]
    BY <2>1, AuthorizeIssues
  <2>3. /\ issued + 1 \in Codes /\ issued' = issued + 1 /\ holds[r] \in Contexts
        /\ UNCHANGED <<tokens, taken, exchanged>>
    BY <2>1, AuthorizeIssues
  <2>4. \A c \in Contexts : \A e \in codes'[c] : e \in codes[c] \/ (e = new /\ c = holds[r])
    <3>1. PICK store \in Stores(codes[holds[r]], new) : codes' = [codes EXCEPT ![holds[r]] = store]
      BY <2>2
    <3>2. store \subseteq codes[holds[r]] \cup {new}
      BY StoresContent, UnexpiredContent
    <3> QED
      BY <3>1, <3>2, <1>0
  <2>5. \A j \in 1 .. issued : consent'[j] = consent[j]
    BY <2>2, <1>0
  <2>6. consent'[issued + 1] = agreed
    BY <2>2, <2>3, <1>0
  <2>7. \A c \in Contexts : \A e \in codes'[c] :
           e.code \in 1 .. issued' /\ e.code \notin taken' /\ e.granted = consent'[e.code]
    <3> SUFFICES ASSUME NEW c \in Contexts, NEW e \in codes'[c]
                 PROVE  e.code \in 1 .. issued' /\ e.code \notin taken' /\ e.granted = consent'[e.code]
      OBVIOUS
    <3>1. CASE e \in codes[c]
      BY <3>1, <2>3, <2>5, <1>0 DEF CodeInv
    <3>2. CASE e = new
      <4>1. issued + 1 \notin taken
        BY <1>0 DEF CodeInv
      <4> QED
        BY <3>2, <4>1, <2>2, <2>3, <2>6, <1>0
    <3> QED
      BY <3>1, <3>2, <2>4
  <2>8. \A c, d \in Contexts : \A e \in codes'[c], f \in codes'[d] : e.code = f.code => c = d
    <3> SUFFICES ASSUME NEW c \in Contexts, NEW d \in Contexts, NEW e \in codes'[c], NEW f \in codes'[d],
                        e.code = f.code
                 PROVE  c = d
      OBVIOUS
    <3>1. CASE e \in codes[c] /\ f \in codes[d]
      BY <3>1 DEF CodeInv
    <3>2. \A g : (\E x \in Contexts : g \in codes[x]) => g.code # new.code
      BY <1>0, <2>2 DEF CodeInv
    <3> QED
      BY <3>1, <3>2, <2>4
  <2>9. taken' \subseteq 1 .. issued'
    BY <2>3, <1>0 DEF CodeInv
  <2>10. \A j \in 1 .. issued' : consent'[j] \in Granted
    BY <2>3, <2>5, <2>6, <1>0 DEF CodeInv
  <2> QED
    BY <2>3, <2>7, <2>8, <2>9, <2>10 DEF CodeInv
<1>3. CASE \E r \in Requests, b \in Blocks, a, d \in Asks, k \in 1 .. issued :
              Exchange(r, k, b.rev, a.redirect_uri, d.code_challenge)
  <2>1. PICK r \in Requests, b \in Blocks, k \in 1 .. issued, c1, c2 \in Asks :
             Exchange(r, k, b.rev, c1.redirect_uri, c2.code_challenge)
    BY <1>3
  <2>2. /\ holds[r] \in Contexts /\ k \in Codes
        /\ codes' = [codes EXCEPT ![holds[r]] = Take(@, k)]
        /\ taken' = taken \cup {k}
        /\ UNCHANGED <<issued, consent>>
    BY <2>1, ExchangeFinds
  <2>3. PICK e \in codes[holds[r]] :
               e.code = k /\ (exchanged' = exchanged \/ exchanged' = [exchanged EXCEPT ![k] = @ + 1])
    BY <2>1, ExchangeFinds
  <2>4. exchanged[k] = 0 /\ k \notin taken
    BY <2>2, <2>3 DEF CodeInv
  <2>5. \A c \in Contexts : \A f \in codes'[c] : f \in codes[c] /\ f.code # k
    <3> SUFFICES ASSUME NEW c \in Contexts, NEW f \in codes'[c] PROVE f \in codes[c] /\ f.code # k
      OBVIOUS
    <3>1. CASE c = holds[r]
      BY <3>1, <2>2, <1>0 DEF Take, Unexpired
    <3>2. CASE c # holds[r]
      <4>1. f \in codes[c]
        BY <3>2, <2>2, <1>0
      <4> QED
        BY <3>2, <4>1, <2>2, <2>3 DEF CodeInv
    <3> QED
      BY <3>1, <3>2
  <2>6. \A j \in Codes : exchanged'[j] <= 1 /\ (exchanged'[j] # 0 => j \in taken')
    BY <2>2, <2>3, <2>4, <1>0 DEF CodeInv
  <2> QED
    BY <2>2, <2>5, <2>6 DEF CodeInv
<1>4. CASE \E r \in Requests, b \in Blocks, k \in 1 .. issued : ExchangeUnknown(r, k, b.rev)
  <2>1. \A c \in Contexts : codes'[c] \subseteq codes[c]
    BY <1>4, <1>0 DEF ExchangeUnknown, Take, Unexpired
  <2>2. UNCHANGED codeVars
    BY <1>4 DEF ExchangeUnknown
  <2> QED
    BY <2>1, <2>2 DEF CodeInv, codeVars
<1>5. CASE \E r \in Requests, b \in Blocks, t \in tokens : Refresh(r, t, b.rev)
  BY <1>5 DEF Refresh, CodeInv, codeVars
<1>6. CASE Restart
  BY <1>6 DEF Restart, CodeInv, codeVars
<1> QED
  BY <1>1, <1>2, <1>3, <1>4, <1>5, <1>6, CodeSteps

\* The clock only moves forward, so a waiting code is never the youngest.
LEMMA AgeInvStep == TypeLoads /\ TypeCodes /\ AgeInv /\ Next => AgeInv'
<1> SUFFICES ASSUME TypeLoads, TypeCodes, AgeInv, Next, NEW c \in Contexts, NEW e \in codes'[c]
             PROVE  e.expires_at_sec <= now' + AUTH_CODE_TTL_SEC
  BY DEF AgeInv
<1>0. now \in Nat /\ AUTH_CODE_TTL_SEC \in Nat /\ DOMAIN codes = Contexts
  BY BoundsAreNat DEF TypeLoads, TypeCodes
<1>1. now' \in Nat /\ now' >= now
  <2>1. now' = now \/ now' = now + 1
    BY Steps DEF LoadBegins, CheckUpToDate, ReadKey, GenerateKey, WriteTemporary, Rename, LoadFails,
       Install, TakeContext, TurnedDown, Authorize, Exchange, ExchangeUnknown, Refresh, Edit, Tick, Restart
  <2> QED
    BY <2>1, <1>0
<1>2. CASE e \in codes[c]
  <2>1. e.expires_at_sec \in Nat /\ e.expires_at_sec <= now + AUTH_CODE_TTL_SEC
    BY <1>2 DEF AgeInv, TypeCodes, CodeEntries
  <2> QED
    BY <2>1, <1>0, <1>1
<1>3. CASE \E r \in Requests, b \in Blocks, a \in Asks, p \in Places : Authorize(r, a, b.rev, p.host)
  <2>1. PICK r \in Requests, b \in Blocks, a \in Asks, p \in Places : Authorize(r, a, b.rev, p.host)
    BY <1>3
  <2>2. PICK new \in CodeEntries :
               /\ new.expires_at_sec = now + AUTH_CODE_TTL_SEC
               /\ \E store \in Stores(codes[holds[r]], new) :
                     codes' = [codes EXCEPT ![holds[r]] = store]
    BY <2>1, AuthorizeIssues
  <2>3. PICK store \in Stores(codes[holds[r]], new) : codes' = [codes EXCEPT ![holds[r]] = store]
    BY <2>2
  <2>4. store \subseteq codes[holds[r]] \cup {new}
    BY StoresContent, UnexpiredContent
  <2>5. e \in codes[c] \/ e = new
    BY <2>3, <2>4, <1>0
  <2> QED
    BY <1>0, <1>1, <1>2, <2>2, <2>5
<1>4. CASE \E r \in Requests, k \in 1 .. issued : codes' = [codes EXCEPT ![holds[r]] = Take(@, k)]
  <2>1. e \in codes[c]
    BY <1>4, <1>0 DEF Take, Unexpired
  <2> QED
    BY <2>1, <1>2
<1>5. CASE UNCHANGED codes \/ Restart
  <2>1. e \in codes[c]
    BY <1>5 DEF Restart
  <2> QED
    BY <2>1, <1>2
<1> QED
  BY <1>3, <1>4, <1>5, CodeSteps DEF Exchange, ExchangeUnknown, Refresh

\* A new token repeats what the code, or the refresh token, stands for.
LEMMA TokenInvStep == TypeLoads /\ TypeCodes /\ CodeInv /\ TokenInv /\ Next => TokenInv'
<1> SUFFICES ASSUME TypeLoads, TypeCodes, CodeInv, TokenInv, Next PROVE TokenInv'
  OBVIOUS
<1>0. issued \in Nat /\ DOMAIN consent = Codes /\ DOMAIN exchanged = Codes
  BY BoundsAreNat DEF TypeCodes
<1>1. CASE UNCHANGED <<codes, tokens, codeVars>>
  BY <1>1 DEF TokenInv, codeVars
<1>2. CASE \E r \in Requests, b \in Blocks, a \in Asks, p \in Places : Authorize(r, a, b.rev, p.host)
  <2>1. PICK r \in Requests, b \in Blocks, a \in Asks, p \in Places : Authorize(r, a, b.rev, p.host)
    BY <1>2
  <2>2. PICK agreed : consent' = [consent EXCEPT ![issued + 1] = agreed]
    BY <2>1, AuthorizeIssues
  <2>3. issued' = issued + 1 /\ UNCHANGED <<tokens, exchanged>>
    BY <2>1, AuthorizeIssues
  <2>4. \A j \in 1 .. issued : consent'[j] = consent[j] /\ j \in 1 .. issued'
    BY <2>2, <2>3, <1>0
  <2> QED
    BY <2>3, <2>4 DEF TokenInv
<1>3. CASE \E r \in Requests, b \in Blocks, a, d \in Asks, k \in 1 .. issued :
              Exchange(r, k, b.rev, a.redirect_uri, d.code_challenge)
  <2>1. PICK r \in Requests, b \in Blocks, k \in 1 .. issued, c1, c2 \in Asks :
             Exchange(r, k, b.rev, c1.redirect_uri, c2.code_challenge)
    BY <1>3
  <2>2. PICK e \in codes[holds[r]] :
               /\ e.code = k
               /\ \/ UNCHANGED <<tokens, exchanged>>
                  \/ /\ exchanged' = [exchanged EXCEPT ![k] = @ + 1]
                     /\ tokens' = tokens \cup
                           Minted(holds[r], k, e.granted.scope, e.granted.resource)
    BY <2>1, ExchangeFinds
  <2>3. holds[r] \in Contexts /\ k \in Codes /\ UNCHANGED <<issued, consent>>
    BY <2>1, ExchangeFinds
  <2>4. exchanged[k] = 0 /\ e.granted = consent[k]
    BY <2>2, <2>3 DEF CodeInv
  <2>5. CASE UNCHANGED <<tokens, exchanged>>
    BY <2>3, <2>5 DEF TokenInv
  <2>6. CASE /\ exchanged' = [exchanged EXCEPT ![k] = @ + 1]
             /\ tokens' = tokens \cup Minted(holds[r], k, e.granted.scope, e.granted.resource)
    <3>1. exchanged'[k] = 1
      BY <2>3, <2>4, <2>6, <1>0
    <3>2. \A t \in tokens : t.code # k /\ exchanged'[t.code] = exchanged[t.code]
      BY <2>4, <2>6, <1>0 DEF TokenInv
    <3>3. \A t \in Minted(holds[r], k, e.granted.scope, e.granted.resource) :
             /\ t.code = k /\ t.scope = e.granted.scope /\ t.audience = e.granted.resource
             /\ t.kind = "refresh" => "offline_access" \in t.scope
      <4>1. e.granted.scope \in Scopes /\ e.granted.resource \in {a.resource : a \in Asks}
        BY <2>3, EntryType
      <4> QED
        BY <4>1, <2>3, MintedContent
    <3>4. \A t \in tokens : /\ t.code \in 1 .. issued'
                            /\ exchanged'[t.code] = 1
                            /\ t.scope = consent'[t.code].scope
                            /\ t.audience = consent'[t.code].resource
                            /\ t.kind = "refresh" => "offline_access" \in t.scope
      BY <2>3, <3>2 DEF TokenInv
    <3>5. \A t \in Minted(holds[r], k, e.granted.scope, e.granted.resource) :
             /\ t.code \in 1 .. issued'
             /\ exchanged'[t.code] = 1
             /\ t.scope = consent'[t.code].scope
             /\ t.audience = consent'[t.code].resource
             /\ t.kind = "refresh" => "offline_access" \in t.scope
      BY <2>3, <2>4, <3>1, <3>3
    <3> QED
      BY <2>6, <3>4, <3>5 DEF TokenInv
  <2> QED
    BY <2>2, <2>5, <2>6
<1>4. CASE \E r \in Requests, b \in Blocks, k \in 1 .. issued : ExchangeUnknown(r, k, b.rev)
  BY <1>4 DEF ExchangeUnknown, TokenInv, codeVars
<1>5. CASE \E r \in Requests, b \in Blocks, t \in tokens : Refresh(r, t, b.rev)
  <2>1. PICK r \in Requests, b \in Blocks, s \in tokens : Refresh(r, s, b.rev)
    BY <1>5
  <2>2. s \in Tokens /\ holds[r] \in Contexts
    BY <2>1, BoundsAreNat DEF Refresh, TypeLoads, TypeCodes, Contexts
  <2>3. \A t \in Minted(holds[r], s.code, s.scope, s.audience) :
           /\ t.code = s.code /\ t.scope = s.scope /\ t.audience = s.audience
           /\ t.kind = "refresh" => "offline_access" \in t.scope
    <3>1. s.code \in Codes /\ s.scope \in Scopes /\ s.audience \in {a.resource : a \in Asks}
      BY <2>2 DEF Tokens
    <3> QED
      BY <3>1, <2>2, MintedContent
  <2>4. /\ tokens' = tokens \cup Minted(holds[r], s.code, s.scope, s.audience)
        /\ UNCHANGED <<issued, consent, exchanged>>
    BY <2>1 DEF Refresh, codeVars
  <2> QED
    BY <2>3, <2>4 DEF TokenInv
<1>6. CASE Restart
  BY <1>6 DEF Restart, TokenInv, codeVars
<1> QED
  BY <1>1, <1>2, <1>3, <1>4, <1>5, <1>6, CodeSteps

\* Tokens are signed with the key of the context the request holds.
LEMMA NewTokens ==
    ASSUME TypeLoads, TypeCodes, Next, NEW t \in tokens', t \notin tokens
    PROVE  /\ \E c \in 1 .. made : t.key = context[c].key
           /\ UNCHANGED <<keyVars, load, ctxVars>>
<1>1. CASE UNCHANGED <<codes, tokens, codeVars>>
  BY <1>1
<1>2. CASE \E r \in Requests, b \in Blocks, a \in Asks, p \in Places : Authorize(r, a, b.rev, p.host)
  BY <1>2 DEF Authorize
<1>3. CASE \E r \in Requests, b \in Blocks, a, d \in Asks, k \in 1 .. issued :
              Exchange(r, k, b.rev, a.redirect_uri, d.code_challenge)
  <2>1. PICK r \in Requests, b \in Blocks, k \in 1 .. issued, c1, c2 \in Asks :
             Exchange(r, k, b.rev, c1.redirect_uri, c2.code_challenge)
    BY <1>3
  <2>2. PICK e \in codes[holds[r]] :
               \/ UNCHANGED <<tokens, exchanged>>
               \/ tokens' = tokens \cup Minted(holds[r], k, e.granted.scope, e.granted.resource)
    BY <2>1, ExchangeFinds
  <2>3. t \in Minted(holds[r], k, e.granted.scope, e.granted.resource)
    BY <2>2
  <2>4. holds[r] \in Contexts /\ holds[r] \in 1 .. made /\ k \in Codes
    BY <2>1, ExchangeFinds DEF TypeLoads, Contexts
  <2>5. e.granted.scope \in Scopes /\ e.granted.resource \in {a.resource : a \in Asks}
    BY <2>4, EntryType
  <2>6. t.key = context[holds[r]].key
    BY <2>3, <2>4, <2>5, MintedContent
  <2>7. UNCHANGED <<keyVars, load, ctxVars>>
    BY <2>1 DEF Exchange
  <2> QED
    BY <2>4, <2>6, <2>7
<1>4. CASE \E r \in Requests, b \in Blocks, k \in 1 .. issued : ExchangeUnknown(r, k, b.rev)
  BY <1>4 DEF ExchangeUnknown
<1>5. CASE \E r \in Requests, b \in Blocks, s \in tokens : Refresh(r, s, b.rev)
  <2>1. PICK r \in Requests, b \in Blocks, s \in tokens : Refresh(r, s, b.rev)
    BY <1>5
  <2>2. holds[r] \in Contexts /\ holds[r] \in 1 .. made
    BY <2>1, BoundsAreNat DEF Refresh, TypeLoads, Contexts
  <2>3. s.code \in Codes /\ s.scope \in Scopes /\ s.audience \in {a.resource : a \in Asks}
    BY DEF TypeCodes, Tokens
  <2>4. t \in Minted(holds[r], s.code, s.scope, s.audience)
    BY <2>1 DEF Refresh
  <2>5. t.key = context[holds[r]].key
    BY <2>2, <2>3, <2>4, MintedContent
  <2>6. UNCHANGED <<keyVars, load, ctxVars>>
    BY <2>1 DEF Refresh
  <2> QED
    BY <2>2, <2>5, <2>6
<1>6. CASE Restart
  BY <1>6 DEF Restart
<1> QED
  BY <1>1, <1>2, <1>3, <1>4, <1>5, <1>6, CodeSteps

\* What a step does to the loads, the key file and the contexts: nothing, or
\* one of these.
LEMMA LoadSteps ==
    ASSUME Next
    PROVE  \/ UNCHANGED <<keyVars, load, ctxVars>>
           \/ \E l \in Loads : LoadBegins(l)
           \/ \E l \in Loads : CheckUpToDate(l)
           \/ \E l \in Loads : ReadKey(l)
           \/ \E l \in Loads : GenerateKey(l)
           \/ \E l \in Loads : WriteTemporary(l)
           \/ \E l \in Loads : Rename(l)
           \/ \E l \in Loads : LoadFails(l)
           \/ \E l \in Loads : Install(l)
           \/ Restart
<1> DEFINE Quiet == UNCHANGED <<keyVars, load, ctxVars>>
<1>1. \A r \in Requests : TakeContext(r) \/ TurnedDown(r) => Quiet
  BY DEF TakeContext, TurnedDown
<1>2. \A r \in Requests, b \in Blocks, a \in Asks, p \in Places : Authorize(r, a, b.rev, p.host) => Quiet
  BY DEF Authorize
<1>3. \A r \in Requests, b \in Blocks, a, d \in Asks, k \in 1 .. issued :
         Exchange(r, k, b.rev, a.redirect_uri, d.code_challenge) => Quiet
  BY DEF Exchange
<1>4. \A r \in Requests, b \in Blocks, k \in 1 .. issued : ExchangeUnknown(r, k, b.rev) => Quiet
  BY DEF ExchangeUnknown
<1>5. \A r \in Requests, b \in Blocks, t \in tokens : Refresh(r, t, b.rev) => Quiet
  BY DEF Refresh
<1>6. Tick \/ (\E b \in Blocks : Edit(b)) => Quiet
  BY DEF Tick, Edit
<1> HIDE DEF Quiet
<1>7. \/ Quiet
      \/ \E l \in Loads : LoadBegins(l)
      \/ \E l \in Loads : CheckUpToDate(l)
      \/ \E l \in Loads : ReadKey(l)
      \/ \E l \in Loads : GenerateKey(l)
      \/ \E l \in Loads : WriteTemporary(l)
      \/ \E l \in Loads : Rename(l)
      \/ \E l \in Loads : LoadFails(l)
      \/ \E l \in Loads : Install(l)
      \/ Restart
  BY <1>1, <1>2, <1>3, <1>4, <1>5, <1>6, Steps
<1> QED
  BY <1>7 DEF Quiet

\* One step per action that touches a load, a file or a context.
LEMMA LoadKeysStep == TypeLoads /\ LoadKeys /\ Next => LoadKeys'
<1> SUFFICES ASSUME TypeLoads, LoadKeys, Next PROVE LoadKeys'
  OBVIOUS
<1>0. DOMAIN load = Loads /\ DOMAIN context = Contexts /\ made \in Nat /\ keys \in Nat
      /\ \A l \in Loads : load[l] = LoadAt(load[l].pc, load[l].block, load[l].key, load[l].saw)
  BY BoundsAreNat DEF TypeLoads, LoadAt
<1> USE Values, BoundsAreNat
<1>1. CASE \E l \in Loads : LoadBegins(l)
  BY <1>0, <1>1 DEF LoadBegins, LoadKeys, LoadAt, keyVars, ctxVars
<1>2. CASE \E l \in Loads : CheckUpToDate(l)
  <2>1. PICK l \in Loads : CheckUpToDate(l)
    BY <1>2
  <2>2. load[l].block.pin \in Nat
    BY DEF TypeLoads
  <2>3. \A m \in Loads : m # l => load'[m] = load[m]
    BY <2>1, <1>0 DEF CheckUpToDate
  <2>4. \/ load'[l].pc \in {"idle", "read"}
        \/ load'[l].pc = "install" /\ load'[l].key = PinnedKey(load[l].block.pin)
    BY <2>1, <1>0 DEF CheckUpToDate, LoadAt, Idle
  <2>5. UNCHANGED <<keyFile, tmp, raced, made, context>>
    BY <2>1 DEF CheckUpToDate, keyVars, ctxVars
  <2> QED
    BY <2>2, <2>3, <2>4, <2>5 DEF LoadKeys
<1>3. CASE \E l \in Loads : ReadKey(l)
  BY <1>0, <1>3 DEF ReadKey, LoadKeys, LoadAt, keyVars, ctxVars
<1>4. CASE \E l \in Loads : GenerateKey(l)
  <2>1. PICK l \in Loads : GenerateKey(l)
    BY <1>4
  <2>2. \A m \in Loads : m # l => load'[m] = load[m]
    BY <2>1, <1>0 DEF GenerateKey
  <2>3. load'[l].pc = "write" /\ load'[l].key = FileKey(keys + 1) /\ FileKey(keys + 1) # NoKey
    BY <2>1, <1>0 DEF GenerateKey, LoadAt
  <2>4. /\ UNCHANGED <<keyFile, tmp, made, context>> /\ keyFile = NoKey
        /\ ~raced' => ~raced /\ \A m \in Loads : load[m].pc \notin {"write", "rename"}
    BY <2>1 DEF GenerateKey, ctxVars
  <2> QED
    BY <2>2, <2>3, <2>4 DEF LoadKeys
<1>5. CASE \E l \in Loads : WriteTemporary(l)
  <2>1. PICK l \in Loads : WriteTemporary(l)
    BY <1>5
  <2>2. \A m \in Loads : m # l => load'[m] = load[m]
    BY <2>1, <1>0 DEF WriteTemporary
  <2>3. load[l].pc = "write" /\ load'[l].pc = "rename" /\ load'[l].key = load[l].key /\ tmp' = load[l].key
    BY <2>1, <1>0 DEF WriteTemporary, LoadAt
  <2>4. UNCHANGED <<keyFile, raced, made, context>>
    BY <2>1 DEF WriteTemporary, ctxVars
  <2> QED
    BY <2>2, <2>3, <2>4 DEF LoadKeys
<1>6. CASE \E l \in Loads : Rename(l)
  <2>1. PICK l \in Loads : Rename(l)
    BY <1>6
  <2>2. \A m \in Loads : m # l => load'[m] = load[m]
    BY <2>1, <1>0 DEF Rename
  <2>3. load[l].pc = "rename" /\ load'[l].pc = "install" /\ load'[l].key = load[l].key /\ keyFile' = tmp
    BY <2>1, <1>0 DEF Rename, LoadAt
  <2>4. UNCHANGED <<raced, made, context>>
    BY <2>1 DEF Rename, ctxVars
  <2>5. ~raced => keyFile = NoKey /\ keyFile' = load[l].key
    BY <2>3 DEF LoadKeys
  <2>6. ~raced => \A c \in 1 .. made : context[c].key.origin # "file"
    BY <2>5 DEF LoadKeys
  <2>7. ~raced => \A m \in Loads : m # l => load[m].pc \notin {"write", "rename"}
                                   /\ (load[m].pc = "install" => load[m].key.origin # "file")
    BY <2>3, <2>5 DEF LoadKeys
  <2> QED
    BY <2>2, <2>3, <2>4, <2>5, <2>6, <2>7 DEF LoadKeys
<1>7. CASE \E l \in Loads : LoadFails(l)
  BY <1>0, <1>7 DEF LoadFails, LoadKeys, LoadAt, Idle, keyVars, ctxVars
<1>8. CASE \E l \in Loads : Install(l)
  <2>1. PICK l \in Loads : Install(l)
    BY <1>8
  <2>2. \A m \in Loads : m # l => load'[m] = load[m]
    BY <2>1, <1>0 DEF Install
  <2>3. load[l].pc = "install" /\ load'[l].pc = "idle"
    BY <2>1, <1>0 DEF Install, LoadAt, Idle
  <2>4. /\ made' = made + 1 /\ UNCHANGED <<keyFile, tmp, raced>>
        /\ context'[made + 1].key = load[l].key
        /\ \A c \in 1 .. made : context'[c] = context[c]
    BY <2>1, <1>0 DEF Install, keyVars, Contexts, TypeLoads
  <2> QED
    BY <1>0, <2>2, <2>3, <2>4 DEF LoadKeys
<1>9. CASE Restart
  BY <1>9 DEF Restart, LoadKeys, LoadAt, Idle, keyVars
<1>10. CASE UNCHANGED <<keyVars, load, ctxVars>>
  BY <1>10 DEF LoadKeys, keyVars, ctxVars
<1> QED
  BY <1>1, <1>2, <1>3, <1>4, <1>5, <1>6, <1>7, <1>8, <1>9, <1>10, LoadSteps

\* A token keeps its key, and the file changes only while it holds none.
LEMMA TokenKeysStep == TypeLoads /\ TypeCodes /\ LoadKeys /\ TokenKeys /\ Next => TokenKeys'
<1> SUFFICES ASSUME TypeLoads, TypeCodes, LoadKeys, TokenKeys, Next, NEW t \in tokens'
             PROVE  t.key # NoKey /\ (~raced' /\ t.key.origin = "file" => t.key = keyFile')
  BY DEF TokenKeys
<1>1. CASE t \notin tokens
  <2>1. (\E c \in 1 .. made : t.key = context[c].key) /\ UNCHANGED <<keyVars, load, ctxVars>>
    BY <1>1, NewTokens
  <2> QED
    BY <2>1 DEF LoadKeys, keyVars
<1>2. CASE t \in tokens
  <2>1. raced => raced'
    BY LoadSteps DEF LoadBegins, CheckUpToDate, ReadKey, GenerateKey, WriteTemporary, Rename,
       LoadFails, Install, Restart, keyVars
  <2>2. keyFile' = keyFile \/ \E l \in Loads : load[l].pc = "rename"
    BY LoadSteps DEF LoadBegins, CheckUpToDate, ReadKey, GenerateKey, WriteTemporary, Rename,
       LoadFails, Install, Restart, keyVars
  <2>3. ~raced /\ keyFile' # keyFile => keyFile = NoKey
    BY <2>2 DEF LoadKeys
  <2> QED
    BY <1>2, <2>1, <2>3 DEF TokenKeys
<1> QED
  BY <1>1, <1>2

\* Installing moves live past everything the other loads saw.
LEMMA SawInvStep == TypeLoads /\ SawInv /\ Next => SawInv'
<1> SUFFICES ASSUME TypeLoads, SawInv, Next PROVE SawInv'
  OBVIOUS
<1>0. /\ DOMAIN load = Loads /\ DOMAIN context = Contexts /\ made \in Nat /\ live \in 0 .. made
      /\ live # 0 => live \in Contexts
      /\ \A l \in Loads : load[l].saw \in Nat
  BY BoundsAreNat DEF TypeLoads, Contexts
<1>1. CASE \E l \in Loads : LoadBegins(l)
  BY <1>0, <1>1 DEF LoadBegins, SawInv, LoadAt, ctxVars
<1>2. CASE \E l \in Loads : CheckUpToDate(l)
  <2>1. PICK l \in Loads : CheckUpToDate(l)
    BY <1>2
  <2>2. \A m \in Loads : m # l => load'[m] = load[m]
    BY <2>1, <1>0 DEF CheckUpToDate
  <2>3. \/ load'[l].pc = "idle"
        \/ load'[l].saw = live /\ load'[l].block = load[l].block /\ ~UpToDate(load[l].block)
    BY <2>1, <1>0 DEF CheckUpToDate, LoadAt, Idle
  <2>4. UNCHANGED <<made, context, live>>
    BY <2>1 DEF CheckUpToDate, ctxVars
  <2> QED
    BY <1>0, <2>2, <2>3, <2>4 DEF SawInv, UpToDate
<1>3. CASE \E l \in Loads : ReadKey(l) \/ GenerateKey(l)
  <2>1. PICK l \in Loads : ReadKey(l) \/ GenerateKey(l)
    BY <1>3
  <2>2. \A m \in Loads : m # l => load'[m] = load[m]
    BY <2>1, <1>0 DEF ReadKey, GenerateKey
  <2>3. load[l].pc = "read" /\ load'[l].saw = load[l].saw /\ load'[l].block = load[l].block
    BY <2>1, <1>0 DEF ReadKey, GenerateKey, LoadAt
  <2>4. UNCHANGED <<made, context, live>>
    BY <2>1 DEF ReadKey, GenerateKey, ctxVars
  <2> QED
    BY <2>2, <2>3, <2>4 DEF SawInv
<1>4. CASE \E l \in Loads : WriteTemporary(l) \/ Rename(l)
  <2>1. PICK l \in Loads : WriteTemporary(l) \/ Rename(l)
    BY <1>4
  <2>2. \A m \in Loads : m # l => load'[m] = load[m]
    BY <2>1, <1>0 DEF WriteTemporary, Rename
  <2>3. load[l].pc \in {"write", "rename"} /\ load'[l].saw = load[l].saw /\ load'[l].block = load[l].block
    BY <2>1, <1>0 DEF WriteTemporary, Rename, TypeLoads
  <2>4. UNCHANGED <<made, context, live>>
    BY <2>1 DEF WriteTemporary, Rename, ctxVars
  <2> QED
    BY <2>2, <2>3, <2>4 DEF SawInv
<1>5. CASE \E l \in Loads : LoadFails(l)
  BY <1>0, <1>5 DEF LoadFails, SawInv, LoadAt, Idle, ctxVars
<1>6. CASE \E l \in Loads : Install(l)
  <2>1. PICK l \in Loads : Install(l)
    BY <1>6
  <2>2. /\ \A m \in Loads : m # l => load'[m] = load[m]
        /\ load'[l].pc = "idle"
    BY <2>1, <1>0 DEF Install, LoadAt, Idle
  <2>3. made' = made + 1 /\ live' = made + 1
    BY <2>1 DEF Install
  <2> QED
    BY <1>0, <2>2, <2>3 DEF SawInv
<1>7. CASE Restart
  BY <1>7 DEF Restart, SawInv, LoadAt, Idle
<1>8. CASE UNCHANGED <<keyVars, load, ctxVars>>
  BY <1>8 DEF SawInv, ctxVars
<1> QED
  BY <1>1, <1>2, <1>3, <1>4, <1>5, <1>6, <1>7, <1>8, LoadSteps

\* Nothing is loaded, issued or signed yet.
LEMMA Initially == Init => IInv
<1> SUFFICES ASSUME Init PROVE IInv
  OBVIOUS
<1> USE BoundsAreNat, Values, IdleType
<1>1. TypeLoads
  <2>1. load \in [Loads -> [pc : Stages, block : Blocks, key : Keys, saw : 0 .. MaxContexts]]
    BY DEF Init
  <2>2. context \in [Contexts -> [settings : Blocks, key : Keys]]
    BY DEF Init, NoCtx
  <2>3. holds \in [Requests -> 0 .. made]
    BY DEF Init
  <2>4. /\ now \in Nat /\ settings \in Blocks
        /\ keys \in 0 .. MaxKeys /\ made \in 0 .. MaxContexts /\ live \in 0 .. made
    BY DEF Init
  <2>5. keyFile \in Keys /\ tmp \in Keys
    BY DEF Init
  <2>6. raced \in BOOLEAN
    BY Zenon DEF Init
  <2> QED
    BY <2>1, <2>2, <2>3, <2>4, <2>5, <2>6 DEF TypeLoads
<1>2. TypeCodes
  BY DEF Init, TypeCodes
<1>3. Bounded
  BY FS_EmptySet DEF Init, Bounded
<1>4. LoadKeys /\ SawInv
  BY DEF Init, LoadKeys, SawInv, LoadAt, Idle
<1>5. TokenKeys /\ TokenInv
  BY DEF Init, TokenKeys, TokenInv
<1>6. CodeInv
  BY DEF Init, CodeInv
<1>7. AgeInv
  BY DEF Init, AgeInv
<1> QED
  BY <1>1, <1>2, <1>3, <1>4, <1>5, <1>6, <1>7 DEF IInv

\* Nothing changes when nothing changes.
LEMMA Stutters == IInv /\ UNCHANGED vars => IInv'
<1> SUFFICES ASSUME IInv, UNCHANGED vars PROVE IInv'
  OBVIOUS
<1> USE DEF vars, keyVars, ctxVars, codeVars
<1>1. TypeLoads' /\ TypeCodes'
  BY DEF IInv, TypeLoads, TypeCodes
<1>2. Bounded' /\ LoadKeys' /\ SawInv'
  BY DEF IInv, Bounded, LoadKeys, SawInv
<1>3. TokenKeys' /\ TokenInv' /\ CodeInv' /\ AgeInv'
  BY DEF IInv, TokenKeys, TokenInv, CodeInv, AgeInv
<1> QED
  BY <1>1, <1>2, <1>3 DEF IInv

\* IInv is an invariant of the specification.
THEOREM Inductive == Spec => []IInv
<1>1. IInv /\ [Next]_vars => IInv'
  BY TypeLoadsStep, TypeCodesStep, BoundedStep, LoadKeysStep, TokenKeysStep, CodeInvStep,
     AgeInvStep, TokenInvStep, SawInvStep, Stutters DEF IInv
<1> QED
  BY <1>1, Initially, PTL DEF Spec

\* Every variable keeps its type and no code store grows past MAX_CODES
\* (AuthCodesInner::add), however consents, reloads and restarts interleave.
THEOREM Typed == Spec => []TypeOK
<1>1. IInv => TypeOK
  BY DEF IInv, TypeLoads, TypeCodes, Bounded, TypeOK
<1> QED
  BY <1>1, Inductive, PTL

\* A code buys tokens at most once and is in no store once it was taken
\* (exchange_authorization_code, AuthCodesInner::take).
THEOREM UsedOnce == Spec => []CodeUsedOnce
<1>1. IInv => CodeUsedOnce
  BY DEF IInv, CodeInv, CodeUsedOnce
<1> QED
  BY <1>1, Inductive, PTL

\* A consent that was given is not NoConsent.
LEMMA ConsentIsOne == ASSUME NEW agreed \in Granted PROVE agreed # NoConsent
<1>1. agreed.redirect_uri # "none"
  BY ConstantsAssumption DEF Granted
<1> QED
  BY <1>1 DEF NoConsent

\* Every token says what the user agreed to, whatever chain of refreshes,
\* reloads and restarts it comes from (refresh, mint_tokens).
THEOREM TraceToConsent == Spec => []TokensTraceToConsent
<1>1. IInv => TokensTraceToConsent
  <2> SUFFICES ASSUME IInv, NEW t \in tokens
               PROVE  /\ consent[t.code] # NoConsent
                      /\ t.scope = consent[t.code].scope
                      /\ t.audience = consent[t.code].resource
                      /\ t.kind = "refresh" => "offline_access" \in consent[t.code].scope
    BY DEF TokensTraceToConsent
  <2>1. t.code \in 1 .. issued /\ consent[t.code] \in Granted
    BY DEF IInv, TokenInv, CodeInv
  <2> QED
    BY <2>1, ConsentIsOne DEF IInv, TokenInv
<1> QED
  BY <1>1, Inductive, PTL

\* The gate opens only to an unexpired access token bought with a code, at or
\* below the resource the user agreed to (check_bearer).
THEOREM GateIsSound == Spec => []GateHonoursConsent
<1>1. IInv => GateHonoursConsent
  <2> SUFFICES ASSUME IInv, NEW t \in tokens, NEW p \in Places, check_bearer(t, p)
               PROVE  /\ t.kind = "access" /\ t.exp > now
                      /\ exchanged[t.code] = 1
                      /\ \/ consent[t.code].resource = NoResource
                         \/ /\ IsPrefix(consent[t.code].resource.path, p.path)
                            /\ consent[t.code].resource.host \in
                                  {p.host, context[live].settings.public_url}
    BY DEF GateHonoursConsent
  <2>1. exchanged[t.code] = 1 /\ t.audience = consent[t.code].resource
    BY DEF IInv, TokenInv
  <2>2. t.kind = "access" /\ t.exp > now
    BY DEF check_bearer, verify
  <2>3. t.audience # NoResource =>
           /\ IsPrefix(t.audience.path, p.path)
           /\ t.audience.host \in {p.host, context[live].settings.public_url}
    BY DEF check_bearer, audience_allows, base_url
  <2> QED
    BY <2>1, <2>2, <2>3
<1> QED
  BY <1>1, Inductive, PTL

\* Unless two loads each generated a key, what signs is what is on file, at
\* every point at which the process may end (load_or_create, save).
THEOREM KeySurvives == Spec => []TokensSurviveUnlessRaced
<1>1. IInv => TokensSurviveUnlessRaced
  BY DEF IInv, TokenKeys, TokensSurviveUnlessRaced, TokensSurviveRestart
<1> QED
  BY <1>1, Inductive, PTL

\* An unchanged block keeps its context and the codes in it, unless another
\* load installed one after this load had asked (get_oauth_credentials).
THEOREM KeepsContext == Spec => UnchangedKeepsContext
<1> DEFINE Kept == live # 0 /\ live' \notin {0, live} =>
        \/ context'[live'].settings # context[live].settings
        \/ \E l \in Loads : load[l].pc = "install" /\ load'[l].pc = "idle" /\ load[l].saw # live
<1>1. IInv /\ [Next]_vars => [Kept]_vars
  <2> SUFFICES ASSUME IInv, Next, live # 0, live' \notin {0, live}
               PROVE  Kept
    OBVIOUS
  <2>1. PICK l \in Loads : Install(l)
    BY LoadSteps DEF LoadBegins, CheckUpToDate, ReadKey, GenerateKey, WriteTemporary, Rename,
       LoadFails, Restart, ctxVars
  <2>2. load[l].pc = "install" /\ load'[l].pc = "idle"
    BY <2>1 DEF Install, LoadAt, Idle, IInv, TypeLoads
  <2>3. made + 1 \in Contexts /\ live' = made + 1 /\ DOMAIN context = Contexts
    BY <2>1, BoundsAreNat DEF Install, Contexts, IInv, TypeLoads
  <2>4. context'[live'].settings = load[l].block
    BY <2>1, <2>3 DEF Install
  <2>5. load[l].saw = live => load[l].block # context[live].settings
    BY <2>2 DEF IInv, SawInv
  <2> QED
    BY <2>2, <2>4, <2>5
<1>2. [][Kept]_vars => UnchangedKeepsContext
  BY PTL DEF UnchangedKeepsContext
<1> QED
  BY <1>1, <1>2, Inductive, PTL DEF Spec

\* A code leaves its store by being redeemed, by expiring, or as an oldest one
\* of a full store, and otherwise waits (AuthCodesInner::add, take).
THEOREM Waits == Spec => CodesWait
<1> DEFINE Kept == made' # 0 =>
        \A c \in Contexts : \A e \in codes[c] \ codes'[c] :
            \/ e.expires_at_sec <= now
            \/ e.code \in taken' \ taken
            \/ /\ Cardinality(Unexpired(codes[c])) = MAX_CODES
               /\ \A f \in codes'[c] : e.expires_at_sec <= f.expires_at_sec
<1>1. IInv /\ [Next]_vars => [Kept]_vars
  <2> SUFFICES ASSUME IInv, Next, made' # 0, NEW c \in Contexts, NEW e \in codes[c], e \notin codes'[c],
                      ~(e.expires_at_sec <= now)
               PROVE  \/ e.code \in taken' \ taken
                      \/ /\ Cardinality(Unexpired(codes[c])) = MAX_CODES
                         /\ \A f \in codes'[c] : e.expires_at_sec <= f.expires_at_sec
    OBVIOUS
  <2>0. TypeLoads /\ TypeCodes /\ Bounded /\ CodeInv /\ AgeInv
    BY DEF IInv
  <2>1. /\ DOMAIN codes = Contexts /\ now \in Nat
        /\ \A f \in codes[c] : f.expires_at_sec \in Nat
    BY <2>0 DEF TypeLoads, TypeCodes, CodeEntries
  <2>2. e \in Unexpired(codes[c])
    BY <2>1 DEF Unexpired
  <2>3. CASE UNCHANGED <<codes, tokens, codeVars>>
    BY <2>3
  <2>4. CASE \E r \in Requests, b \in Blocks, a \in Asks, p \in Places : Authorize(r, a, b.rev, p.host)
    <3>1. PICK r \in Requests, b \in Blocks, a \in Asks, p \in Places : Authorize(r, a, b.rev, p.host)
      BY <2>4
    <3>2. PICK new \in CodeEntries :
                 /\ new.expires_at_sec = now + AUTH_CODE_TTL_SEC
                 /\ \E store \in Stores(codes[holds[r]], new) :
                       codes' = [codes EXCEPT ![holds[r]] = store]
      BY <2>0, <3>1, AuthorizeIssues
    <3>3. PICK store \in Stores(codes[holds[r]], new) : codes' = [codes EXCEPT ![holds[r]] = store]
      BY <3>2
    <3>4. c = holds[r] /\ codes'[c] = store /\ store \in Stores(codes[c], new)
      BY <3>3, <2>1
    <3> DEFINE U == Unexpired(codes[c])
               oldest == {k \in U : \A j \in U : k.expires_at_sec <= j.expires_at_sec}
    <3>5. /\ Cardinality(U) >= MAX_CODES
          /\ \E k \in oldest : store = (U \ {k}) \cup {new}
      BY <3>4, <2>2 DEF Stores
    <3>6. PICK k \in oldest : store = (U \ {k}) \cup {new}
      BY <3>5
    <3>7. e = k
      BY <3>4, <3>6, <2>2
    <3>8. \A f \in codes'[c] : e.expires_at_sec <= f.expires_at_sec
      <4>1. e.expires_at_sec <= new.expires_at_sec
        BY <2>0, <3>2 DEF AgeInv
      <4> QED
        BY <3>4, <3>6, <3>7, <4>1
    <3>9. Cardinality(U) = MAX_CODES
      <4>1. IsFiniteSet(codes[c]) /\ Cardinality(codes[c]) <= MAX_CODES /\ U \in SUBSET codes[c]
        BY <2>0, UnexpiredContent DEF Bounded
      <4>2. IsFiniteSet(U) /\ Cardinality(U) <= Cardinality(codes[c])
        BY <4>1, FS_Subset
      <4>3. Cardinality(U) \in Nat /\ Cardinality(codes[c]) \in Nat
        BY <4>1, <4>2, FS_CardinalityType
      <4> QED
        BY <3>5, <4>1, <4>2, <4>3, BoundsAreNat
    <3> QED
      BY <3>8, <3>9
  <2>5. CASE \E r \in Requests, b \in Blocks, a, d \in Asks, k \in 1 .. issued :
                Exchange(r, k, b.rev, a.redirect_uri, d.code_challenge)
    <3>1. PICK r \in Requests, b \in Blocks, k \in 1 .. issued, c1, c2 \in Asks :
               Exchange(r, k, b.rev, c1.redirect_uri, c2.code_challenge)
      BY <2>5
    <3>2. codes' = [codes EXCEPT ![holds[r]] = Take(@, k)] /\ taken' = taken \cup {k}
      BY <2>0, <3>1, ExchangeFinds
    <3>3. e.code = k
      BY <3>2, <2>1, <2>2 DEF Take
    <3>4. e.code \notin taken
      BY <2>0 DEF CodeInv
    <3> QED
      BY <3>2, <3>3, <3>4
  <2>6. CASE \E r \in Requests, b \in Blocks, k \in 1 .. issued : ExchangeUnknown(r, k, b.rev)
    <3>1. PICK r \in Requests, b \in Blocks, k \in 1 .. issued : ExchangeUnknown(r, k, b.rev)
      BY <2>6
    <3>2. /\ codes' = [codes EXCEPT ![holds[r]] = Take(@, k)]
          /\ \A f \in Unexpired(codes[holds[r]]) : f.code # k
      BY <3>1 DEF ExchangeUnknown
    <3>3. e \in codes'[c]
      BY <3>2, <2>1, <2>2 DEF Take
    <3> QED
      BY <3>3
  <2>7. CASE \E r \in Requests, b \in Blocks, t \in tokens : Refresh(r, t, b.rev)
    BY <2>7 DEF Refresh
  <2>8. CASE Restart
    BY <2>8 DEF Restart
  <2> QED
    BY <2>0, <2>3, <2>4, <2>5, <2>6, <2>7, <2>8, CodeSteps
<1>2. [][Kept]_vars => CodesWait
  BY PTL DEF CodesWait
<1> QED
  BY <1>1, <1>2, Inductive, PTL DEF Spec

\* A code that was handed out waits for its client: other codes, reloads and
\* requests on an older context do not take it away before its time.
THEOREM Kept == Spec => CodesKept
<1>1. QED
  BY KeepsContext, Waits DEF CodesKept

\* A load that runs alone races with nobody: raced is set by a load that makes
\* a key while another one is about to write its own (GenerateKey).
LEMMA SerialStep ==
    ASSUME \A l, m \in Loads : l = m
    PROVE  ~raced /\ [Next]_vars => ~raced'
<1> SUFFICES ASSUME ~raced, [Next]_vars PROVE ~raced'
  OBVIOUS
<1>1. CASE UNCHANGED vars
  BY <1>1 DEF vars, keyVars
<1>2. CASE Next
  <2>1. CASE \E l \in Loads : GenerateKey(l)
    <3>1. PICK l \in Loads : GenerateKey(l)
      BY <2>1
    <3>2. load[l].pc = "read"
      BY <3>1 DEF GenerateKey, LoadAt
    <3>3. ~ \E m \in Loads : load[m].pc \in {"write", "rename"}
      BY <3>2
    <3> QED
      BY <3>1, <3>3 DEF GenerateKey
  <2>2. CASE ~ \E l \in Loads : GenerateKey(l)
    BY <1>2, <2>2, LoadSteps DEF LoadBegins, CheckUpToDate, ReadKey, WriteTemporary, Rename,
       LoadFails, Install, Restart, keyVars
  <2> QED
    BY <2>1, <2>2
<1> QED
  BY <1>1, <1>2

\* Where settings loads never overlap, every token signed with a key of the file
\* outlives a restart: the race of two loads is the only way to lose one
\* (load_or_create, save).
THEOREM SerialLoadsSurvive ==
    ASSUME \A l, m \in Loads : l = m
    PROVE  Spec => []TokensSurviveRestart
<1>1. Init => ~raced
  BY DEF Init
<1>2. ~raced /\ [Next]_vars => ~raced'
  BY SerialStep
<1>3. Spec => []~raced
  BY <1>1, <1>2, PTL DEF Spec
<1>4. ~raced /\ TokensSurviveUnlessRaced => TokensSurviveRestart
  BY DEF TokensSurviveUnlessRaced
<1> QED
  BY <1>3, <1>4, KeySurvives, PTL

=============================================================================
