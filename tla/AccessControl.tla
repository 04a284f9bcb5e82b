----------------------------- MODULE AccessControl -----------------------------
(* Who may call the server: OIDC access tokens checked against the cached key set, and  *)
(* the API keys a token creates and removes (xo-syncd/src/auth.rs, api_keys.rs, the key *)
(* requests of server.rs).                                                              *)
(*                                                                                      *)
(* Requests interleave at their awaits: a request that does not know its token's key    *)
(* fetches the provider's set, waits, and replaces the cache that all requests share.   *)
EXTENDS Naturals, FiniteSets

CONSTANTS
    Requests,       \* requests that can be under way at once
    Tokens,         \* access tokens
    SignedWith,     \* the provider's key that signed each token
    Granted,        \* the permissions in each token
    Subject,        \* the account of each token
    Read,           \* READ_PERMISSION
    SigningKeys,    \* keys of the provider
    Published0,     \* those published at the start
    MaxKeys,        \* bound: API keys made
    AccessBudget    \* bound: requests, rotations, faults and restarts

ASSUME AccessAssumption ==
    /\ MaxKeys \in Nat
    /\ Published0 \subseteq SigningKeys
    /\ \A t \in Tokens : SignedWith[t] \in SigningKeys
    /\ AccessBudget \subseteq [requests : Nat, rotations : Nat, faults : Nat, restarts : Nat,
                              made : {0}]

Permissions == {Read} \cup UNION {Granted[t] : t \in Tokens}
ApiKey == [id : 1 .. MaxKeys, owner : {Subject[t] : t \in Tokens},
           permissions : SUBSET Permissions]

VARIABLES
    published,   \* the provider's key set (jwks_uri)
    jwks,        \* OidcVerifier::keys
    req,         \* the requests under way
    keys,        \* ApiKeys::keys in memory
    keyFile,     \* api-keys.json
    answered,    \* what clients were told: keys created, removed, asked to be removed
    rest         \* remaining budget, and the number of keys made

accessVars == <<published, jwks, req, keys, keyFile, answered, rest>>

NoRequest == [at |-> "idle"]

-----------------------------------------------------------------------------
(* OidcVerifier::verify: each permission a request needs is checked in turn *)

\* decode_with_keys: the signing key is known and the token carries the permission.
Decodes(r, set) == SignedWith[req[r].token] \in set /\ req[r].need \in Granted[req[r].token]

\* The permission is there: the next one is checked, or the request does its work.
Checked(r) ==
    IF req[r].todo = {} THEN {[req[r] EXCEPT !.at = "act"]}
    ELSE {[req[r] EXCEPT !.at = "decode", !.need = p, !.todo = @ \ {p}] : p \in req[r].todo}

Arrive(r) ==
    /\ req[r].at = "idle" /\ rest.requests > 0
    /\ \E t \in Tokens, todo \in SUBSET Permissions, id \in 0 .. rest.made :
          /\ IF id = 0 THEN todo # {} ELSE todo = {}
          /\ req' = [req EXCEPT ![r] =
               [at |-> "decode", token |-> t, need |-> Read, todo |-> todo, id |-> id,
                grants |-> todo, fetched |-> {}, excused |-> SignedWith[t] \notin published]]
    /\ rest' = [rest EXCEPT !.requests = @ - 1]
    /\ UNCHANGED <<published, jwks, keys, keyFile, answered>>

\* The cached keys answer; if they cannot, for whatever reason, they are fetched.
VerifyCached(r) ==
    /\ req[r].at = "decode"
    /\ \E next \in IF Decodes(r, jwks) THEN Checked(r) ELSE {[req[r] EXCEPT !.at = "fetch"]} :
          req' = [req EXCEPT ![r] = next]
    /\ UNCHANGED <<published, jwks, keys, keyFile, answered, rest>>

\* fetch_json: the provider answers with its set, or the request fails.
FetchKeys(r) ==
    /\ req[r].at = "fetch"
    /\ \/ /\ req' = [req EXCEPT ![r].at = "install", ![r].fetched = published]
          /\ UNCHANGED rest
       \/ /\ rest.faults > 0
          /\ req' = [req EXCEPT ![r].at = "refused", ![r].excused = TRUE]
          /\ rest' = [rest EXCEPT !.faults = @ - 1]
    /\ UNCHANGED <<published, jwks, keys, keyFile, answered>>

\* The fetched set is dropped when the cache is not empty.
InstallKeys_Kept(r) ==
    /\ req[r].at = "install"
    /\ jwks' = IF jwks = {} THEN req[r].fetched ELSE jwks
    /\ req' = [req EXCEPT ![r].at = "again"]
    /\ UNCHANGED <<published, keys, keyFile, answered, rest>>

\* The cache is replaced by what this request fetched, also when another request has
\* installed a later set meanwhile.
InstallKeys(r) ==
    /\ req[r].at = "install"
    /\ jwks' = req[r].fetched
    /\ req' = [s \in Requests |->
                 IF s = r THEN [req[r] EXCEPT !.at = "again"]
                 ELSE IF req[s].at = "again" THEN [req[s] EXCEPT !.excused = TRUE]
                 ELSE req[s]]
    /\ UNCHANGED <<published, keys, keyFile, answered, rest>>

VerifyAgain(r) ==
    /\ req[r].at = "again"
    /\ \E next \in IF Decodes(r, jwks) THEN Checked(r) ELSE {[req[r] EXCEPT !.at = "refused"]} :
          req' = [req EXCEPT ![r] = next]
    /\ UNCHANGED <<published, jwks, keys, keyFile, answered, rest>>

-----------------------------------------------------------------------------
(* ApiKeys: create and remove change the keys in memory and then replace the file *)

Saves(now) == keyFile' = now /\ UNCHANGED rest
SaveFails == rest.faults > 0 /\ rest' = [rest EXCEPT !.faults = @ - 1] /\ UNCHANGED keyFile

\* api_keys_create: the key is in memory whether or not the file could be replaced.
CreateKey(r) ==
    /\ req[r].at = "act" /\ req[r].id = 0 /\ rest.made < MaxKeys
    /\ LET key == [id |-> rest.made + 1, owner |-> Subject[req[r].token],
                   permissions |-> req[r].grants]
       IN  /\ keys' = keys \cup {key}
           /\ \/ /\ keyFile' = keys \cup {key}
                 /\ answered' = [answered EXCEPT !.created = @ \cup {key}]
                 /\ rest' = [rest EXCEPT !.made = @ + 1]
              \/ /\ rest.faults > 0
                 /\ rest' = [rest EXCEPT !.made = @ + 1, !.faults = @ - 1]
                 /\ UNCHANGED <<keyFile, answered>>
    /\ req' = [req EXCEPT ![r] = NoRequest]
    /\ UNCHANGED <<published, jwks>>

\* The removal is not saved.
RemoveKey_Unsaved(r) ==
    /\ req[r].at = "act" /\ req[r].id # 0
    /\ LET gone == {k \in keys : k.id = req[r].id /\ k.owner = Subject[req[r].token]}
       IN  /\ keys' = keys \ gone
           /\ answered' = [answered EXCEPT !.removed = @ \cup gone, !.asked = @ \cup gone]
    /\ req' = [req EXCEPT ![r] = NoRequest]
    /\ UNCHANGED <<published, jwks, keyFile, rest>>

\* api_keys_remove: only a key of the same account; an unknown one is not found.
RemoveKey(r) ==
    /\ req[r].at = "act" /\ req[r].id # 0
    /\ LET gone == {k \in keys : k.id = req[r].id /\ k.owner = Subject[req[r].token]}
       IN  /\ keys' = keys \ gone
           /\ IF gone = {} THEN UNCHANGED <<keyFile, answered, rest>>
              ELSE \/ /\ Saves(keys \ gone)
                      /\ answered' = [answered EXCEPT !.removed = @ \cup gone,
                                                      !.asked = @ \cup gone]
                   \/ /\ SaveFails
                      /\ answered' = [answered EXCEPT !.asked = @ \cup gone]
    /\ req' = [req EXCEPT ![r] = NoRequest]
    /\ UNCHANGED <<published, jwks>>

Refused(r) ==
    /\ req[r].at = "refused"
    /\ req' = [req EXCEPT ![r] = NoRequest]
    /\ UNCHANGED <<published, jwks, keys, keyFile, answered, rest>>

-----------------------------------------------------------------------------
(* The provider publishes other keys; the server stops and is started again *)

Rotate(set) ==
    /\ rest.rotations > 0 /\ set # published /\ set # {}
    /\ published' = set
    /\ req' = [r \in Requests |->
                 IF req[r].at \notin {"idle"} /\ SignedWith[req[r].token] \notin set
                 THEN [req[r] EXCEPT !.excused = TRUE] ELSE req[r]]
    /\ rest' = [rest EXCEPT !.rotations = @ - 1]
    /\ UNCHANGED <<jwks, keys, keyFile, answered>>

\* ApiKeys::open and Authenticator::discover read the file and the provider's keys.
AccessRestart ==
    /\ rest.restarts > 0
    /\ keys' = keyFile
    /\ jwks' = published
    /\ req' = [r \in Requests |-> NoRequest]
    /\ rest' = [rest EXCEPT !.restarts = @ - 1]
    /\ UNCHANGED <<published, keyFile, answered>>

AccessInit ==
    /\ published = Published0
    /\ jwks = Published0
    /\ req = [r \in Requests |-> NoRequest]
    /\ keys = {} /\ keyFile = {}
    /\ answered = [created |-> {}, removed |-> {}, asked |-> {}]
    /\ rest \in AccessBudget

RequestStep(r) ==
    \/ Arrive(r) \/ VerifyCached(r) \/ FetchKeys(r) \/ InstallKeys(r) \/ VerifyAgain(r)
    \/ CreateKey(r) \/ RemoveKey(r) \/ Refused(r)

AccessNext ==
    \/ \E r \in Requests : RequestStep(r)
    \/ \E set \in SUBSET SigningKeys : Rotate(set)
    \/ AccessRestart

AccessSpec == AccessInit /\ [][AccessNext]_accessVars

-----------------------------------------------------------------------------
(* Properties *)

Stage == {"idle", "decode", "fetch", "install", "again", "act", "refused"}

AccessTypeOK ==
    /\ published \subseteq SigningKeys /\ jwks \subseteq SigningKeys
    /\ \A r \in Requests : req[r].at \in Stage
    /\ keys \subseteq ApiKey /\ keyFile \subseteq ApiKey
    /\ \A k, l \in keys : k.id = l.id => k = l

\* A key that was answered as created works and survives a restart until its removal is
\* asked for; one that was answered as removed never works again (api_keys.rs:72-135).
KeysDurable ==
    /\ answered.created \ answered.asked \subseteq keys \cap keyFile
    /\ answered.removed \cap (keys \cup keyFile) = {}

\* A token that carries the permission and whose key is published while the request runs is
\* refused only if the provider could not be asked or another request replaced the shared
\* key set between this one's refresh and its second check (auth.rs:179-184).
ValidTokenAccepted ==
    \A r \in Requests :
        req[r].at = "refused" => req[r].excused \/ req[r].need \notin Granted[req[r].token]
=============================================================================
