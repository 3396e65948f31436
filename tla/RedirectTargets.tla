--------------------------- MODULE RedirectTargets ---------------------------
(***************************************************************************)
(* Where the OAuth endpoints may send a browser: the redirect policy of    *)
(* src/auth/oauth-provider.ts and unregistered-client-redirect-policy.ts,  *)
(* and the clients whose callbacks it judges, which register               *)
(* (handleOAuthRegister of src/transport/http-transport.ts), come with     *)
(* their first request, return from a token envelope, or are evicted.      *)
(*                                                                         *)
(* A callback is what the policy sees of a URI.                            *)
(* OAuthFlow has the stages of a flow, the counters and the choice of the  *)
(* client to evict; here a client with a flow that the counters count is   *)
(* not evicted.                                                            *)
(***************************************************************************)
EXTENDS HostPatterns, FiniteSets

CONSTANTS
    Flow, Client, NoClient,
    Shared,        \* the client that is pre-registered without callbacks
    Dynamic,       \* the ids that registration gives out
    Callback,      \* the callbacks that requests may name
    Configured,    \* client -> the callbacks it has by the configuration
    AllowedHosts,  \* allowed_redirect_hosts
    Approved,      \* allowed_unregistered_redirect_uris
    AllowsUnregistered,  \* allow_unregistered_clients
    MaxCallbacks   \* limits.maxRedirectUris

ASSUME TargetsAssumption ==
    /\ Shared \in Client \ Dynamic /\ Dynamic \subseteq Client
    /\ Shared \in DOMAIN Configured /\ DOMAIN Configured \subseteq Client \ Dynamic
    /\ \A c \in DOMAIN Configured :   \* the other has the loopback callbacks at least
         Configured[c] \subseteq Callback /\ (Configured[c] = {} <=> c = Shared)
    /\ AllowsUnregistered \in BOOLEAN /\ {MaxCallbacks, Width} \subseteq Nat \ {0}
    /\ \A u \in Callback :
         /\ u.scheme \in {"https", "http", "own", "dangerous"} /\ u.host \in Host
         /\ {u.concrete, u.bare} \subseteq BOOLEAN  \* no "*"; no credentials and no fragment
    /\ \A p \in AllowedHosts : HostPattern(p)

VARIABLES
    registered,    \* client -> the callbacks of its record, or NoClient
    materialized,  \* materializedUnregisteredClientIds
    flow,          \* the flows: how far, whose, where to
    sealed,        \* {<<client, callbacks>>}: the registration in a token envelope
    declared       \* client -> the callbacks it was registered or configured with

targetVars == <<registered, materialized, flow, sealed, declared>>

NoFlowYet == [at |-> "none", client |-> NoClient, to |-> NoClient]
AtStart == [c \in Client |-> IF c \in DOMAIN Configured THEN Configured[c] ELSE NoClient]
TargetsInit ==
    /\ registered = AtStart /\ materialized = {}
    /\ flow = [f \in Flow |-> NoFlowYet] /\ sealed = {}
    /\ declared = [c \in Client |-> IF c \in DOMAIN Configured THEN Configured[c] ELSE {}]

----------------------------------------------------------------------------
(* Hosts *)

Loopback == {Localhost, LoopbackAddress,
             [kind |-> "v6", is |-> [i \in 1 .. Width |-> IF i = Width THEN "1" ELSE "0"]]}

----------------------------------------------------------------------------
(* Callbacks *)

IsAllowedRedirectHost(u) ==
    /\ u.scheme # "dangerous" /\ u.concrete
    /\ \E p \in AllowedHosts : MatchRedirectHost(u.host, p)

\* For a client without callbacks of its own.
IsAllowedSharedClientRedirectUri(u) ==
    /\ u.scheme \in {"https", "http"} /\ IsAllowedRedirectHost(u)
    /\ u.scheme = "http" => u.host \in Loopback

\* parseSafeRedirectUri
IsSafe(u) == u.scheme # "dangerous" /\ u.bare /\ u.concrete

\* The name of an IPv6 host is in brackets, that of the loopback set is not.
AnyPort(rule) == rule.host \in Loopback /\ rule.host.kind # "v6" /\ ~rule.portGiven
MatchesRule(u, rule) ==
    IF rule.schemeOnly THEN rule.scheme \notin {"http", "https"} /\ u.scheme = rule.scheme
    ELSE /\ IsSafe(rule)
         /\ u.scheme = rule.scheme /\ u.host = rule.host
         /\ u.port = rule.port \/ AnyPort(rule)
         /\ IsPrefix(rule.path, u.path)
IsApprovedUnregistered(u) == IsSafe(u) /\ \E rule \in Approved : MatchesRule(u, rule)

\* isConformantRegistrationRedirectUri
IsConformant(u) == IsSafe(u) /\ (u.scheme = "http" => u.host \in Loopback)

IsAllowedClientRedirectUri(callbacks, u) ==
    \/ callbacks # {} /\ IsAllowedRedirectHost(u)
    \/ callbacks = {} /\ IsAllowedSharedClientRedirectUri(u)
    \/ AllowsUnregistered /\ u \in callbacks /\ IsApprovedUnregistered(u)
IsRedirectUriAllowedForClient(callbacks, u) ==
    /\ callbacks # {} => u \in callbacks
    /\ IsAllowedClientRedirectUri(callbacks, u)

----------------------------------------------------------------------------
(* Clients *)

\* registerClient: the callbacks of a dynamic client are looked at.
MayRegister(c, callbacks) ==
    c \in Dynamic => /\ Cardinality(callbacks) <= MaxCallbacks
                     /\ \A u \in callbacks : IsConformant(u)

\* getOrProvisionUnregisteredClient: the record for a request that names u, or
\* NoClient if there is to be none.
Provisioned(c, u) ==
    LET grown == (IF registered[c] = NoClient THEN {} ELSE registered[c]) \cup {u} IN
    IF ~AllowsUnregistered \/ ~IsApprovedUnregistered(u) THEN NoClient
    ELSE IF registered[c] # NoClient
            /\ (c \notin materialized \/ registered[c] = {} \/ u \in registered[c])
         THEN registered[c]
    ELSE IF Cardinality(grown) <= MaxCallbacks /\ MayRegister(c, grown) THEN grown
    ELSE NoClient

\* resolveOAuthClientForRequest
Resolved(c, u) ==
    IF registered[c] # NoClient /\ c \notin materialized THEN registered[c] ELSE Provisioned(c, u)

\* handleOAuthRegister
RegisterDynamic(c, callbacks) ==
    /\ c \in Dynamic /\ declared[c] = {} /\ registered[c] = NoClient
    /\ callbacks # {} /\ MayRegister(c, callbacks)
    /\ registered' = [registered EXCEPT ![c] = callbacks]
    /\ declared' = [declared EXCEPT ![c] = callbacks]
    /\ UNCHANGED <<materialized, flow, sealed>>

Unregistered == {c \in Client : registered[c] = NoClient}
Counted(f) == flow[f].at \in {"open", "sent"}
EvictClient(c) ==
    /\ c \notin Unregistered
    /\ \A f \in Flow : Counted(f) => flow[f].client # c
    /\ registered' = [registered EXCEPT ![c] = NoClient]
    /\ UNCHANGED <<materialized, flow, sealed, declared>>

\* A session opens with a token envelope that holds the client.
RecoverClient(c, callbacks) ==
    /\ <<c, callbacks>> \in sealed /\ registered[c] = NoClient /\ MayRegister(c, callbacks)
    /\ registered' = [registered EXCEPT ![c] = callbacks]
    /\ UNCHANGED <<materialized, flow, sealed, declared>>

----------------------------------------------------------------------------
(* Flows *)

Sends(f, at) == flow' = [flow EXCEPT ![f].at = at]

\* handleOAuthAuthorize: the browser goes to the provider, or back with an error.
\* The store may be too full for a client of which it has no record.
AuthorizeFor(f, c, u) ==
    LET callbacks == Resolved(c, u) IN
    /\ flow[f].at = "none" /\ callbacks # NoClient
    /\ registered' = [registered EXCEPT ![c] = callbacks]
    /\ materialized' = materialized \cup {d \in {c} : registered[d] = NoClient}
    /\ \/ /\ IsRedirectUriAllowedForClient(callbacks, u)
          /\ \E at \in {"open", "told"} :
               flow' = [flow EXCEPT ![f] = [at |-> at, client |-> c, to |-> u]]
       \/ ~IsRedirectUriAllowedForClient(callbacks, u) /\ flow' = flow
    /\ UNCHANGED <<sealed, declared>>

\* handleCallback, up to the exchange with the provider and the form of consent.
ReturnsFromProvider(f) ==
    /\ flow[f].at = "open" /\ Sends(f, "away")
    /\ UNCHANGED <<registered, materialized, sealed, declared>>

\* completeAuthorization, or the denial of consent: both look again.
CompleteAuthorization(f) ==
    LET callbacks == registered[flow[f].client] IN
    /\ flow[f].at = "away"
    /\ \/ /\ callbacks # NoClient /\ IsRedirectUriAllowedForClient(callbacks, flow[f].to)
          /\ \E at \in {"sent", "told"} : Sends(f, at)
       \/ flow' = [flow EXCEPT ![f] = NoFlowYet]
    /\ UNCHANGED <<registered, materialized, sealed, declared>>

\* The code is redeemed; the client's registration goes into the envelope, of
\* which one is looked at.
RedeemCode(f) ==
    /\ flow[f].at = "sent"
    /\ flow' = [flow EXCEPT ![f] = NoFlowYet]
    /\ sealed' \in {sealed, {<<c, registered[c]>> : c \in {flow[f].client} \ Unregistered}}
    /\ UNCHANGED <<registered, materialized, declared>>

AbandonFlow(f) ==
    /\ flow[f].at # "none" /\ flow' = [flow EXCEPT ![f] = NoFlowYet]
    /\ UNCHANGED <<registered, materialized, sealed, declared>>

RestartProvider ==
    /\ registered' = AtStart /\ materialized' = {}
    /\ flow' = [f \in Flow |-> NoFlowYet] /\ UNCHANGED <<sealed, declared>>

TargetsNext ==
    \/ \E c \in Client, callbacks \in SUBSET Callback :
          RegisterDynamic(c, callbacks) \/ RecoverClient(c, callbacks)
    \/ \E c \in Client : EvictClient(c)
    \/ \E f \in Flow, c \in Client, u \in Callback : AuthorizeFor(f, c, u)
    \/ \E f \in Flow : ReturnsFromProvider(f) \/ CompleteAuthorization(f) \/ RedeemCode(f) \/ AbandonFlow(f)
    \/ RestartProvider

TargetsSpec == TargetsInit /\ [][TargetsNext]_targetVars

----------------------------------------------------------------------------
(* Properties *)

TargetsTypeOK ==
    /\ \A c \in Client : registered[c] = NoClient \/ registered[c] \subseteq Callback
    /\ materialized \subseteq Client /\ \A e \in sealed : e[2] \subseteq Callback
    /\ \A f \in Flow : flow[f].at \in {"none", "open", "away", "sent", "told"}

\* A place to send a browser to for a client with these callbacks of its own.
ByApproval(u) == AllowsUnregistered /\ IsApprovedUnregistered(u)
Trusted(own, c, u) ==
    /\ u.scheme # "dangerous" /\ u.concrete
    /\ ByApproval(u) \/ \E p \in AllowedHosts : Belongs(u.host, p)
    /\ \/ ByApproval(u) \/ u \in own
       \/ c = Shared /\ (u.scheme = "https" \/ (u.scheme = "http" /\ u.host \in Loopback))

\* A browser is sent, with a code or with an error, only to a place that the
\* configuration trusts and that the client may name: its own from registration
\* or configuration, for the shared client one over TLS or on the machine, or one
\* that is approved for clients nobody registered; whatever was evicted, recovered
\* from an envelope, restarted or appended since the flow began
\* (isRedirectUriAllowedForClient, resolveCompletionClient).
TargetsTrusted ==
    \A f \in Flow : flow[f].at \in {"sent", "told"} =>
        Trusted(declared[flow[f].client], flow[f].client, flow[f].to)
=============================================================================
