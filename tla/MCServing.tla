----------------------------- MODULE MCServing -----------------------------
(* What serves a client before and beside its requests: the OAuth flow, the  *)
(* profile's first state, the event stream, an enterprise's logins and its   *)
(* assertions, a profile's tenants, who gets a session, which browsers may   *)
(* speak.  Each goes its way alone.                                          *)
EXTENDS OAuthFlow, ProfileStates, SseDelivery, EnterpriseGrants, TenantSelectors, SessionAdmission, OriginCheck

\* Three URLs, and the tenants t and u with one of them or a mask that some
\* share; t may also be of another profile, or unsound.
At(site, h, p_) == [site |-> site, host |-> h, path |-> p_]
Urls == {At("s", <<"g", "a">>, <<"x">>), At("s", <<"g", "b">>, <<"x">>), At("s", <<"g", "b">>, <<"y">>)}
OAuth == [oauth |-> TRUE, brings |-> FALSE, shown |-> "o"]
Bearer == [oauth |-> FALSE, brings |-> FALSE, shown |-> "b"]
Key == [oauth |-> FALSE, brings |-> FALSE, shown |-> "k"]
ProfileAuths == <<Bearer, OAuth>>
Entry(id, kind, at, mode, auth) ==
    [ id |-> id, scoped |-> TRUE, here |-> TRUE, sound |-> TRUE,
      kind |-> kind, at |-> at, mode |-> mode, auth |-> auth ]
Selectors ==
    {<<"exact", u>> : u \in Urls} \cup
    {<<"mask", At("s", h, p_)>> : h \in {<<"g", "*">>, <<"*", "a">>}, p_ \in {<<"x">>, <<"*">>}}
Keyed == Entry("t", "exact", At("s", <<"g", "a">>, <<"x">>), "token", <<Key>>)
Away == [Keyed EXCEPT !.here = FALSE]
Entries ==
    {Entry(id, s[1], s[2], "token", <<Bearer>>) : id \in {"t", "u"}, s \in Selectors}
    \cup {Entry("u", s[1], s[2], "oauth", <<>>) : s \in Selectors}
    \cup {Away, [Keyed EXCEPT !.sound = FALSE]}
Lists == {<<one, two>> : one, two \in Entries}

\* An API with tokens of its own; OAuth with a key, with consent and a validating
\* upstream, with an optional gate; a gate alone; enterprise tokens only.
Open == [ oauth |-> FALSE, enterprise |-> "none", gate |-> "none", configs |-> FALSE, judged |-> {},
          env |-> "none", upstream |-> FALSE, consented |-> FALSE, sealed |-> FALSE ]
OwnApi == [Open EXCEPT !.configs = TRUE, !.judged = {"bearer", "other"}, !.env = "judged"]
AdmissionSettings ==
    { OwnApi,
      [Open EXCEPT !.oauth = TRUE, !.configs = TRUE, !.judged = {"bearer"}, !.sealed = TRUE],
      [Open EXCEPT !.oauth = TRUE, !.consented = TRUE, !.upstream = TRUE, !.sealed = TRUE],
      [Open EXCEPT !.oauth = TRUE, !.consented = TRUE, !.gate = "optional", !.sealed = TRUE],
      [OwnApi EXCEPT !.gate = "required", !.judged = {"other"}, !.env = "plain"],
      [OwnApi EXCEPT !.enterprise = "required", !.judged = {"bearer"}, !.env = "plain"] }

\* A profile with a redirect host and a name of none.  Servers of many profiles, one of
\* them with a default, and of one; an origin that is the profile's, and another.
Address(version, bits) == [kind |-> version, is |-> bits]
RedirectsOf == [p1 |-> {Address("v6", <<"0", "1">>)}, p2 |-> {}]
Origins == {Address("v6", <<"0", "1">>), Address("v4", <<"1", "1">>)}
Pattern(kind, host, bits) == [kind |-> kind, host |-> host, bits |-> bits]
OriginSites ==
    { [routing |-> TRUE, default |-> NoProfile, own |-> Localhost, redirects |-> {},
       allowed |-> {Pattern("range", Address("v4", <<"0", "0">>), 0)}],
      [routing |-> TRUE, default |-> "p1", own |-> Address("v6", <<"0", "1">>), redirects |-> {},
       allowed |-> {Pattern("under", [kind |-> "name", is |-> <<"x">>], 0)}],
      [routing |-> FALSE, default |-> "p1", own |-> Localhost, redirects |-> {Address("v6", <<"0", "1">>)},
       allowed |-> {Pattern("range", Address("v4", <<"1", "0">>), 1)}] }

VARIABLE part
servingVars == <<vars, startVars, sseVars, grantVars, tenantVars, admissionVars, originVars, part>>

ServingInit ==
    /\ part \in {"oauth", "start", "sse", "logins", "withdrawals", "replays", "tenants", "admission", "origins"}
    /\ Init /\ StartInit /\ SseInit /\ GrantInit /\ TenantInit /\ AdmissionInit /\ OriginInit
    /\ part \in {"logins", "withdrawals"} \/ published = {AnyKid}
    /\ part = "tenants" \/ tenants = <<Away, Away>>
    /\ part = "admission" \/ setting = OwnApi
    /\ part = "origins" \/ ~deployed.routing

OneAssertion == CHOOSE a \in Assertion : TRUE
OneExchange == CHOOSE c \in Exchange : TRUE

\* Keys come and go while users log in, assertions while they stay.
LoginsNext ==
    \/ \E k \in Kid : Withdraw(k) \/ Publish(k)
    \/ \E c \in Login : LoggingIn(c)
    \/ Remote \/ GrantTick
\* An assertion outlives its key.
WithdrawalsNext ==
    \/ \E k \in Kid : Withdraw(k) \/ Publish(k)
    \/ \E k \in Kid : Mint(OneAssertion, k, TRUE)
    \/ Exchanging(OneExchange)
    \/ Remote \/ GrantTick
ReplaysNext ==
    \/ \E a \in Assertion : Mint(a, AnyKid, TRUE)
    \/ \E c \in Exchange : Exchanging(c)
    \/ FetchReads \/ FetchReturns \/ FetchFails \/ GrantTick
\* One of the requests may ask for anything, the others for a profile's endpoint.
OneBrowsing == CHOOSE c \in Browsing : TRUE
OriginsNext == OriginNext /\ \A c \in Browsing \ {OneBrowsing} : check'[c].endpoint \in {"none", "profile"}
ServingNext ==
    \/ part = "oauth" /\ Next /\ UNCHANGED <<startVars, sseVars, grantVars, tenantVars, admissionVars, originVars, part>>
    \/ part = "start" /\ StartNext /\ UNCHANGED <<vars, sseVars, grantVars, tenantVars, admissionVars, originVars, part>>
    \/ part = "sse" /\ SseNext /\ UNCHANGED <<vars, startVars, grantVars, tenantVars, admissionVars, originVars, part>>
    \/ part = "logins" /\ LoginsNext /\ UNCHANGED <<vars, startVars, sseVars, tenantVars, admissionVars, originVars, part>>
    \/ part = "withdrawals" /\ WithdrawalsNext /\ UNCHANGED <<vars, startVars, sseVars, tenantVars, admissionVars, originVars, part>>
    \/ part = "replays" /\ ReplaysNext /\ UNCHANGED <<vars, startVars, sseVars, tenantVars, admissionVars, originVars, part>>
    \/ part = "tenants" /\ TenantNext /\ UNCHANGED <<vars, startVars, sseVars, grantVars, admissionVars, originVars, part>>
    \/ part = "admission" /\ AdmissionNext /\ UNCHANGED <<vars, startVars, sseVars, grantVars, tenantVars, originVars, part>>
    \/ part = "origins" /\ OriginsNext /\ UNCHANGED <<vars, startVars, sseVars, grantVars, tenantVars, admissionVars, part>>

\* GrantFairness, in the part without exchanges.
GrantStep(A) == part = "logins" /\ A /\ UNCHANGED <<vars, startVars, sseVars, tenantVars, admissionVars, originVars, part>>
ServingFairness ==
    /\ WF_grantVars(GrantStep(MemoReturns)) /\ WF_grantVars(GrantStep(FetchReads))
    /\ WF_grantVars(GrantStep(FetchReturns)) /\ SF_grantVars(GrantStep(GrantTick))
    /\ \A c \in Login : WF_grantVars(GrantStep(LoggingIn(c)))
ServingSpec == ServingInit /\ [][ServingNext]_servingVars /\ ServingFairness
=============================================================================
