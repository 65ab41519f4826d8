--------------------------- MODULE MCOAuthClients ---------------------------
(***************************************************************************)
(* Small instances of OAuthClients; what single requests are granted is    *)
(* checked beside it.                                                      *)
(***************************************************************************)
EXTENDS OAuthClients, Authorization

Registered(method) ==
    [secret |-> method # "none", method |-> method, mark |-> "plain", name |-> "registered"]

Situation(k, p, c) == [kind |-> k, presents |-> p, client |-> c]

\* Lost records of every kind; a connector and an owner whose record is the
\* registered one; a connector that has changed how it presents its secret.
MCSituations ==
    {Situation("connector", p, NoClient) : p \in Methods} \cup
    {Situation("action", "post", NoClient), Situation("action", "basic", NoClient),
     Situation("owner", "none", NoClient), Situation("owner", "basic", Registered("basic")),
     Situation("connector", "basic", Registered("basic")),
     Situation("connector", "post", [Registered("basic") EXCEPT !.name = "family"])}

(***************************************************************************)
(* What the requests of Authorization are granted, over all combinations   *)
(* of their parts.                                                         *)
(***************************************************************************)

ScopeSets ==
    {{}, {"family:read"}, {"owner:full"}, {"mcp:tools", "offline_access"}, {"offline_access"},
     {"family:read", "offline_access"}, {"owner:full", "mcp:tools"}, {"owner:other"},
     {"mcp:tools", "malformed"}}
Requests ==
    [code : BOOLEAN, client : {"opaque", "document", "invalid"}, redirect : {"connector", "action", "other"},
     pkce : {"none", "strict", "malformed"}, state : BOOLEAN, scopes : ScopeSets, resource : Resources]
Record(method, secret, same, recovering) ==
    [method |-> method, secret |-> secret, same |-> same, grants |-> TRUE, recovering |-> recovering]
Stored ==
    {{}, {Record("none", FALSE, TRUE, FALSE)}, {Record("client_secret_post", TRUE, TRUE, FALSE)},
     {Record("client_secret_post", FALSE, TRUE, TRUE)}, {Record("none", FALSE, FALSE, FALSE)}}
Right == [configured |-> TRUE, failures |-> 0, right |-> TRUE]
Granted(r, stored, marked) == Authorize(r, stored, marked, Right)

\* The owner is authorized only by a request that names the owner's endpoint, and
\* what a role is granted opens none of the other's endpoints (the comments of
\* normalizeAuthorizeResource, createFamilyOAuthPublicClientCompatWrapper).
ASSUME OwnerIsNeverInferred ==
    \A r \in Requests, stored \in Stored, marked \in BOOLEAN :
        LET g == Granted(r, stored, marked)
        IN  /\ g.role = {"owner"} => Named(r.resource) = {"owner"}
            /\ g.role = {"family"} => Named(r.resource) # {"owner"}
            /\ \A e \in Endpoints : Opens(g, e) => g.role = RoleOf(e)
            /\ g.role = {"family"} => g.scopes \subseteq {"family:read"}

\* Every owner that is granted anything can use it; a family client the library
\* knows and that does not ask for the family's scope is granted a token that
\* opens nothing, where the same client recovered would have been given it.
ASSUME KnownClientMayGetNothing ==
    /\ \A r \in Requests, stored \in Stored, marked \in BOOLEAN :
            Granted(r, stored, marked).role = {"owner"} => Opens(Granted(r, stored, marked), "/my-mcp")
    /\ \E r \in Requests, stored \in Stored :
            /\ Granted(r, stored, FALSE).answer = "granted" /\ Granted(r, stored, FALSE).scopes = {}
            /\ Opens(Granted(r, {}, FALSE), "/family-mcp")

\* What a connector of the family asks for has no effect on what it is granted,
\* as long as it is well formed (validConnectorRequestedScopes).
ASSUME ConnectorScopesDoNotCount ==
    \A r \in Requests, stored \in Stored, scopes \in ScopeSets :
        IsConnector(r) /\ WellFormed(r.scopes) /\ WellFormed(scopes) /\ Named(r.resource) # {"owner"}
            => Granted(r, stored, FALSE) = Granted([r EXCEPT !.scopes = scopes], stored, FALSE)

\* What the wrappers make of a request they make of it again, and they never move
\* it to another role (normalizeAuthorizeResource, normalizeConnectorAuthorizeUrl).
ASSUME WrappersSettle ==
    \A r \in Requests :
        /\ Arriving(Arriving(r)) = Arriving(r)
        /\ Named(r.resource) # {} => Named(Arriving(r).resource) = Named(r.resource)

\* The page that refuses an owner's request has a reason exactly when there is one
\* (ownerAuthorizeDiag repeats ownerConnectorCandidate).
ASSUME DiagnosisMeansRefusal ==
    \A r \in Requests : IsOwners(r) => (OwnerCandidate(r) = (OwnerDiagnosis(r) = "none"))

\* Without the challenge of PKCE an owner is only a client with a secret of its own
\* and the mark of one known from before (ownerAuthorizationCompatible).
ASSUME ChallengeOrSecret ==
    \A r \in Requests, stored \in Stored, marked \in BOOLEAN :
        LET g == Granted(r, stored, marked)
        IN  g.role = {"owner"} /\ r.pkce = "none" => marked /\ stored # {} /\ \A s \in stored : s.secret

\* Both ways to the owner agree on every request that names the owner.
ASSUME SameOwnerAtBothServers ==
    \A r \in Requests, stored \in Stored, marked \in BOOLEAN :
        IsOwners(r) => AtOwnerServer(r, stored, marked, Right) = Granted(r, stored, marked)

\* A client taken back never replaces a record that is not its own.
ASSUME OnlyTheLostAreTakenBack ==
    \A r \in Requests, stored \in Stored :
        Lost(r, stored) => \A s \in stored : s.recovering /\ ~s.secret /\ s.same

Exchanges ==
    [path : {"/token", "/oauth/token", "other"}, grant : {"authorization_code", "refresh_token"},
     verifier : BOOLEAN, redirect : {"connector", "action"}, code : {{}, {"c"}}, client : {"opaque", "document"},
     basic : {{}, {[secret |-> ""]}, {[secret |-> "s"]}}, posted : {{}, {"p"}}, resource : Resources]

\* A code is exchanged for what it was granted for: the wrapper refuses a resource
\* it does not know, leaves out an empty password, and changes nothing else.
ASSUME ExchangeKeepsItsTarget ==
    \A t \in Exchanges :
        LET e == Exchanged(t)
        IN  /\ Named(e.resource) = Named(t.resource)
            /\ Exchanged(e) = e
            /\ e # t => IsExchange(t)
            /\ IsExchange(t) /\ t.code # {} /\ t.client = "opaque"
                => \A b \in e.basic : b.secret # ""
=============================================================================
