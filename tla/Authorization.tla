--------------------------- MODULE Authorization ---------------------------
(***************************************************************************)
(* Who is authorized for what: the way of a request to authorize or to     *)
(* exchange a code through the wrappers of the worker                      *)
(* (mcp-access-broker.ts, family-oauth-legacy-endpoints.ts,                *)
(* family-oauth-public-client-compat.ts, family-oauth-token-recovery.ts)   *)
(* to the two roles (family-oauth.ts, owner-oauth.ts), and the owner's     *)
(* server (owner-oauth-worker.ts).  How the records of clients change is   *)
(* in OAuthClients; here a request is answered over records given.         *)
(*                                                                         *)
(* A request is represented by how its parts are classified: of a client   *)
(* whether its name is one given out or a document's, of a scope its       *)
(* label.  What may be missing is a set of at most one value.  Looks,      *)
(* headers and other texts are left out.                                   *)
(***************************************************************************)
EXTENDS Integers, FiniteSets

Roles     == {"family", "owner"}
Endpoints == {"/family-mcp", "/my-mcp", "/mcp"}

\* A resource: absent, or a place on this server or elsewhere, in its canonical
\* form or with a slash behind it.
Paths     == Endpoints \cup {"/", "other", "elsewhere"}
Resources == {{}} \cup {{p} : p \in [path : Paths, slash : BOOLEAN]}

RoleOf(path) ==
    CASE path = "/family-mcp" -> {"family"}
      [] path \in {"/my-mcp", "/mcp"} -> {"owner"}
      [] OTHER -> {}
Named(resource) == UNION {RoleOf(p.path) : p \in resource}
Canonical(resource) == {[path |-> p.path, slash |-> FALSE] : p \in resource}
-----------------------------------------------------------------------------
(* The wrappers in front of both roles.                                    *)

\* What a connector of the assistant sends.
IsConnector(r) ==
    r.code /\ r.client = "opaque" /\ r.redirect = "connector" /\ r.pkce = "strict" /\ r.state

Boundary(r) == ~(IsConnector(r) /\ r.resource # {} /\ Named(r.resource) = {})

\* A connector that names no resource means the family; the owner is never meant
\* by saying nothing.
Targeted(r) ==
    IF ~IsConnector(r) \/ (r.resource # {} /\ Named(r.resource) = {}) THEN r
    ELSE [r EXCEPT !.resource = IF r.resource = {} THEN {[path |-> "/family-mcp", slash |-> FALSE]}
                                ELSE Canonical(@)]

WellFormed(scopes) == "malformed" \notin scopes

\* Of a connector of the family the scopes it asks for are replaced.
Recast(r) ==
    IF IsConnector(r) /\ WellFormed(r.scopes) /\ (r.resource = {} \/ Named(r.resource) = {"family"})
    THEN [r EXCEPT !.scopes = {"family:read"}] ELSE r

Arriving(r) == Recast(Targeted(r))
IsOwners(r) == Named(r.resource) = {"owner"}
-----------------------------------------------------------------------------
(* The owner.                                                              *)

OwnerScopes(scopes) ==
    WellFormed(scopes) /\ scopes \cap {"family:read", "owner:other"} = {}

OwnerCandidate(r) ==
    /\ r.code /\ IsOwners(r)
    /\ r.client \in {"opaque", "document"}
    /\ r.redirect = "connector" /\ r.pkce \in {"none", "strict"} /\ r.state
    /\ OwnerScopes(r.scopes)

\* The first of what is wrong, for the page that says so.
OwnerDiagnosis(r) ==
    IF ~r.code THEN "METHOD_OR_RESPONSE"
    ELSE IF r.client \notin {"opaque", "document"} THEN "CLIENT_ID"
    ELSE IF r.redirect # "connector" THEN "REDIRECT_URI"
    ELSE IF r.pkce = "malformed" THEN "PKCE"
    ELSE IF ~r.state THEN "STATE"
    ELSE IF ~OwnerScopes(r.scopes) THEN "SCOPE"
    ELSE "none"

\* A client described by a document has no record here.
Confidential == {"client_secret_basic", "client_secret_post"}
OwnerMatches(stored) ==
    /\ stored.same /\ stored.grants
    /\ IF stored.method = "none" THEN ~stored.secret ELSE stored.method \in Confidential /\ stored.secret
OwnerKnown(r, stored) == IF r.client = "document" THEN {} ELSE stored
OwnerCompatible(r, stored) == \A s \in OwnerKnown(r, stored) : OwnerMatches(s)
OwnerMayAuthorize(r, stored, marked) ==
    r.pkce = "strict" \/ \E s \in OwnerKnown(r, stored) : s.method \in Confidential /\ marked

OwnerGrant(scopes) == {"owner:full"} \cup scopes

\* attempt: whether a login is configured, the failures before, the code's truth.
Refused(why) == [answer |-> why, role |-> {}, scopes |-> {}, resource |-> {}]
LOGIN_FAIL_MAX == 5
Login(attempt) ==
    IF attempt.failures >= LOGIN_FAIL_MAX THEN "locked" ELSE IF ~attempt.right THEN "wrong_code" ELSE "granted"

AuthorizeOwner(r, stored, marked, attempt) ==
    IF ~attempt.configured THEN Refused("unconfigured")
    ELSE IF ~OwnerCandidate(r) THEN Refused(OwnerDiagnosis(r))
    ELSE IF ~OwnerCompatible(r, stored) THEN Refused("incompatible")
    ELSE IF ~OwnerMayAuthorize(r, stored, marked) THEN Refused("CLIENT_AUTH")
    ELSE IF Login(attempt) # "granted" THEN Refused(Login(attempt))
    ELSE [answer |-> "granted", role |-> {"owner"}, scopes |-> OwnerGrant(r.scopes),
          resource |-> Canonical(r.resource)]
-----------------------------------------------------------------------------
(* The family.  A client whose record was lost is taken back after the     *)
(* login; any other is looked at by the library: it accepts a client it    *)
(* knows under the redirect and the challenge it knows.                    *)

Kind(r) == r.redirect
Recoverable(r) ==
    /\ r.code /\ r.client = "opaque" /\ r.state
    /\ \A p \in r.resource : p.path # "elsewhere"
    /\ \/ Kind(r) = "connector" /\ r.pkce = "strict" /\ WellFormed(r.scopes)
       \/ /\ Kind(r) = "action" /\ r.pkce \in {"none", "strict"}
          /\ r.scopes \subseteq {"family:read", "offline_access"}
FamilyMatches(r, s) ==
    /\ s.same
    /\ s.method = (IF Kind(r) = "action" THEN "client_secret_post" ELSE "none")
    /\ Kind(r) = "action" => s.recovering \/ s.secret
Lost(r, stored) ==
    /\ Recoverable(r)
    /\ \A s \in stored : Kind(r) = "action" /\ s.recovering /\ ~s.secret /\ FamilyMatches(r, s)

ProviderKnows(r, stored) ==
    r.code /\ r.pkce # "malformed" /\ \E s \in stored : s.same

AuthorizeFamily(r, stored, attempt) ==
    IF ~attempt.configured THEN Refused("unconfigured")
    ELSE IF ~Lost(r, stored) /\ ~ProviderKnows(r, stored) THEN Refused("unknown_client")
    ELSE IF Login(attempt) # "granted" THEN Refused(Login(attempt))
    ELSE [answer |-> "granted", role |-> {"family"},
          scopes |-> IF Lost(r, stored) THEN {"family:read"} ELSE r.scopes \cap {"family:read"},
          resource |-> r.resource]

Authorize(r, stored, marked, attempt) ==
    LET s == Arriving(r)
    IN  IF ~Boundary(r) THEN Refused("invalid_oauth_resource")
        ELSE IF IsOwners(s) THEN AuthorizeOwner(s, stored, marked, attempt)
        ELSE AuthorizeFamily(s, stored, attempt)

\* The owner's own server passes on only what names the owner's resource.
AtOwnerServer(r, stored, marked, attempt) ==
    IF ~IsOwners(r) THEN Refused("invalid_target") ELSE AuthorizeOwner(r, stored, marked, attempt)

\* A branch of it under test answers by itself.
Staged(r, right) ==
    IF ~right THEN Refused("wrong_code")
    ELSE [answer |-> "granted", role |-> {"owner"},
          scopes |-> OwnerGrant(r.scopes \cap {"mcp:tools", "offline_access"}), resource |-> r.resource]
-----------------------------------------------------------------------------
(* Exchanges of a code, and what a token opens.                            *)

TokenPath(path) == IF path = "/token" THEN "/oauth/token" ELSE path
IsExchange(t) ==
    TokenPath(t.path) = "/oauth/token" /\ t.grant = "authorization_code" /\ t.verifier /\ t.redirect = "connector"
TokenRefused(t) == IsExchange(t) /\ t.resource # {} /\ Named(t.resource) = {}

\* An empty password is none; basic is the way the client names itself by header.
Exchanged(t) ==
    LET public == [t EXCEPT !.basic = IF \E b \in @ : b.secret = "" THEN {} ELSE @,
                            !.posted = IF \E b \in t.basic : b.secret = "" THEN {""} ELSE @]
    IN  IF ~IsExchange(t) \/ t.code = {} \/ t.client # "opaque" THEN t
        ELSE [public EXCEPT !.resource = IF Named(@) = {} THEN @ ELSE Canonical(@)]

OwnerTokenTarget(t) ==
    TokenPath(t.path) # "/oauth/token" \/ t.resource = {} \/ Named(t.resource) = {"owner"}

Needed(endpoint) == IF endpoint = "/family-mcp" THEN "family:read" ELSE "owner:full"
Opens(token, endpoint) ==
    /\ token.role = RoleOf(endpoint)
    /\ Needed(endpoint) \in token.scopes

\* What each endpoint says of itself, and where its tokens come from.
Metadata(endpoint) ==
    [resource |-> endpoint, scopes |-> {Needed(endpoint)},
     server |-> IF RoleOf(endpoint) = {"family"} THEN "here" ELSE "owner"]
Advertised(scopes) == scopes \cup {"family:read", "owner:full", "offline_access"}
OwnerAdvertised(scopes) == scopes \cup {"owner:full", "mcp:tools", "offline_access"}
=============================================================================
