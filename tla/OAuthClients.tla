---------------------------- MODULE OAuthClients ----------------------------
(***************************************************************************)
(* The record of one OAuth client in the key-value store: an authorization *)
(* restores a lost record (family-oauth.ts, owner-oauth.ts), and a token   *)
(* exchange completes it with the secret the client has kept               *)
(* (family-oauth-token-recovery.ts for connectors, family-oauth.ts for     *)
(* Custom GPT actions), taking that back when the provider refuses.        *)
(*                                                                         *)
(* Requests overlap, and every get, put and delete is a step: the store    *)
(* has no compare-and-swap.  Reads return the latest write.  The provider  *)
(* library is external: it is modelled by what this code needs of it.      *)
(***************************************************************************)
EXTENDS Naturals, FiniteSets

CONSTANTS
    Handlers,    \* requests that may be served at a time
    Codes,       \* names for authorization codes, used again when forgotten
    Situations,  \* [kind, presents, client]: the kind of client, how it
                 \* authenticates, and the record a deployment finds
    NoClient, NoCode,
    LoginFailMax, \* wrong login codes after which a person is locked out
    MaxWrong,    \* bound: wrong login codes
    MaxExtra,    \* bound: requests begun before an earlier one has ended
    MaxFaults    \* bound: requests that throw or are evicted

Kinds   == {"connector", "action", "owner"}
Methods == {"none", "post", "basic"}
Records == [secret : BOOLEAN,        \* holds the hash of the client's secret
            method : Methods,        \* tokenEndpointAuthMethod
            mark   : {"plain", "gpt_action", "connector"},    \* recoveryKind
            name   : {"family", "owner", "registered"}]       \* clientName

\* An action is a client that keeps a secret, whatever its record has lost.
ASSUME OAuthAssumption ==
    /\ NoClient \notin Records /\ NoCode \notin Codes
    /\ IsFiniteSet(Codes) /\ IsFiniteSet(Handlers)
    /\ \A s \in Situations : /\ s.kind \in Kinds /\ s.presents \in Methods
                             /\ s.client \in Records \cup {NoClient}
                             /\ s.kind = "action" => s.presents # "none"
    /\ LoginFailMax \in Nat \ {0}
    /\ MaxWrong \in Nat /\ MaxExtra \in Nat /\ MaxFaults \in Nat

VARIABLES
    kind, presents,  \* the client: its kind, and how it authenticates
    client,    \* client:<id> in the store
    pending,   \* the code of the pending action bootstrap
    failures,  \* the counter of failed logins
    grant,     \* grant[c]: what the provider knows of code c
    held,      \* the code the client was redirected with
    pc,        \* where each request is
    mem,       \* what it knows
    served,    \* a token has been issued
    wrong, extra, faults, evictions

store == <<client, pending, failures, grant>>
world == <<kind, presents, held, wrong, extra, faults, evictions>>
vars  == <<kind, presents, client, pending, failures, grant, held, pc, mem, served,
           wrong, extra, faults, evictions>>

\* What a request knows when it begins.
Blank(c, r, quiet) ==
    [code    |-> c,         \* the code it exchanges or has made
     read    |-> 0,         \* the failures it read
     missing |-> FALSE,     \* it found a record to recover
     created |-> FALSE,     \* it has put the record
     saved   |-> NoClient,  \* the record to put back if the exchange fails
     before  |-> r,         \* the record when it began
     alone   |-> quiet]     \* no other request has overlapped it

Nothing == Blank(NoCode, NoClient, TRUE)

Learned(h, where, m) == pc' = [pc EXCEPT ![h] = where] /\ mem' = [mem EXCEPT ![h] = m]

Go(h, where) == pc' = [pc EXCEPT ![h] = where] /\ UNCHANGED mem

Finish(h) == Learned(h, "idle", Nothing)

(***************************************************************************)
(* Requests come in.                                                       *)
(***************************************************************************)

Quiet == \A h \in Handlers : pc[h] = "idle"

Begin(h, where, c) ==
    /\ pc[h] = "idle"
    /\ pc' = [pc EXCEPT ![h] = where]
    /\ mem' = [g \in Handlers |-> CASE g = h -> Blank(c, client, Quiet)
                                   [] g # h /\ pc[g] # "idle" -> [mem[g] EXCEPT !.alone = FALSE]
                                   [] OTHER -> mem[g]]
    /\ UNCHANGED <<kind, presents, store, served, wrong, faults, evictions>>

\* The person submits the login form: a new attempt when the last has come to
\* nothing, or, MaxExtra times, before it has.
SubmitLogin(h) ==
    /\ \/ Quiet /\ held = NoCode /\ UNCHANGED extra
       \/ ~(Quiet /\ held = NoCode) /\ extra < MaxExtra /\ extra' = extra + 1
    /\ Begin(h, "lookup", NoCode)
    /\ UNCHANGED held

\* The client exchanges the code it was redirected with; it may send the
\* exchange again.
SubmitExchange(h) ==
    /\ held # NoCode
    /\ \/ held' = NoCode /\ UNCHANGED extra
       \/ extra < MaxExtra /\ extra' = extra + 1 /\ UNCHANGED held
    /\ Begin(h, CASE kind = "connector" -> "grant" [] kind = "action" -> "pending"
                  [] OTHER -> "provider", held)

(***************************************************************************)
(* Authorization: handleAuthorize and handleOwnerAuthorize, POST.          *)
(***************************************************************************)

\* Mutant of Missing: an action that has not got its secret counts as known.
MissingRecord(r) == r = NoClient

\* missingRecoverableChatGptClient: no record, or an action's without secret.
Missing(r) == r = NoClient \/ (kind = "action" /\ r.mark = "gpt_action" /\ ~r.secret)

\* storedClientMatches, ownerClientMatches
Matches(r) ==
    CASE kind = "connector" -> r.method = "none"
      [] kind = "action" -> r.method = "post" /\ (r.mark = "gpt_action" \/ r.secret)
      [] OTHER -> r.secret <=> r.method # "none"

\* registerRecoveredChatGptClient, registerOwnerClient
Fresh == [secret |-> FALSE,
          method |-> IF kind = "action" THEN "post" ELSE "none",
          mark   |-> IF kind = "action" THEN "gpt_action" ELSE "plain",
          name   |-> IF kind = "owner" THEN "owner" ELSE "family"]

Lookup(h) ==
    /\ pc[h] = "lookup"
    /\ IF kind = "owner" /\ client # NoClient /\ ~Matches(client)
       THEN Finish(h)
       ELSE Learned(h, "counter", [mem[h] EXCEPT !.missing = Missing(client)])
    /\ UNCHANGED <<world, store, served>>

\* A person with too many wrong codes is turned away.
ReadFailures(h) ==
    /\ pc[h] = "counter"
    /\ IF failures >= LoginFailMax
       THEN Finish(h)
       ELSE Learned(h, "login", [mem[h] EXCEPT !.read = failures])
    /\ UNCHANGED <<world, store, served>>

\* Mutant of WrongCode: the person is locked out by the first mistake.
WrongCodeLocks(h) ==
    /\ pc[h] = "login" /\ wrong < MaxWrong
    /\ failures' = LoginFailMax /\ wrong' = wrong + 1
    /\ Finish(h)
    /\ UNCHANGED <<kind, presents, held, extra, faults, evictions, client, pending, grant, served>>

\* validateLoginSecret, validateOwnerSecret: the counter is written from what
\* was read.
WrongCode(h) ==
    /\ pc[h] = "login" /\ wrong < MaxWrong
    /\ failures' = mem[h].read + 1 /\ wrong' = wrong + 1
    /\ Finish(h)
    /\ UNCHANGED <<kind, presents, held, extra, faults, evictions, client, pending, grant, served>>

RightCode(h) ==
    /\ pc[h] = "login"
    /\ failures' = 0
    /\ Go(h, IF mem[h].missing \/ kind = "owner" THEN "register" ELSE "complete")
    /\ UNCHANGED <<world, client, pending, grant, served>>

\* The record is looked up again; an incompatible one is never replaced.
Register(h) ==
    /\ pc[h] = "register"
    /\ IF client = NoClient THEN Go(h, "create")
       ELSE IF Matches(client) THEN Go(h, "complete") ELSE Finish(h)
    /\ UNCHANGED <<world, store, served>>

Create(h) ==
    /\ pc[h] = "create"
    /\ client' = Fresh
    /\ Learned(h, "complete", [mem[h] EXCEPT !.created = TRUE])
    /\ UNCHANGED <<world, pending, failures, grant, served>>

\* The provider makes a code for a client it knows.
Complete(h) ==
    /\ pc[h] = "complete" /\ client # NoClient
    /\ \E c \in Codes :
         /\ grant[c] = "free"
         /\ grant' = [grant EXCEPT ![c] = "open"]
         /\ IF kind = "action" /\ mem[h].missing
            THEN Learned(h, "remember", [mem[h] EXCEPT !.code = c]) /\ UNCHANGED held
            ELSE Finish(h) /\ held' = c
    /\ UNCHANGED <<kind, presents, wrong, extra, faults, evictions, client, pending, failures, served>>

\* The pending bootstrap of an action, and the redirect.
Remember(h) ==
    /\ pc[h] = "remember"
    /\ pending' = mem[h].code /\ held' = mem[h].code
    /\ Finish(h)
    /\ UNCHANGED <<kind, presents, wrong, extra, faults, evictions, client, failures, grant, served>>

\* Mutant of TakesBack: the record goes, whoever has made it.
TakesBackAlways(h) == TRUE

\* A family authorization that recovered, an owner's that created the record.
TakesBack(h) == IF kind = "owner" THEN mem[h].created ELSE mem[h].missing

\* completeAuthorization throws, also when the record has gone meanwhile, or the
\* put of the pending bootstrap does.
CompleteThrows(h) ==
    /\ pc[h] \in {"complete", "remember"}
    /\ IF pc[h] = "complete" /\ client = NoClient THEN UNCHANGED faults
       ELSE faults + evictions < MaxFaults /\ faults' = faults + 1
    /\ IF TakesBack(h) THEN Go(h, "undo") ELSE Finish(h)
    /\ UNCHANGED <<kind, presents, held, wrong, extra, evictions, store, served>>

Undo(h) ==
    /\ pc[h] = "undo"
    /\ client' = NoClient
    /\ pending' = IF kind = "action" THEN NoCode ELSE pending
    /\ Finish(h)
    /\ UNCHANGED <<world, failures, grant, served>>

(***************************************************************************)
(* Token exchange.                                                         *)
(***************************************************************************)

\* validateFamilyAuthorizationCode: the wrapper reads the grant.
ReadGrant(h) ==
    /\ pc[h] = "grant"
    /\ Go(h, IF grant[mem[h].code] = "open" THEN "learn" ELSE "provider")
    /\ UNCHANGED <<world, store, served>>

\* prepareActionSecretBootstrap: it reads the pending bootstrap.
ReadPending(h) ==
    /\ pc[h] = "pending"
    /\ Go(h, IF pending = mem[h].code THEN "learn" ELSE "provider")
    /\ UNCHANGED <<world, store, served>>

\* The record lacks the secret, or names another way to present it.
Learns(r) ==
    /\ r # NoClient
    /\ CASE kind = "action" -> r.mark = "gpt_action" /\ ~r.secret
         [] OTHER -> /\ r.name = "family" /\ presents # "none"
                     /\ IF r.secret THEN r.method # presents \/ r.mark # "connector"
                        ELSE r.method = "none"

Learn(h) ==
    /\ pc[h] = "learn"
    /\ IF Learns(client)
       THEN Learned(h, "write", [mem[h] EXCEPT !.saved = client]) ELSE Go(h, "provider")
    /\ UNCHANGED <<world, store, served>>

\* The record it read, with the secret.  Reading and writing are two steps.
Write(h) ==
    /\ pc[h] = "write"
    /\ client' = [mem[h].saved EXCEPT !.secret = TRUE, !.method = presents,
                                  !.mark = IF kind = "action" THEN "plain" ELSE "connector"]
    /\ Go(h, "prepared")
    /\ UNCHANGED <<world, pending, failures, grant, served>>

\* What the provider asks of the record.
Proves(r) == r # NoClient /\ r.method = presents /\ (r.secret <=> presents # "none")

AtProvider(h) == pc[h] \in {"provider", "prepared"}

\* The provider knows the client and the code, and issues a token.
Issue(h) ==
    /\ AtProvider(h)
    /\ Proves(client) /\ grant[mem[h].code] = "open"
    /\ grant' = [grant EXCEPT ![mem[h].code] = "used"]
    /\ served' = TRUE
    /\ IF pc[h] = "prepared" /\ kind = "action"
       THEN Go(h, "clear") ELSE Finish(h)
    /\ UNCHANGED <<world, client, pending, failures>>

Clear(h) ==
    /\ pc[h] = "clear"
    /\ pending' = NoCode
    /\ Finish(h)
    /\ UNCHANGED <<world, client, failures, grant, served>>

\* Mutant of RollsBack: a refusal is passed on and nothing more is done.
RollsBackNever(h) == FALSE

\* A record the exchange has changed is put back.
RollsBack(h) == pc[h] = "prepared"

\* The provider refuses, or throws.
Refuse(h) ==
    /\ AtProvider(h)
    /\ IF ~Proves(client) \/ grant[mem[h].code] # "open" THEN UNCHANGED faults
       ELSE faults + evictions < MaxFaults /\ faults' = faults + 1
    /\ IF RollsBack(h) THEN Go(h, "rollback") ELSE Finish(h)
    /\ UNCHANGED <<kind, presents, held, wrong, extra, evictions, store, served>>

Rollback(h) ==
    /\ pc[h] = "rollback"
    /\ client' = mem[h].saved
    /\ Finish(h)
    /\ UNCHANGED <<world, pending, failures, grant, served>>

(***************************************************************************)
(* Around the requests.                                                    *)
(***************************************************************************)

\* Any store call throws, or the isolate is dropped.  The rollback swallows a
\* failing put.
Evict(h) ==
    /\ pc[h] # "idle" /\ faults + evictions < MaxFaults
    /\ evictions' = evictions + 1
    /\ Finish(h)
    /\ UNCHANGED <<kind, presents, held, wrong, extra, faults, store, served>>

\* The client or a request still has code c.
InUse(c) == held = c \/ \E h \in Handlers : pc[h] # "idle" /\ mem[h].code = c

\* Entries expire: the counter, and the pending bootstrap.  That a client takes
\* longer than the bootstrap lives is a fault.
Expire ==
    /\ \/ failures > 0 /\ failures' = 0 /\ UNCHANGED <<pending, faults>>
       \/ /\ pending # NoCode /\ pending' = NoCode /\ UNCHANGED failures
          /\ IF InUse(pending) THEN faults + evictions < MaxFaults /\ faults' = faults + 1
             ELSE UNCHANGED faults
    /\ UNCHANGED <<kind, presents, held, wrong, extra, evictions, client, grant, pc, mem, served>>

\* A code that nobody holds is forgotten.
Forget(c) ==
    /\ grant[c] # "free" /\ pending # c /\ ~InUse(c)
    /\ grant' = [grant EXCEPT ![c] = "free"]
    /\ UNCHANGED <<world, client, pending, failures, pc, mem, served>>

(***************************************************************************)
(* Specification.                                                          *)
(***************************************************************************)

Init ==
    /\ \E s \in Situations : kind = s.kind /\ presents = s.presents /\ client = s.client
    /\ pending = NoCode /\ held = NoCode /\ failures = 0
    /\ grant = [c \in Codes |-> "free"]
    /\ pc = [h \in Handlers |-> "idle"]
    /\ mem = [h \in Handlers |-> Nothing]
    /\ served = FALSE
    /\ wrong = 0 /\ extra = 0 /\ faults = 0 /\ evictions = 0

Step(h) ==
    \/ Lookup(h) \/ ReadFailures(h) \/ WrongCode(h) \/ RightCode(h)
    \/ Register(h) \/ Create(h) \/ Complete(h) \/ CompleteThrows(h) \/ Remember(h) \/ Undo(h)
    \/ ReadGrant(h) \/ ReadPending(h) \/ Learn(h) \/ Write(h)
    \/ Issue(h) \/ Clear(h) \/ Refuse(h) \/ Rollback(h)

Next ==
    \/ \E h \in Handlers : SubmitLogin(h) \/ SubmitExchange(h) \/ Step(h) \/ Evict(h)
    \/ Expire
    \/ \E c \in Codes : Forget(c)

Spec == Init /\ [][Next]_vars

\* Requests are served, a person whose attempt failed tries again, a client
\* exchanges its code, and entries expire.
FairSpec ==
    /\ Spec
    /\ \A h \in Handlers : WF_vars(Step(h))
    /\ WF_vars(\E h \in Handlers : SubmitLogin(h))
    /\ WF_vars(\E h \in Handlers : SubmitExchange(h))
    /\ WF_vars(Expire)
    /\ \A c \in Codes : WF_vars(Forget(c))

(***************************************************************************)
(* Properties.                                                             *)
(***************************************************************************)

\* A token exchange is under way.
Exchanging(h) ==
    pc[h] \in {"grant", "pending", "learn", "write", "provider", "prepared", "clear", "rollback"}

TypeOK ==
    /\ kind \in Kinds /\ presents \in Methods /\ (kind = "action" => presents # "none")
    /\ client \in Records \cup {NoClient}
    /\ pending \in Codes \cup {NoCode} /\ held \in Codes \cup {NoCode}
    /\ failures \in 0..LoginFailMax
    /\ grant \in [Codes -> {"free", "open", "used"}]
    /\ pc \in [Handlers -> {"idle", "lookup", "counter", "login", "register", "create",
                  "complete", "remember", "undo", "grant", "pending", "learn", "write",
                  "provider", "prepared", "clear", "rollback"}]
    /\ mem \in [Handlers ->
          [code : Codes \cup {NoCode}, read : 0..(LoginFailMax - 1), missing : BOOLEAN,
           created : BOOLEAN, saved : Records \cup {NoClient},
           before : Records \cup {NoClient}, alone : BOOLEAN]]
    /\ \A h \in Handlers : /\ Exchanging(h) => mem[h].code \in Codes
                           /\ pc[h] \in {"write", "prepared", "rollback"} => mem[h].saved # NoClient
    /\ served \in BOOLEAN
    /\ wrong \in 0..MaxWrong /\ extra \in 0..MaxExtra /\ faults \in Nat /\ evictions \in Nat

\* A person is locked out only after LoginFailMax wrong codes, however requests
\* overlap and whichever of their writes to the counter is the last.
LockIsEarned == failures >= LoginFailMax => wrong >= LoginFailMax

\* Each wrong code moves the counter by one at most, also in what a request
\* has read of it and will write back.
MistakesAreCounted == failures <= wrong /\ \A h \in Handlers : mem[h].read <= wrong

\* The request works on the record it began with, and an exchange has that one
\* to put back.
OnItsRecord(h) ==
    /\ pc[h] \in {"grant", "pending", "learn", "write", "provider"} => client = mem[h].before
    /\ pc[h] \in {"write", "prepared", "rollback"} => mem[h].saved = mem[h].before

\* A request that no other has overlapped is on its own.
AloneOnItsRecord ==
    \A h \in Handlers : mem[h].alone /\ pc[h] # "idle" =>
        OnItsRecord(h) /\ \A g \in Handlers \ {h} : pc[g] = "idle"

\* The records are well formed, nobody is locked out by others' luck, and a
\* request nobody interferes with is not disturbed (handleAuthorizePost,
\* createFamilyOAuthTokenRecoveryWrapper).
ClientsInv == TypeOK /\ LockIsEarned /\ MistakesAreCounted /\ AloneOnItsRecord

\* The record holds the client's secret, if it has one.
Known(r) == r # NoClient /\ (r.secret <=> presents # "none")

\* Recovery is for lost records: once the record knows the client and no request
\* is under way, it knows the client for ever after, not only in the end but at
\* every moment, however requests then overlap, are refused, throw or are cut off.
SettledClientIsKept == [](Quiet /\ Known(client) => []Known(client))

\* An exchange that overlaps no other request and is refused leaves the record
\* as it found it, whatever it has learned on the way.
RefusalLeavesRecord ==
    [][\A h \in Handlers :
         mem[h].alone /\ pc[h] \in {"provider", "prepared", "rollback"} /\ pc'[h] = "idle"
           /\ served' = served /\ grant' = grant /\ evictions' = evictions
         => client' = mem[h].before]_vars

\* A client whose record was lost, is secretless or was left by a request that
\* was cut off gets a token in the end, if its person knows the login code.
EventuallyConnected == <>served
=============================================================================
