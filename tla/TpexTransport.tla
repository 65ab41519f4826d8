--------------------------- MODULE TpexTransport ---------------------------
(***************************************************************************)
(* Where the rows of the TPEx come from.  Capture lanes ask for the rows   *)
(* of one trade date (captureOfficialLayers) and take the first transport  *)
(* that can prove them: the open-data interface, the relay branch, the     *)
(* official web, its legacy page (tpex-cloudflare-transport.ts).  The      *)
(* relay branch is written by scheduled workflows.  Lanes overlap in one   *)
(* isolate and share the variable that holds the requested date.           *)
(***************************************************************************)
EXTENDS Naturals

CONSTANTS
    Lanes, Target,  \* the capture lanes, Target[l] the trade date of each
    Selected,       \* Selected[l]: the layers a lane is to capture
    Today,          \* the newest trade date; the earlier ones are 1 .. Today - 1
    Exact,          \* datasets every row of which must prove its date
    Lending,        \* datasets of the lending layer: its balances, its volumes
    Undated,        \* bound: sources that may leave rows without a date
    Reachable,      \* may the worker reach the TPEx at all
    MaxVersion,     \* bound: contents a relay file takes
    MaxFaults       \* bound: failures of a relay fetch or a relay workflow

Days     == 1 .. Today
NoDay    == 0
Datasets == Exact \cup Lending
Layers   == Exact \cup {"sbl"}
Jobs     == {"official", "historical", "watchdog"}

ASSUME TransportAssumption ==
    /\ Today \in Nat \ {0, 1} /\ Target \in [Lanes -> Days]
    /\ Selected \in [Lanes -> SUBSET Layers]
    /\ Exact \subseteq {"institutional", "margin"}
    /\ "sbl_balance" \in Lending /\ Lending \subseteq {"sbl_balance", "sbl_volume"}
    /\ Undated \subseteq {"openapi", "legacy"} /\ Reachable \in BOOLEAN
    /\ MaxVersion \in Nat \ {0} /\ MaxFaults \in Nat

VARIABLES
    web,      \* the newest date the official web has published
    api,      \* the newest the open-data interface answers with
    relay,    \* relay[d][s]: version of the file and its manifest entry, 0: none
    latest,   \* latest.json
    job,      \* job[j]: where each workflow is, and the tree it has built
    context,  \* requestedTradeDate of the isolate
    stage,    \* stage[l]: idle, exact or sbl
    call,     \* call[l][s]: the transport a lane is trying
    stored,   \* stored[l][y]: rows of a READY layer; {} while it is due
    faults

external == <<web, api>>
branch   == <<relay, latest, job>>
vars     == <<web, api, relay, latest, job, context, stage, call, stored, faults>>

(***************************************************************************)
(* Bodies: two rows, each with the date it carries and the date it is of.  *)
(***************************************************************************)

Row(stamp, of) == [stamp |-> stamp, of |-> of]
Body(r, q)     == [first |-> r, rest |-> q]
NoBody         == Body(Row(NoDay, NoDay), Row(NoDay, NoDay))
RowsOf(b)      == {b.first, b.rest}
Stamped(d)     == Body(Row(d, d), Row(d, d))

\* firstPayloadDate, sourceDate
FirstDate(b) == IF b.first.stamp # NoDay THEN b.first.stamp ELSE b.rest.stamp

\* requireRequestedDate: a body that carries no date passes.
RequestedDate(b, d) == FirstDate(b) \in {NoDay, d}

\* requireEveryRowRequestedDate
EveryRowDated(b, d) == \A r \in RowsOf(b) : r.stamp = d

\* A row of date d: dated, or not where the source may leave that out.
RowsFrom(source, d) == {Row(d, d)} \cup (IF source \in Undated THEN {Row(NoDay, d)} ELSE {})

\* The open-data interface: its newest rows, some of the date before among them.
OpenApi ==
    {Body(r, q) : r, q \in UNION {RowsFrom("openapi", d) : d \in {api - 1, api} \cap Days}}

\* The modern page, asked for d: [root, table] and the rows of the table.
Modern(d) ==
    {[root |-> r, table |-> t, of |-> IF t = NoDay THEN r ELSE t] :
        r \in {web, d}, t \in {NoDay, web}} \ {[root |-> d, table |-> NoDay, of |-> n] : n \in web + 1 .. d}

\* The legacy page, asked for d: the rows of d, or its newest ones.
Legacy(d) == {Body(r, r) : r \in RowsFrom("legacy", IF d <= web THEN d ELSE web)}

(***************************************************************************)
(* Trying the transports.                                                  *)
(***************************************************************************)

\* Where a call is, the date it asks for, the version the manifest promised,
\* the body it ends with.
Call(at, want, version, body) ==
    [at |-> at, want |-> want, version |-> version, body |-> body]
Idle == Call("idle", NoDay, 0, NoBody)

Moved(l, s, c)  == call' = [call EXCEPT ![l][s] = c]
Fails(l, s)     == Moved(l, s, Call("failed", NoDay, 0, NoBody))
Goes(l, s, at)  == IF at = "failed" THEN Fails(l, s)
                   ELSE Moved(l, s, Call(at, call[l][s].want, 0, NoBody))
\* The volumes are joined to the balances by symbol, whatever they are of.
Gets(l, s, b)   == Moved(l, s, Call("got", NoDay, 0, IF s = "sbl_volume" THEN NoBody ELSE b))
Elsewhere       == UNCHANGED <<external, branch, context, stage, stored>>

\* The guards a direct answer passes: getTpexInstitutionalPayload and
\* getTpexMarginPayload, getTpexJson.
DirectIsGood(s, b, d) ==
    IF s \in Exact THEN EveryRowDated(b, d) ELSE d = NoDay \/ RequestedDate(b, d)

Direct(l, s) ==
    /\ call[l][s].at = "direct"
    /\ \/ Goes(l, s, "manifest")      \* an error, a redirect, no rows, or not good ones
       \/ /\ Reachable
          /\ \E b \in OpenApi : DirectIsGood(s, b, call[l][s].want) /\ Gets(l, s, b)
    /\ Elsewhere /\ UNCHANGED faults

\* relayTradeDate: without a requested date, the newest the branch names.
Wanted(l, s) == IF call[l][s].want = NoDay THEN latest ELSE call[l][s].want

\* After the relay: the official web, which needs a date to ask for.
AfterRelay(l, s) == IF call[l][s].want = NoDay THEN "failed" ELSE "modern"

Fault == faults < MaxFaults /\ faults' = faults + 1

\* getRelayDataset, latest.json and manifest
ReadManifest(l, s) ==
    /\ call[l][s].at = "manifest"
    /\ LET d == Wanted(l, s) IN
       \/ /\ d # NoDay /\ relay[d][s] # 0
          /\ Moved(l, s, [call[l][s] EXCEPT !.at = "payload", !.version = relay[d][s],
                                            !.body = Stamped(d)])
          /\ UNCHANGED faults
       \/ /\ d = NoDay \/ relay[d][s] = 0
          /\ Goes(l, s, AfterRelay(l, s)) /\ UNCHANGED faults
       \/ Fault /\ Goes(l, s, AfterRelay(l, s))
    /\ Elsewhere

\* getRelayDataset, the file: its sha256 is the manifest's, or it is refused.
ReadPayload(l, s) ==
    /\ call[l][s].at = "payload"
    /\ LET c == call[l][s] IN
       \/ /\ relay[FirstDate(c.body)][s] = c.version
          /\ Gets(l, s, c.body) /\ UNCHANGED faults
       \/ /\ relay[FirstDate(c.body)][s] # c.version
          /\ Goes(l, s, AfterRelay(l, s)) /\ UNCHANGED faults
       \/ Fault /\ Goes(l, s, AfterRelay(l, s))
    /\ Elsewhere

\* modernExactDateRows
ModernIsExact(m, d) == m.root = d /\ m.table \in {NoDay, d}

\* Mutant of LegacyIsGood: old rows are taken for the rows asked for.
LegacyIsTaken(s, b, d) == TRUE

\* getExactRelayOrOfficialWeb asks the page for its own date,
\* getLegacyOfficialWebSblDataset does not.
LegacyIsGood(s, b, d) == s \in Exact => FirstDate(b) = d

\* The rows of a page, stamped with the date asked for.
Stamp(d, b) == Body(Row(d, b.first.of), Row(d, b.rest.of))

\* The modern page is the answer when it proves the date; when it answers with
\* another, or with no rows, the call fails (isModernSblSemanticError); when it
\* cannot be reached, the legacy page is asked.
ReadModern(l, s) ==
    /\ call[l][s].at = "modern" /\ Reachable
    /\ \/ \E m \in Modern(call[l][s].want) :
            /\ ModernIsExact(m, call[l][s].want)
            /\ Gets(l, s, Stamp(call[l][s].want, Body(Row(m.table, m.of), Row(m.table, m.of))))
       \/ Fails(l, s)
    /\ Elsewhere /\ UNCHANGED faults

ReadLegacy(l, s) ==
    /\ call[l][s].at = "modern"
    /\ \/ Fails(l, s)
       \/ /\ Reachable
          /\ \E b \in Legacy(call[l][s].want) :
                LegacyIsGood(s, b, call[l][s].want) /\ Gets(l, s, Stamp(call[l][s].want, b))
    /\ Elsewhere /\ UNCHANGED faults

(***************************************************************************)
(* A lane: captureOfficialLayers.                                          *)
(***************************************************************************)

Due(l) == {y \in Selected[l] : stored[l][y] = {}}

\* A wake of the lane; its dispatch sets the requested date first.
Wake(l) ==
    /\ stage[l] = "idle" /\ Due(l) # {}
    /\ context' = Target[l]
    /\ stage' = [stage EXCEPT ![l] = "exact"]
    /\ call' = [call EXCEPT ![l] = [s \in Datasets |->
                    IF s \in Due(l) THEN Call("direct", Target[l], 0, NoBody) ELSE Idle]]
    /\ UNCHANGED <<external, branch, stored, faults>>

Ended(l, s) == call[l][s].at \in {"got", "failed", "idle"}

\* The layers of the exact datasets are done; the two lending datasets are
\* asked for at once, with the date the isolate holds now.
AskLending(l) ==
    /\ stage[l] = "exact" /\ \A s \in Exact : Ended(l, s)
    /\ stage' = [stage EXCEPT ![l] = "sbl"]
    /\ call' = [call EXCEPT ![l] = [s \in Datasets |->
                    IF s \notin Exact /\ "sbl" \in Due(l)
                    THEN Call("direct", context, 0, NoBody) ELSE call[l][s]]]
    /\ UNCHANGED <<external, branch, context, stored, faults>>

\* The rows of a layer: the date each is labelled with, the date it is of.
Labelled(b, d) == {[label |-> IF r.stamp = NoDay THEN d ELSE r.stamp, of |-> r.of] : r \in RowsOf(b)}

\* validateDate
Valid(l, s) == call[l][s].at = "got" /\ FirstDate(call[l][s].body) = Target[l]

Needed(y) == IF y = "sbl" THEN Lending ELSE {y}

\* The rows a layer is READY with, none while it stays due.  The lending layer
\* needs both bodies; its volumes are joined by symbol.
LayerRows(l, y) ==
    LET s == IF y = "sbl" THEN "sbl_balance" ELSE y IN
    IF Valid(l, s) /\ \A t \in Needed(y) : call[l][t].at = "got"
    THEN Labelled(call[l][s].body, Target[l]) ELSE {}

\* The lane ends: ready layers are stored, the context is cleared.
Store(l) ==
    /\ stage[l] = "sbl" /\ \A s \in Datasets : Ended(l, s)
    /\ stored' = [stored EXCEPT ![l] = [y \in Layers |->
                    IF y \in Due(l) THEN LayerRows(l, y) ELSE stored[l][y]]]
    /\ stage' = [stage EXCEPT ![l] = "idle"]
    /\ context' = NoDay
    /\ call' = [call EXCEPT ![l] = [s \in Datasets |-> Idle]]
    /\ UNCHANGED <<external, branch, faults>>

(***************************************************************************)
(* The relay workflows, and the TPEx.                                      *)
(***************************************************************************)

NoTree == [d \in Days |-> [s \in Datasets |-> 0]]

\* Mutant of JobDays: the date the branch already has.
JobDaysAgain(j) ==
    CASE j = "official" -> {latest}  [] j = "historical" -> 1 .. latest - 1  [] OTHER -> Days

\* The date a workflow captures: the last weekday, the backfilled ones, and for
\* the watchdog the weekday before as well, or the one it is started for.
JobDays(j) ==
    CASE j = "official" -> {Today}  [] j = "historical" -> 1 .. latest - 1  [] OTHER -> Days

\* Mutant of LoadBranch: the workflows are not in one concurrency group.
LoadBranchAnyTime(j) ==
    /\ job[j].at = "idle"
    /\ job' = [job EXCEPT ![j] = [at |-> "loaded", tree |-> relay]]
    /\ UNCHANGED <<external, relay, latest, context, stage, call, stored, faults>>

\* A run begins with a copy of the branch; the group runs one at a time.
LoadBranch(j) ==
    /\ \A i \in Jobs : job[i].at = "idle"
    /\ job' = [job EXCEPT ![j] = [at |-> "loaded", tree |-> relay]]
    /\ UNCHANGED <<external, relay, latest, context, stage, call, stored, faults>>

Built(j, tree) == job' = [job EXCEPT ![j] = [at |-> "built", tree |-> tree]]

\* The official run adds the datasets it lacks and can prove, or some of them.
CaptureToday ==
    LET j == "official"  tree == job[j].tree IN
    /\ job[j].at = "loaded"
    /\ \E d \in JobDays(j) : \E S \in {Datasets, Exact, Lending, {}} :
        /\ S = {} <=> d > web
        /\ IF S \in {Datasets, {}} THEN UNCHANGED faults ELSE Fault
        /\ Built(j, [tree EXCEPT ![d] = [s \in Datasets |->
                        IF s \in S /\ tree[d][s] = 0 THEN 1 ELSE tree[d][s]]])
    /\ UNCHANGED <<external, relay, latest, context, stage, call, stored>>

\* All the datasets of a date are written anew.
Anew(tree, d) == [tree EXCEPT ![d] = [s \in Datasets |-> tree[d][s] + 1]]

\* The historical run writes all the datasets of a date, or has none left.
CaptureHistory ==
    LET j == "historical"  tree == job[j].tree IN
    /\ job[j].at = "loaded"
    /\ \/ Built(j, tree)
       \/ \E d \in JobDays(j) :
            /\ \A s \in Datasets : tree[d][s] < MaxVersion
            /\ Built(j, Anew(tree, d))
    /\ UNCHANGED <<external, relay, latest, context, stage, call, stored, faults>>

\* A workflow stops before it has built a tree to push.
Stops(j) == job' = [job EXCEPT ![j] = [at |-> "idle", tree |-> NoTree]]

\* The watchdog leaves a complete date as it is; for another it writes all the
\* datasets, or fails when one cannot be proved to be of that date.
CaptureWatchdog ==
    LET j == "watchdog"  tree == job[j].tree IN
    /\ job[j].at = "loaded"
    /\ \E d \in JobDays(j) :
        \/ (\A s \in Datasets : tree[d][s] # 0) /\ Built(j, tree)
        \/ /\ \E s \in Datasets : tree[d][s] = 0
           /\ IF d <= web
              THEN (\A s \in Datasets : tree[d][s] < MaxVersion) /\ Built(j, Anew(tree, d))
              ELSE Stops(j)
    /\ UNCHANGED <<external, relay, latest, context, stage, call, stored, faults>>

\* Mutant of Newest: latest.json moves whatever was captured.
NewestAlways(tree) == Today

Newest(tree) == IF \E s \in Datasets : tree[Today][s] # 0 THEN Today ELSE latest

\* The copy is laid over the newest branch, committed and pushed; latest.json
\* only moves forward.
PublishRelay(j) ==
    /\ job[j].at = "built"
    /\ LET tree == [d \in Days |-> [s \in Datasets |->
                       IF job[j].tree[d][s] # 0 THEN job[j].tree[d][s] ELSE relay[d][s]]] IN
       /\ relay' = tree
       /\ latest' = IF j = "historical" THEN latest ELSE Newest(tree)
    /\ Stops(j)
    /\ UNCHANGED <<external, context, stage, call, stored, faults>>

\* A run fails before it pushes.
JobFails(j) ==
    /\ job[j].at # "idle" /\ Fault /\ Stops(j)
    /\ UNCHANGED <<external, relay, latest, context, stage, call, stored>>

PublishWeb ==
    /\ web < Today /\ web' = web + 1
    /\ UNCHANGED <<api, branch, context, stage, call, stored, faults>>

PublishApi ==
    /\ api < web /\ api' = web
    /\ UNCHANGED <<web, branch, context, stage, call, stored, faults>>

(***************************************************************************)
(* Specification                                                           *)
(***************************************************************************)

\* Earlier dates are published and relayed; nothing is of today yet.
Init ==
    /\ web = Today - 1
    /\ api = Today - 1
    /\ relay = [d \in Days |-> [s \in Datasets |-> IF d < Today THEN 1 ELSE 0]]
    /\ latest = Today - 1
    /\ job = [j \in Jobs |-> [at |-> "idle", tree |-> NoTree]]
    /\ context = NoDay
    /\ stage = [l \in Lanes |-> "idle"]
    /\ call = [l \in Lanes |-> [s \in Datasets |-> Idle]]
    /\ stored = [l \in Lanes |-> [y \in Layers |-> {}]]
    /\ faults = 0

LaneStep(l) ==
    \/ Wake(l) \/ AskLending(l) \/ Store(l)
    \/ \E s \in Datasets : \/ Direct(l, s) \/ ReadManifest(l, s) \/ ReadPayload(l, s)
                           \/ ReadModern(l, s) \/ ReadLegacy(l, s)


Next ==
    \/ \E l \in Lanes : LaneStep(l)
    \/ \E j \in Jobs : LoadBranch(j) \/ PublishRelay(j) \/ JobFails(j)
    \/ CaptureToday \/ CaptureHistory \/ CaptureWatchdog
    \/ PublishWeb
    \/ PublishApi

Spec == Init /\ [][Next]_vars

\* Wakes and workflows are scheduled again and again, every fetch ends, and the
\* TPEx publishes a date in the end.
FairSpec ==
    /\ Spec /\ WF_vars(PublishWeb)
    /\ \A l \in Lanes : WF_vars(LaneStep(l))
    /\ SF_vars(LoadBranch("official"))
    /\ WF_vars(CaptureToday \/ CaptureHistory \/ CaptureWatchdog \/ \E j \in Jobs : PublishRelay(j))

(***************************************************************************)
(* Properties                                                              *)
(***************************************************************************)

Rows      == [stamp : Days \cup {NoDay}, of : Days]
Bodies    == [first : Rows, rest : Rows] \cup {NoBody}
CallPlace == {"idle", "direct", "manifest", "payload", "modern", "got", "failed"}
Calls     == [at : CallPlace, want : Days \cup {NoDay}, version : 0 .. MaxVersion, body : Bodies]
Trees     == [Days -> [Datasets -> 0 .. MaxVersion]]

\* Type invariant; a job, a file and a call are where they can be.
TypeOK ==
    /\ web \in Days /\ api \in 1 .. web
    /\ relay \in Trees /\ latest \in Days /\ context \in Days \cup {NoDay}
    /\ job \in [Jobs -> [at : {"idle", "loaded", "built"}, tree : Trees]]
    /\ stage \in [Lanes -> {"idle", "exact", "sbl"}]
    /\ call \in [Lanes -> [Datasets -> Calls]]
    /\ \A l \in Lanes, s \in Datasets :
        /\ call[l][s].at = "modern" => call[l][s].want # NoDay
        /\ call[l][s].at = "payload" => FirstDate(call[l][s].body) # NoDay
    /\ stored \in [Lanes -> [Layers -> SUBSET [label : Days, of : Days]]]
    /\ faults \in 0 .. MaxFaults

\* Whatever the TPEx answers, and whichever transport answered, the rows stored
\* for the institutional and margin layers of a date are that date's: none is
\* of another date, under its own label or the requested one.
ExactRowsAreOfTheDay ==
    \A l \in Lanes, y \in Exact : \A r \in stored[l][y] : r.label = Target[l] /\ r.of = Target[l]

\* The variable that holds the requested date may have been cleared or changed
\* by another lane: a lending layer is still never stored from balances whose
\* first date is another's.
LendingHasItsDay ==
    \A l \in Lanes : stored[l]["sbl"] # {} => \E r \in stored[l]["sbl"] : r.label = Target[l]

\* A file of the relay branch is never lost or replaced by an older one, though
\* each workflow lays an old copy of the whole tree over the branch.
RelayIsMonotonic ==
    [][\A d \in Days, s \in Datasets : relay[d][s] <= relay'[d][s]]_vars

\* latest.json names a date the branch has files of, so that a reader with no
\* requested date finds a manifest.
LatestIsRelayed == \E s \in Datasets : relay[latest][s] # 0

\* What a lane has in hand of an exact dataset is of its date, whoever cleared
\* or changed the variable of the isolate meanwhile.
ExactCallsKeepTheirDay ==
    \A l \in Lanes, s \in Exact :
        /\ call[l][s].at \in {"direct", "manifest", "payload", "modern"} => call[l][s].want = Target[l]
        /\ call[l][s].at \in {"payload", "got"} => call[l][s].body = Stamped(Target[l])

\* The workflows run one at a time, and the copy one lays over the branch has
\* nothing older than the branch.
CopiesAreNoOlder ==
    \A j \in Jobs : job[j].at # "idle" =>
        /\ \A i \in Jobs \ {j} : job[i].at = "idle"
        /\ \A d \in Days, s \in Datasets : relay[d][s] <= job[j].tree[d][s]

\* What is stored and relayed is of the days it is filed under, and so is what is
\* on its way there (the capture context, the relay workflows).
TransportInv ==
    TypeOK /\ LendingHasItsDay /\ LatestIsRelayed /\ ExactCallsKeepTheirDay /\ CopiesAreNoOlder

\* An institutional or margin layer is ready in the end, also when the worker can
\* never reach the TPEx itself.
ExactLayersAreReady == \A l \in Lanes : \A y \in Selected[l] \cap Exact : <>(stored[l][y] # {})

=============================================================================
