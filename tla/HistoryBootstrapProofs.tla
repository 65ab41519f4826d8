----------------------- MODULE HistoryBootstrapProofs -----------------------
(***************************************************************************)
(* Proofs about HistoryBootstrap, for any number of invocations, any       *)
(* window, calendar, prefixes and budgets.                                 *)
(*                                                                         *)
(* HistoryInv is inductive.  What a step must show is split in three: the  *)
(* types, what the repository holds (Shared), and what one invocation      *)
(* relies on (Unit).  The repository only ever moves forward (Forward), so *)
(* the invocations that do not take the step keep their parts.             *)
(***************************************************************************)
EXTENDS HistoryBootstrap, FiniteSetTheorems, WellFoundedInduction, TLAPS

Months == {Month[d] : d \in Days}

(***************************************************************************)
(* The parts of the invariant.                                             *)
(***************************************************************************)

StoredTypes ==
    /\ state \in States \cup {NoState}
    /\ manifest \in [Days -> Statuses]
    /\ files \subseteq Days \X Prefixes
    /\ progress \in [Days -> SUBSET Prefixes]
    /\ catalogue \subseteq Days
    /\ build \in [Months -> [status : {"none", "BUILDING", "FINALIZING", "READY"},
                             completed : SUBSET Prefixes, finalized : SUBSET Days]]
    /\ shard \in [Prefixes -> [Days -> Nat]]

LocalTypes ==
    /\ pc \in [Workers -> {"idle", "persist", "prepare", "promote", "capture", "catalogue",
                           "progress", "stage", "scan", "shard", "finalize"}]
    /\ mine \in [Workers -> States \cup {NoState}]
    /\ found \in [Workers -> SUBSET Prefixes]
    /\ chosen \in [Workers -> SUBSET Prefixes]
    /\ month \in [Workers -> {0} \cup Months]
    /\ dates \in [Workers -> SUBSET Days]
    /\ batch \in [Workers -> SUBSET Days]

Shared ==
    /\ StagedIsWhole /\ RowsAreOnce /\ ReadyMeansRows
    /\ state # NoState => Sound(state)
    /\ DatesAreSound /\ BuildsAreSound

Unit(w) ==
    /\ pc[w] # "idle" => mine[w] \in States /\ Sound(mine[w])
    /\ pc[w] \in {"prepare", "promote", "capture", "catalogue", "progress", "stage"} =>
         Target <= mine[w].cursor /\ mine[w].target = Target
    /\ pc[w] = "promote" => \/ manifest[mine[w].cursor] \in {"legacy", "complete"}
                            \/ mine[w].cursor \in catalogue
    /\ pc[w] \in {"catalogue", "progress", "stage"} =>
         manifest[mine[w].cursor] = "complete" \/ mine[w].cursor \in catalogue
    /\ pc[w] = "stage" => /\ {mine[w].cursor} \X found[w] \subseteq files
                          /\ chosen[w] = {} => found[w] = Prefixes
    /\ pc[w] \in {"scan", "shard", "finalize"} =>
         mine[w].cursor < Target /\ mine[w].target = Target
    /\ pc[w] \in {"shard", "finalize"} =>
         month[w] \in Months /\ dates[w] = StagedOf(month[w])
    /\ pc[w] = "shard" => found[w] # Prefixes
    /\ pc[w] = "finalize" => /\ build[month[w]].completed = Prefixes
                             /\ batch[w] \subseteq dates[w]

Parts ==
    /\ StoredTypes /\ LocalTypes /\ faults \in 0..MaxFaults
    /\ Shared
    /\ \A w \in Workers : Unit(w)

LEMMA InvIsParts == HistoryInv <=> Parts
<1>1. TypeOK <=> StoredTypes /\ LocalTypes /\ faults \in 0..MaxFaults
  BY DEF TypeOK, StoredTypes, LocalTypes, Months
<1>2. StatesAreSound /\ StagingIsSound /\ BuildingIsSound
        <=> (state # NoState => Sound(state)) /\ \A w \in Workers : Unit(w)
  BY DEF StatesAreSound, StagingIsSound, BuildingIsSound, Unit, Months
<1> QED
  BY <1>1, <1>2 DEF HistoryInv, Parts, Shared

(***************************************************************************)
(* Least, greatest and first elements.                                     *)
(***************************************************************************)

LEMMA LeastExists ==
    ASSUME NEW S \in SUBSET Nat, S # {}
    PROVE  \E x \in S : \A y \in S : x <= y
<1>1. PICK x \in S : \A y \in S : ~ (<<y, x>> \in OpToRel(<, Nat))
  BY NatLessThanWellFounded, WFMin
<1>2. \A y \in S : ~ (y < x)
  BY <1>1 DEF OpToRel
<1> QED
  BY <1>2

LEMMA LeastIsIn ==
    ASSUME NEW S \in SUBSET Nat, S # {}
    PROVE  Least(S) \in S
BY LeastExists DEF Least

LEMMA GreatestExists ==
    ASSUME NEW S \in SUBSET Nat, S # {}, NEW b \in Nat, \A x \in S : x <= b
    PROVE  \E x \in S : \A y \in S : y <= x
<1> DEFINE T == {b - x : x \in S}
<1>1. T \in SUBSET Nat /\ T # {}
  <2>1. \A x \in S : x \in Nat /\ x <= b
    OBVIOUS
  <2>2. \A x \in S : b - x \in Nat
    BY <2>1
  <2> QED
    BY <2>2
<1>2. PICK t \in T : \A u \in T : t <= u
  BY <1>1, LeastExists
<1>3. PICK x \in S : t = b - x
  OBVIOUS
<1>4. \A y \in S : y <= x
  BY <1>2, <1>3
<1> QED
  BY <1>4

\* First takes from a set of numbers, and takes something if there is something.
LEMMA FirstTakes ==
    ASSUME NEW S \in SUBSET Nat, NEW n \in Nat \ {0}
    PROVE  /\ First(S, n) \subseteq S
           /\ S # {} => First(S, n) # {}
<1>1. First(S, n) \subseteq S
  BY DEF First
<1>2. ASSUME S # {} PROVE First(S, n) # {}
  <2>1. PICK x \in S : \A y \in S : x <= y
    BY <1>2, LeastExists
  <2>2. \A y \in S : ~ (y < x)
    BY <2>1
  <2>3. Cardinality({y \in S : y < x}) = 0
    <3>1. {y \in S : y < x} = {}
      BY <2>2
    <3> QED
      BY <3>1, FS_EmptySet
  <2>4. x \in First(S, n)
    BY <2>3 DEF First
  <2> QED
    BY <2>4
<1> QED
  BY <1>1, <1>2

(***************************************************************************)
(* The repository moves forward.                                           *)
(***************************************************************************)

\* No step takes back what a date has reached, or what a month has, and none
\* catalogues a date when the staging is over.
Forward ==
    /\ \A d \in Window :
         \/ manifest'[d] = manifest[d]
         \/ manifest[d] = "partial" /\ manifest'[d] \in {"closed", "complete"}
         \/ manifest[d] = "legacy" /\ manifest'[d] = "complete"
         \/ d \in catalogue /\ manifest[d] \in {"complete", "ready"} /\ manifest'[d] = "ready"
    /\ catalogue \subseteq catalogue' /\ files \subseteq files'
    /\ AllHandled => catalogue' = catalogue
    /\ \A m \in Months : build[m].completed = Prefixes => build'[m].completed = Prefixes

LEMMA HandledStays ==
    ASSUME Forward, NEW d \in Window, Handled(d)
    PROVE  Handled(d)'
BY DEF Forward, Handled

LEMMA StagingStaysOver ==
    ASSUME Forward, AllHandled
    PROVE  AllHandled'
BY HandledStays DEF AllHandled

LEMMA SoundStays ==
    ASSUME Forward, DatesAreSound, NEW s \in States, Sound(s)
    PROVE  Sound(s)'
<1>1. \A d \in Window : d > s.cursor => Handled(d)'
  BY HandledStays DEF Sound
<1>2. ASSUME Whole PROVE Whole'
  <2>1. \A d \in catalogue : manifest[d] \in {"complete", "ready"}
    BY DEF DatesAreSound
  <2> QED
    BY <1>2, <2>1 DEF Whole, Forward
<1> QED
  BY <1>1, <1>2 DEF Sound

\* What the state and a date above the cursor say together: below the window,
\* everything is handled.
LEMMA BelowIsHandled ==
    ASSUME NEW s \in States, Sound(s), s.cursor < Target
    PROVE  AllHandled
<1>1. \A d \in Window : d > s.cursor
  BY BootstrapAssumption DEF Window, States, Days
<1> QED
  BY <1>1 DEF Sound, AllHandled

\* Invocations that do not move.
Still(w) ==
    /\ pc'[w] = pc[w] /\ mine'[w] = mine[w] /\ found'[w] = found[w]
    /\ chosen'[w] = chosen[w] /\ month'[w] = month[w] /\ dates'[w] = dates[w]
    /\ batch'[w] = batch[w]

Others(w) == \A v \in Workers \ {w} : Still(v)

LEMMA UnitStays ==
    ASSUME Parts, Forward, NEW w \in Workers, Still(w)
    PROVE  Unit(w)'
<1> USE DEF Still
<1>1. DatesAreSound /\ Unit(w)
  BY DEF Parts, Shared
<1>2. CASE pc[w] = "idle"
  BY <1>2 DEF Unit
<1>3. CASE pc[w] # "idle"
  <2>1. mine[w] \in States /\ Sound(mine[w])
    BY <1>1, <1>3 DEF Unit
  <2>2. Sound(mine[w])'
    <3>1. \A s \in States : Sound(s) => Sound(s)'
      BY <1>1, SoundStays
    <3>2. PICK s \in States : s = mine[w]
      BY <2>1
    <3>3. Sound(s)'
      BY <2>1, <3>1, <3>2
    <3> QED
      BY <3>2, <3>3 DEF Sound
  <2>3. ASSUME Target <= mine[w].cursor PROVE mine[w].cursor \in Window
    BY <2>1, <2>3, BootstrapAssumption DEF Sound, States, Days, Window
  <2>4. ASSUME pc[w] \in {"promote", "catalogue", "progress", "stage"}
        PROVE  mine[w].cursor \in Window
    BY <1>1, <2>3, <2>4 DEF Unit
  <2>5. \A d \in catalogue : manifest[d] \in {"complete", "ready"}
    BY <1>1 DEF DatesAreSound
  <2>6. pc[w] = "promote" => \/ manifest'[mine[w].cursor] \in {"legacy", "complete"}
                             \/ mine[w].cursor \in catalogue'
    BY <1>1, <2>4, <2>5 DEF Unit, Forward
  <2>7. pc[w] \in {"catalogue", "progress", "stage"} =>
           manifest'[mine[w].cursor] = "complete" \/ mine[w].cursor \in catalogue'
    BY <1>1, <2>4, <2>5 DEF Unit, Forward
  <2>8. ASSUME pc[w] \in {"shard", "finalize"}
        PROVE  dates[w] = StagedOf(month[w])'
    <3>1. AllHandled
      BY <1>1, <2>1, <2>8, BelowIsHandled DEF Unit
    <3>2. catalogue' = catalogue
      BY <3>1 DEF Forward
    <3> QED
      BY <1>1, <2>8, <3>2 DEF Unit, StagedOf
  <2>9. pc[w] = "finalize" => build'[month[w]].completed = Prefixes
    BY <1>1 DEF Unit, Forward
  <2>10. pc[w] = "stage" => {mine[w].cursor} \X found[w] \subseteq files'
    BY <1>1 DEF Unit, Forward
  <2> QED
    BY <1>1, <2>1, <2>2, <2>6, <2>7, <2>8, <2>9, <2>10 DEF Unit
<1> QED
  BY <1>2, <1>3

\* What is left to show of a step of w: the types, that the repository moves
\* forward and keeps its part, and that w may rely on what it relies on now.
LEMMA StepKeeps ==
    ASSUME Parts, NEW w \in Workers, Others(w), Forward,
           StoredTypes', LocalTypes', faults' \in 0..MaxFaults, Shared', Unit(w)'
    PROVE  Parts'
<1>1. \A v \in Workers \ {w} : Unit(v)'
  BY UnitStays DEF Others
<1> QED
  BY <1>1 DEF Parts

\* A step that only changes what w has in its hands.
LEMMA LocalStepKeeps ==
    ASSUME Parts, NEW w \in Workers, Others(w), LocalTypes', Unit(w)',
           UNCHANGED <<state, stored>>, faults' \in 0..MaxFaults
    PROVE  Parts'
<1> USE DEF stored
<1>1. Forward
  BY DEF Forward
<1>2. StoredTypes'
  BY DEF Parts, StoredTypes
<1>3. (state # NoState => Sound(state))'
  BY DEF Parts, Shared, Sound, Handled, Whole
<1>4. (StagedIsWhole /\ RowsAreOnce /\ ReadyMeansRows /\ DatesAreSound)'
  BY DEF Parts, Shared, StagedIsWhole, RowsAreOnce, ReadyMeansRows, DatesAreSound
<1>5. BuildsAreSound'
  BY DEF Parts, Shared, BuildsAreSound, AllHandled, Handled, StagedOf, NoBuild
<1> QED
  BY <1>1, <1>2, <1>3, <1>4, <1>5, StepKeeps DEF Shared
(***************************************************************************)
(* The ends of a unit.                                                     *)
(***************************************************************************)

LEMMA LeaveUnit ==
    ASSUME LocalTypes, NEW w \in Workers, Leave(w)
    PROVE  Others(w) /\ LocalTypes' /\ Unit(w)'
<1>1. Others(w) /\ pc'[w] = "idle"
  BY DEF Leave, Go, Others, Still, LocalTypes
<1>2. LocalTypes'
  BY DEF Leave, Go, LocalTypes
<1>3. Unit(w)'
  BY <1>1 DEF Unit
<1> QED
  BY <1>1, <1>2, <1>3

LEMMA WriteUnit ==
    ASSUME LocalTypes, NEW w \in Workers, NEW s \in States, Write(w, s), Sound(s)'
    PROVE  Others(w) /\ LocalTypes' /\ Unit(w)'
<1>1. Others(w) /\ pc'[w] = "persist" /\ mine'[w] = s
  BY DEF Write, Go, plan, Others, Still, LocalTypes
<1>2. LocalTypes'
  BY DEF Write, Go, plan, LocalTypes
<1>3. Sound(mine[w])'
  BY <1>1 DEF Sound
<1>4. Unit(w)'
  BY <1>1, <1>3 DEF Unit
<1> QED
  BY <1>1, <1>2, <1>4

\* The unit goes on with what it has.
LEMMA GoUnit ==
    ASSUME LocalTypes, NEW w \in Workers,
           NEW where \in {"promote", "capture", "catalogue", "progress"},
           Go(w, where), UNCHANGED <<mine, plan>>
    PROVE  /\ Others(w) /\ LocalTypes'
           /\ pc'[w] = where /\ mine' = mine
<1>1. pc' \in [Workers -> {"idle", "persist", "prepare", "promote", "capture", "catalogue",
                           "progress", "stage", "scan", "shard", "finalize"}]
  BY DEF Go, LocalTypes
<1>2. LocalTypes'
  BY <1>1 DEF plan, LocalTypes
<1>3. pc'[w] = where /\ \A v \in Workers \ {w} : pc'[v] = pc[v]
  BY DEF Go, LocalTypes
<1>4. Others(w)
  BY <1>3 DEF plan, Others, Still
<1> QED
  BY <1>2, <1>3, <1>4

LEMMA AdvancedIsState ==
    ASSUME NEW s \in States, 1 <= s.cursor
    PROVE  Advanced(s) \in States
<1>1. s.cursor \in 0..Anchor /\ Anchor \in Nat
  BY BootstrapAssumption DEF States, Days
<1>2. s.cursor - 1 \in Days
  BY <1>1 DEF Days
<1> QED
  BY <1>2 DEF Advanced, States

\* With its date dealt with, the cursor may move on.
LEMMA AdvancedIsSound ==
    ASSUME NEW s \in States, Sound(s), Target <= s.cursor, s.target = Target,
           s.cursor \in Window => Handled(s.cursor)
    PROVE  Advanced(s) \in States /\ Sound(Advanced(s))
<1> DEFINE a == Advanced(s)
<1>1. 1 <= s.cursor /\ s.cursor \in Nat
  BY BootstrapAssumption DEF States, Days
<1>2. a \in States
  BY <1>1, AdvancedIsState
<1>3. a.cursor = s.cursor - 1 /\ a.status = s.status
  BY DEF Advanced, States
<1>4. a.phase = "BUILD" => a.cursor < Target
  BY <1>3 DEF Advanced, States
<1>5. a.cursor < Anchor
  BY <1>1, <1>3, BootstrapAssumption DEF Sound
<1>6. ASSUME NEW d \in Window, d > a.cursor PROVE Handled(d)
  <2>1. d > s.cursor \/ d = s.cursor
    BY <1>1, <1>3, <1>6, BootstrapAssumption DEF Window
  <2> QED
    BY <2>1 DEF Sound
<1>7. a.status = "COMPLETE" => Whole
  BY <1>3 DEF Sound
<1> QED
  BY <1>2, <1>4, <1>5, <1>6, <1>7 DEF Sound

\* The same for a date that the step itself deals with.
LEMMA AdvancedIsSoundThen ==
    ASSUME NEW s \in States, Sound(s)', Target <= s.cursor, s.target = Target,
           Handled(s.cursor)'
    PROVE  Advanced(s) \in States /\ Sound(Advanced(s))'
<1>1. 1 <= s.cursor /\ s.cursor \in Nat
  BY BootstrapAssumption DEF States, Days
<1>2. Advanced(s) \in States
  BY <1>1, AdvancedIsState
<1>3. /\ Advanced(s).cursor = s.cursor - 1 /\ Advanced(s).status = s.status
      /\ Advanced(s).phase = "BUILD" => s.cursor - 1 < Target
  BY DEF Advanced, States
<1>4. \A d \in Window : d > s.cursor - 1 => d > s.cursor \/ d = s.cursor
  BY <1>1, BootstrapAssumption DEF Window
<1>5. s.cursor - 1 < Anchor
  BY <1>1, BootstrapAssumption DEF Sound
<1> QED
  BY <1>2, <1>3, <1>4, <1>5 DEF Sound

(***************************************************************************)
(* The initial states.                                                     *)
(***************************************************************************)

LEMMA InitIsSound == Init => Parts
<1> SUFFICES ASSUME Init PROVE Parts
  OBVIOUS
<1>1. PICK s \in Starts : state = s.state /\ manifest = s.manifest
  BY DEF Init
<1>2. state \in States \cup {NoState} /\ manifest \in [Days -> Statuses]
  BY <1>1, BootstrapAssumption
<1>3. StoredTypes
  BY <1>2, BootstrapAssumption DEF Init, StoredTypes, NoBuild, Months
<1>4. LocalTypes /\ faults \in 0..MaxFaults
  BY BootstrapAssumption DEF Init, LocalTypes
<1>5. StagedIsWhole /\ RowsAreOnce /\ ReadyMeansRows
  BY DEF Init, StagedIsWhole, RowsAreOnce, ReadyMeansRows
<1>6. DatesAreSound
  BY <1>1, BootstrapAssumption DEF Init, DatesAreSound
<1>7. BuildsAreSound
  BY DEF Init, BuildsAreSound, NoBuild, StagedOf
<1>8. ASSUME state # NoState PROVE Sound(state)
  <2>1. state \in States
    BY <1>2, <1>8
  <2>2. state.cursor < state.target => state.cursor < Target
    BY <2>1, BootstrapAssumption DEF States, Days
  <2>3. \A d \in Window : d > state.cursor => manifest[d] \in {"closed", "ready"}
    BY <1>1, <1>8, BootstrapAssumption
  <2> QED
    BY <1>1, <1>8, <2>2, <2>3, BootstrapAssumption DEF Sound, Handled
<1>9. \A w \in Workers : Unit(w)
  BY DEF Init, Unit
<1> QED
  BY <1>3, <1>4, <1>5, <1>6, <1>7, <1>8, <1>9 DEF Parts, Shared

(***************************************************************************)
(* The steps that only read.                                               *)
(***************************************************************************)

LEMMA SoundIsOfStore ==
    ASSUME NEW s \in States, Sound(s), UNCHANGED stored
    PROVE  Sound(s)'
BY DEF stored, Sound, Handled, Whole

LEMMA InitialIsSound == Initial \in States /\ Sound(Initial)
<1>1. Anchor \in Nat /\ Target \in Nat /\ 1 <= Target /\ Target <= Anchor - 1
  BY BootstrapAssumption
<1>2. Initial \in States
  BY <1>1 DEF Initial, States, Days
<1>3. Anchor - 1 < Anchor /\ \A d \in Window : ~ (d > Anchor - 1)
  BY <1>1 DEF Window
<1> QED
  BY <1>1, <1>2, <1>3 DEF Initial, Sound

LEMMA RefreshedIsSound ==
    ASSUME NEW s \in States, Sound(s)
    PROVE  Refreshed(s) \in States /\ Sound(Refreshed(s)) /\ Refreshed(s).target = Target
<1>1. s.target \in 0..Target /\ Target \in Nat /\ s.cursor \in Nat
  BY BootstrapAssumption DEF States, Days
<1>2. Max2(s.target, Target) = Target /\ Target \in 0..Target
  BY <1>1, BootstrapAssumption DEF Max2
<1>3. Refreshed(s) \in States
  BY <1>1, <1>2 DEF Refreshed, States
<1>4. /\ Refreshed(s).cursor = s.cursor /\ Refreshed(s).status = s.status
      /\ Refreshed(s).target = Target
      /\ Refreshed(s).phase = "BUILD" => s.phase = "BUILD" \/ s.cursor < s.target
  BY <1>2 DEF Refreshed, States
<1> QED
  BY <1>1, <1>3, <1>4 DEF Sound

LEMMA BeginKeeps ==
    ASSUME Parts, NEW w \in Workers, Begin(w)
    PROVE  Parts'
<1> USE DEF Parts
<1> DEFINE s == Refreshed(state)
<1>1. UNCHANGED <<state, stored>> /\ faults' \in 0..MaxFaults
  BY DEF Begin
<1>2. ASSUME NEW x \in States, Sound(x) PROVE Sound(x)'
  BY <1>1, <1>2, SoundIsOfStore
<1>3. CASE state = NoState
  BY <1>1, <1>2, <1>3, InitialIsSound, WriteUnit, LocalStepKeeps DEF Begin
<1>4. CASE state # NoState
  <2>1. state \in States /\ Sound(state)
    BY <1>4 DEF StoredTypes, Shared
  <2>2. s \in States /\ Sound(s) /\ s.target = Target
    BY <2>1, RefreshedIsSound
  <2>3. CASE state.status = "COMPLETE"
    <3>1. Others(w) /\ LocalTypes' /\ pc'[w] = "idle"
      BY <1>4, <2>3 DEF Begin, plan, Others, Still, LocalTypes
    <3>2. Unit(w)'
      BY <3>1 DEF Unit
    <3> QED
      BY <1>1, <3>1, <3>2, LocalStepKeeps
  <2>4. CASE state.status # "COMPLETE" /\ s # state
    <3>1. Write(w, s)
      BY <1>4, <2>4 DEF Begin
    <3> QED
      BY <1>1, <1>2, <2>2, <3>1, WriteUnit, LocalStepKeeps
  <2>5. CASE state.status # "COMPLETE" /\ s = state /\ (s.phase = "BUILD" \/ s.cursor >= s.target)
    <3>1. /\ Go(w, IF s.phase = "BUILD" THEN "scan" ELSE "prepare")
          /\ mine' = [mine EXCEPT ![w] = s]
          /\ UNCHANGED plan
      BY <1>4, <2>5 DEF Begin
    <3>2. /\ pc'[w] = IF s.phase = "BUILD" THEN "scan" ELSE "prepare"
          /\ mine'[w] = s
      BY <3>1 DEF Go, LocalTypes
    <3>3. LocalTypes'
      BY <2>2, <3>1 DEF Go, plan, LocalTypes
    <3>4. Others(w)
      BY <3>1 DEF Go, plan, Others, Still, LocalTypes
    <3>5. Sound(mine[w])'
      BY <1>2, <2>2, <3>2 DEF Sound
    <3>6. s.phase = "BUILD" => s.cursor < Target
      BY <2>2 DEF Sound
    <3>7. s.phase # "BUILD" => Target <= s.cursor
      BY <2>2, <2>5
    <3>8. Unit(w)'
      BY <2>2, <3>2, <3>5, <3>6, <3>7 DEF Unit
    <3> QED
      BY <1>1, <3>3, <3>4, <3>8, LocalStepKeeps
  <2>6. CASE state.status # "COMPLETE" /\ s = state /\ ~ (s.phase = "BUILD" \/ s.cursor >= s.target)
    <3> DEFINE b == [s EXCEPT !.phase = "BUILD"]
    <3>1. Write(w, b)
      BY <1>4, <2>6 DEF Begin
    <3>2. b \in States
      BY <2>2 DEF States
    <3>3. s.cursor < Target
      BY <2>2, <2>6, BootstrapAssumption DEF States, Days
    <3>4. Sound(b)
      BY <2>2, <3>3 DEF Sound, States
    <3> QED
      BY <1>1, <1>2, <3>1, <3>2, <3>4, WriteUnit, LocalStepKeeps
  <2> QED
    BY <2>3, <2>4, <2>5, <2>6
<1> QED
  BY <1>3, <1>4

LEMMA FailKeeps ==
    ASSUME Parts, NEW w \in Workers, Fail(w)
    PROVE  Parts'
<1>1. UNCHANGED <<state, stored>> /\ faults' \in 0..MaxFaults
  BY BootstrapAssumption DEF Fail, Parts
<1> QED
  BY <1>1, LeaveUnit, LocalStepKeeps DEF Fail, Parts

LEMMA PrepareKeeps ==
    ASSUME Parts, NEW w \in Workers, Prepare(w)
    PROVE  Parts'
<1> DEFINE d == mine[w].cursor
<1>1. UNCHANGED <<state, stored>> /\ faults' \in 0..MaxFaults
  BY DEF Prepare, Parts
<1>2. LocalTypes /\ Unit(w) /\ DatesAreSound
  BY DEF Parts, Shared
<1>3. mine[w] \in States /\ Sound(mine[w]) /\ Target <= d /\ mine[w].target = Target
  BY <1>2 DEF Prepare, Unit
<1>4. d \in Window
  BY <1>3, BootstrapAssumption DEF Sound, Window, States, Days
<1>5. CASE manifest[d] = "ready" /\ Write(w, Advanced(mine[w]))
  <2>1. PICK s \in States : s = mine[w]
    BY <1>3
  <2>2. Advanced(s) \in States /\ Sound(Advanced(s))
    BY <1>3, <1>5, <2>1, AdvancedIsSound DEF Handled
  <2>3. Sound(Advanced(s))'
    BY <1>1, <2>2, SoundIsOfStore
  <2>4. Write(w, Advanced(s))
    BY <1>5, <2>1
  <2> QED
    BY <1>1, <1>2, <2>2, <2>3, <2>4, WriteUnit, LocalStepKeeps
<1>6. ASSUME NEW where \in {"promote", "capture", "catalogue"},
             Go(w, where), UNCHANGED <<mine, plan>>,
             where = "catalogue" => manifest[d] = "complete",
             where = "promote" => manifest[d] = "legacy"
      PROVE  Parts'
  <2>1. Others(w) /\ LocalTypes' /\ pc'[w] = where /\ mine' = mine
    BY <1>2, <1>6, GoUnit
  <2>2. Sound(mine[w])'
    BY <1>1, <1>3, <2>1 DEF stored, Sound, Handled, Whole
  <2>3. Unit(w)'
    BY <1>1, <1>3, <1>6, <2>1, <2>2 DEF Unit, stored
  <2> QED
    BY <1>1, <2>1, <2>3, LocalStepKeeps
<1> QED
  BY <1>5, <1>6 DEF Prepare

LEMMA ReadCatalogueKeeps ==
    ASSUME Parts, NEW w \in Workers, ReadCatalogue(w)
    PROVE  Parts'
<1> DEFINE d == mine[w].cursor
<1>1. UNCHANGED <<state, stored>> /\ faults' \in 0..MaxFaults
  BY DEF ReadCatalogue, Parts
<1>2. LocalTypes /\ Unit(w)
  BY DEF Parts
<1>3. /\ mine[w] \in States /\ Sound(mine[w]) /\ Target <= d /\ mine[w].target = Target
      /\ manifest[d] = "complete" \/ d \in catalogue
  BY <1>2 DEF ReadCatalogue, Unit
<1>4. CASE d \in catalogue
  <2>1. PICK s \in States : s = mine[w]
    BY <1>3
  <2>2. Advanced(s) \in States /\ Sound(Advanced(s))
    BY <1>3, <1>4, <2>1, AdvancedIsSound DEF Handled
  <2>3. Sound(Advanced(s))'
    BY <1>1, <2>2, SoundIsOfStore
  <2>4. Write(w, Advanced(s))
    BY <1>4, <2>1 DEF ReadCatalogue
  <2> QED
    BY <1>1, <1>2, <2>2, <2>3, <2>4, WriteUnit, LocalStepKeeps
<1>5. CASE d \notin catalogue
  <2>1. Go(w, "progress") /\ UNCHANGED <<mine, plan>>
    BY <1>5 DEF ReadCatalogue
  <2>2. Others(w) /\ LocalTypes' /\ pc'[w] = "progress" /\ mine' = mine
    BY <1>2, <2>1, GoUnit
  <2>3. Sound(mine[w])'
    BY <1>1, <1>3, <2>2 DEF stored, Sound, Handled, Whole
  <2>4. Unit(w)'
    BY <1>1, <1>3, <2>2, <2>3 DEF Unit, stored
  <2> QED
    BY <1>1, <2>2, <2>4, LocalStepKeeps
<1> QED
  BY <1>4, <1>5

LEMMA ReadProgressKeeps ==
    ASSUME Parts, NEW w \in Workers, ReadProgress(w)
    PROVE  Parts'
<1> DEFINE d == mine[w].cursor
           done == progress[d]
<1>1. UNCHANGED <<state, stored>> /\ faults' \in 0..MaxFaults
  BY DEF ReadProgress, Parts
<1>2. StoredTypes /\ LocalTypes /\ Unit(w) /\ DatesAreSound
  BY DEF Parts, Shared
<1>3. /\ mine[w] \in States /\ Sound(mine[w]) /\ Target <= d /\ mine[w].target = Target
      /\ manifest[d] = "complete" \/ d \in catalogue
  BY <1>2 DEF ReadProgress, Unit
<1>4. d \in Days /\ done \in SUBSET Prefixes
  BY <1>2, <1>3 DEF StoredTypes, States
<1>5. PICK n \in 1..MaxPrefixes :
             /\ found' = [found EXCEPT ![w] = done]
             /\ chosen' = [chosen EXCEPT ![w] = First(Prefixes \ done, n)]
  BY DEF ReadProgress
<1>6. n \in Nat \ {0} /\ Prefixes \ done \in SUBSET Nat
  <2>1. MaxPrefixes \in Nat /\ Prefixes \subseteq Nat
    BY BootstrapAssumption
  <2>2. n \in Nat \ {0}
    BY <2>1
  <2>3. Prefixes \ done \subseteq Nat
    BY <2>1
  <2> QED
    BY <2>2, <2>3
<1>7. /\ First(Prefixes \ done, n) \subseteq Prefixes \ done
      /\ Prefixes \ done # {} => First(Prefixes \ done, n) # {}
  BY <1>6, FirstTakes
<1>8. /\ Go(w, "stage") /\ mine' = mine /\ month' = month /\ dates' = dates /\ batch' = batch
  BY DEF ReadProgress
<1>9. LocalTypes'
  BY <1>2, <1>4, <1>5, <1>7, <1>8 DEF Go, LocalTypes
<1>10. Others(w)
  BY <1>2, <1>5, <1>8 DEF Go, Others, Still, LocalTypes
<1>11. /\ pc'[w] = "stage" /\ mine'[w] = mine[w]
       /\ found'[w] = done /\ chosen'[w] = First(Prefixes \ done, n)
  BY <1>2, <1>5, <1>8 DEF Go, LocalTypes
<1>12. {d} \X done \subseteq files'
  BY <1>1, <1>2, <1>4 DEF DatesAreSound, stored
<1>13. Sound(mine[w])'
  BY <1>1, <1>3, <1>11 DEF stored, Sound, Handled, Whole
<1>14. chosen'[w] = {} => found'[w] = Prefixes
  BY <1>4, <1>7, <1>11
<1>15. manifest' = manifest /\ catalogue' = catalogue
  BY <1>1 DEF stored
<1>16. Unit(w)'
  BY <1>3, <1>11, <1>12, <1>13, <1>14, <1>15 DEF Unit
<1> QED
  BY <1>1, <1>9, <1>10, <1>16, LocalStepKeeps

(***************************************************************************)
(* The steps that write the state or a manifest.                           *)
(***************************************************************************)

LEMMA StateStays ==
    ASSUME Parts, Forward, state' = state
    PROVE  (state # NoState => Sound(state))'
<1> SUFFICES ASSUME state # NoState PROVE Sound(state)'
  OBVIOUS
<1>1. state \in States /\ Sound(state) /\ DatesAreSound
  BY DEF Parts, StoredTypes, Shared
<1>2. PICK s \in States : s = state
  BY <1>1
<1>3. Sound(s)'
  BY <1>1, <1>2, SoundStays
<1> QED
  BY <1>2, <1>3 DEF Sound

LEMMA PersistKeeps ==
    ASSUME Parts, NEW w \in Workers, Persist(w)
    PROVE  Parts'
<1>1. UNCHANGED stored /\ Leave(w) /\ faults' \in 0..MaxFaults
  BY DEF Persist, Parts
<1>2. mine[w] \in States /\ Sound(mine[w])
  BY DEF Persist, Parts, Unit
<1>3. Others(w) /\ LocalTypes' /\ Unit(w)'
  BY <1>1, LeaveUnit DEF Parts
<1>4. Forward
  BY <1>1 DEF Forward, stored
<1>5. state' \in States \cup {NoState}
  BY <1>2 DEF Persist, Parts, StoredTypes
<1>6. StoredTypes'
  BY <1>1, <1>5 DEF Parts, StoredTypes, stored
<1>7. (state # NoState => Sound(state))'
  <2>1. state' # NoState => Sound(state')
    BY <1>2 DEF Persist, Parts, Shared
  <2> QED
    BY <1>1, <2>1 DEF stored, Sound, Handled, Whole
<1>8. (StagedIsWhole /\ RowsAreOnce /\ ReadyMeansRows /\ DatesAreSound)'
  BY <1>1 DEF Parts, Shared, StagedIsWhole, RowsAreOnce, ReadyMeansRows, DatesAreSound, stored
<1>9. BuildsAreSound'
  BY <1>1 DEF Parts, Shared, BuildsAreSound, AllHandled, Handled, StagedOf, NoBuild, stored
<1> QED
  BY <1>1, <1>3, <1>4, <1>6, <1>7, <1>8, <1>9, StepKeeps DEF Shared

\* A date of the window that is closed, captured or promoted.
LEMMA ManifestStep ==
    ASSUME Parts, NEW d \in Window, NEW to \in Statuses,
           \/ manifest[d] = "partial" /\ to = "closed" /\ d \notin Trading
           \/ manifest[d] = "partial" /\ to = "complete" /\ d \in Trading
           \/ manifest[d] = "legacy" /\ to = "complete",
           manifest' = [manifest EXCEPT ![d] = to],
           UNCHANGED <<state, files, progress, catalogue, build, shard>>
    PROVE  Forward /\ StoredTypes' /\ Shared'
<1>1. StoredTypes /\ Shared /\ d \in Days
  BY BootstrapAssumption DEF Parts, Window, Days
<1>2. Forward
  BY <1>1 DEF Forward, StoredTypes, Window, Days
<1>3. StoredTypes'
  BY <1>1 DEF StoredTypes
<1>4. (StagedIsWhole /\ RowsAreOnce)'
  BY <1>1 DEF Shared, StagedIsWhole, RowsAreOnce
<1>5. ReadyMeansRows'
  BY <1>1 DEF Shared, ReadyMeansRows, StoredTypes
<1>6. DatesAreSound'
  BY <1>1 DEF Shared, DatesAreSound, StoredTypes
<1>7. BuildsAreSound'
  <2>1. AllHandled => AllHandled'
    BY <1>2, StagingStaysOver
  <2>2. \A e \in Days : manifest[e] = "ready" => manifest'[e] = "ready"
    BY <1>1 DEF StoredTypes
  <2>3. \A m \in Months : build[m].finalized \subseteq Days
    BY <1>1 DEF StoredTypes
  <2> QED
    BY <1>1, <2>1, <2>2, <2>3 DEF Shared, BuildsAreSound, Months, StagedOf, NoBuild
<1> QED
  BY <1>2, <1>3, <1>4, <1>5, <1>6, <1>7, StateStays DEF Shared

LEMMA PromoteKeeps ==
    ASSUME Parts, NEW w \in Workers, Promote(w)
    PROVE  Parts'
<1> DEFINE d == mine[w].cursor
<1>1. StoredTypes /\ LocalTypes /\ Unit(w)
  BY DEF Parts
<1>2. /\ mine[w] \in States /\ Sound(mine[w]) /\ Target <= d /\ mine[w].target = Target
      /\ manifest[d] \in {"legacy", "complete"} \/ d \in catalogue
  BY <1>1 DEF Promote, Unit
<1>3. d \in Window /\ d \in Days
  BY <1>2, BootstrapAssumption DEF Sound, Window, States, Days
<1>4. /\ Go(w, "catalogue") /\ UNCHANGED <<mine, plan>>
      /\ UNCHANGED <<state, files, progress, catalogue, build, shard, faults>>
      /\ manifest' = [manifest EXCEPT ![d] = IF manifest[d] = "legacy" THEN "complete"
                                             ELSE manifest[d]]
  BY DEF Promote
<1>5. Others(w) /\ LocalTypes' /\ pc'[w] = "catalogue" /\ mine' = mine
  BY <1>1, <1>4, GoUnit
<1>6. Forward /\ StoredTypes' /\ Shared'
  <2>1. CASE manifest[d] = "legacy"
    <3>1. manifest' = [manifest EXCEPT ![d] = "complete"]
      BY <1>4, <2>1
    <3> QED
      BY <1>3, <1>4, <2>1, <3>1, ManifestStep DEF Statuses
  <2>2. CASE manifest[d] # "legacy"
    <3>1. manifest' = manifest
      BY <1>1, <1>3, <1>4, <2>2 DEF StoredTypes
    <3>2. UNCHANGED stored
      BY <1>4, <3>1 DEF stored
    <3>3. Forward
      BY <3>2 DEF Forward, stored
    <3>4. StoredTypes'
      BY <1>1, <1>4, <3>2 DEF StoredTypes, stored
    <3>5. (StagedIsWhole /\ RowsAreOnce /\ ReadyMeansRows /\ DatesAreSound)'
      BY <3>2 DEF Parts, Shared, StagedIsWhole, RowsAreOnce, ReadyMeansRows,
                  DatesAreSound, stored
    <3>6. BuildsAreSound'
      BY <3>2 DEF Parts, Shared, BuildsAreSound, AllHandled, Handled, StagedOf,
                  NoBuild, stored
    <3> QED
      BY <1>4, <3>3, <3>4, <3>5, <3>6, StateStays DEF Shared
  <2> QED
    BY <2>1, <2>2
<1>7. manifest'[d] = "complete" \/ d \in catalogue'
  BY <1>1, <1>2, <1>3, <1>4 DEF StoredTypes
<1>8. Sound(mine[w])'
  <2>1. PICK s \in States : s = mine[w]
    BY <1>2
  <2>2. Sound(s)'
    BY <1>2, <1>6, <2>1, SoundStays DEF Parts, Shared
  <2> QED
    BY <1>5, <2>1, <2>2 DEF Sound
<1>9. Unit(w)'
  BY <1>2, <1>5, <1>7, <1>8 DEF Unit
<1>10. faults' \in 0..MaxFaults
  BY <1>4 DEF Parts
<1> QED
  BY <1>5, <1>6, <1>9, <1>10, StepKeeps

LEMMA CaptureKeeps ==
    ASSUME Parts, NEW w \in Workers, Capture(w)
    PROVE  Parts'
<1> DEFINE d == mine[w].cursor
<1>1. StoredTypes /\ LocalTypes /\ Unit(w) /\ DatesAreSound
  BY DEF Parts, Shared
<1>2. /\ mine[w] \in States /\ Sound(mine[w]) /\ Target <= d /\ mine[w].target = Target
  BY <1>1 DEF Capture, Unit
<1>3. d \in Window /\ d \in Days
  BY <1>2, BootstrapAssumption DEF Sound, Window, States, Days
<1>4. UNCHANGED <<state, files, progress, catalogue, build, shard, faults>>
  BY DEF Capture
<1>5. faults' \in 0..MaxFaults
  BY <1>4 DEF Parts
<1>6. PICK s \in States : s = mine[w]
  BY <1>2
<1>7. CASE manifest[d] \in {"closed", "ready"} /\ Write(w, Advanced(mine[w])) /\ UNCHANGED manifest
  <2>1. Advanced(s) \in States /\ Sound(Advanced(s))
    BY <1>2, <1>6, <1>7, AdvancedIsSound DEF Handled
  <2>2. UNCHANGED <<state, stored>>
    BY <1>4, <1>7 DEF stored
  <2>3. Sound(Advanced(s))'
    BY <2>1, <2>2, SoundIsOfStore
  <2>4. Write(w, Advanced(s))
    BY <1>6, <1>7
  <2> QED
    BY <1>1, <1>5, <2>1, <2>2, <2>3, <2>4, WriteUnit, LocalStepKeeps
<1>8. CASE manifest[d] = "complete" /\ Leave(w) /\ UNCHANGED manifest
  <2>1. UNCHANGED <<state, stored>>
    BY <1>4, <1>8 DEF stored
  <2> QED
    BY <1>1, <1>5, <1>8, <2>1, LeaveUnit, LocalStepKeeps
<1>9. CASE /\ manifest[d] = "partial" /\ d \notin Trading
           /\ manifest' = [manifest EXCEPT ![d] = "closed"]
           /\ Write(w, Advanced(mine[w]))
  <2>1. Forward /\ StoredTypes' /\ Shared'
    BY <1>3, <1>4, <1>9, ManifestStep DEF Statuses
  <2>2. manifest'[d] = "closed"
    BY <1>1, <1>3, <1>9 DEF StoredTypes
  <2>3. Sound(s)'
    BY <1>1, <1>2, <1>6, <2>1, SoundStays
  <2>4. Sound(Advanced(s))' /\ Advanced(s) \in States
    <3>1. Handled(s.cursor)'
      BY <1>6, <2>2 DEF Handled
    <3> QED
      BY <1>2, <1>6, <2>3, <3>1, AdvancedIsSoundThen
  <2>5. Write(w, Advanced(s))
    BY <1>6, <1>9
  <2> QED
    BY <1>1, <1>5, <2>1, <2>4, <2>5, WriteUnit, StepKeeps
<1>10. CASE /\ manifest[d] = "partial" /\ d \in Trading
            /\ manifest' = [manifest EXCEPT ![d] = "complete"]
            /\ Leave(w)
  <2>1. Forward /\ StoredTypes' /\ Shared'
    BY <1>3, <1>4, <1>10, ManifestStep DEF Statuses
  <2> QED
    BY <1>1, <1>5, <1>10, <2>1, LeaveUnit, StepKeeps
<1> QED
  BY <1>7, <1>8, <1>9, <1>10 DEF Capture

(***************************************************************************)
(* Staging.                                                                *)
(***************************************************************************)

LEMMA StageKeeps ==
    ASSUME Parts, NEW w \in Workers, Stage(w)
    PROVE  Parts'
<1> DEFINE d == mine[w].cursor
<1>1. StoredTypes /\ LocalTypes /\ Shared /\ Unit(w)
  BY DEF Parts
<1>2. /\ mine[w] \in States /\ Sound(mine[w]) /\ Target <= d /\ mine[w].target = Target
      /\ manifest[d] = "complete" \/ d \in catalogue
      /\ {d} \X found[w] \subseteq files
      /\ chosen[w] = {} => found[w] = Prefixes
  BY <1>1 DEF Stage, Unit
<1>3. d \in Window /\ d \in Days /\ found[w] \subseteq Prefixes /\ chosen[w] \subseteq Prefixes
  BY <1>1, <1>2, BootstrapAssumption DEF Sound, Window, States, Days, LocalTypes
<1>4. /\ UNCHANGED <<state, manifest, build, shard, faults>>
      /\ files' = files \cup ({d} \X chosen[w])
      /\ progress' = [progress EXCEPT ![d] =
                        IF chosen[w] = {} THEN Prefixes ELSE progress[d] \cup chosen[w]]
      /\ \/ /\ CompletesDay(w) /\ catalogue' = catalogue \cup {d}
            /\ Write(w, Advanced(mine[w]))
         \/ ~ CompletesDay(w) /\ catalogue' = catalogue /\ Leave(w)
  BY DEF Stage
<1>5. AllHandled => catalogue' = catalogue
  <2>1. ASSUME AllHandled PROVE d \in catalogue
    BY <1>2, <1>3, <2>1 DEF AllHandled, Handled
  <2> QED
    BY <1>4, <2>1
<1>6. Forward
  BY <1>4, <1>5 DEF Forward
<1>7. StoredTypes'
  <2>1. files' \subseteq Days \X Prefixes
    BY <1>1, <1>3, <1>4 DEF StoredTypes
  <2>2. progress' \in [Days -> SUBSET Prefixes]
    BY <1>1, <1>3, <1>4 DEF StoredTypes
  <2>3. catalogue' \subseteq Days
    BY <1>1, <1>3, <1>4 DEF StoredTypes
  <2> QED
    BY <1>1, <1>4, <2>1, <2>2, <2>3 DEF StoredTypes
<1>8. StagedIsWhole'
  <2>1. ASSUME NEW e \in catalogue', NEW p \in Prefixes PROVE <<e, p>> \in files'
    <3>1. CASE e \in catalogue
      BY <1>1, <1>4, <3>1 DEF Shared, StagedIsWhole
    <3>2. CASE e \notin catalogue
      <4>1. e = d /\ found[w] \cup chosen[w] = Prefixes
        BY <1>4, <3>2 DEF CompletesDay
      <4> QED
        BY <1>2, <1>4, <4>1
    <3> QED
      BY <3>1, <3>2
  <2> QED
    BY <2>1 DEF StagedIsWhole
<1>9. DatesAreSound'
  <2>1. \A e \in catalogue' : e \in Window /\ manifest[e] \in {"complete", "ready"}
    BY <1>1, <1>2, <1>3, <1>4 DEF Shared, DatesAreSound
  <2>2. ASSUME NEW e \in Days, NEW p \in progress'[e] PROVE <<e, p>> \in files'
    <3>1. CASE p \in progress[e]
      BY <1>1, <1>4, <3>1 DEF Shared, DatesAreSound
    <3>2. CASE p \notin progress[e]
      <4>1. e = d
        BY <1>1, <1>3, <1>4, <2>2, <3>2 DEF StoredTypes
      <4>2. progress'[d] = IF chosen[w] = {} THEN Prefixes ELSE progress[d] \cup chosen[w]
        BY <1>1, <1>3, <1>4 DEF StoredTypes
      <4>3. p \in found[w] \/ p \in chosen[w]
        BY <1>2, <2>2, <3>2, <4>1, <4>2
      <4> QED
        BY <1>2, <1>4, <4>1, <4>3
    <3> QED
      BY <3>1, <3>2
  <2>3. \A e \in Days : {e} \X progress'[e] \subseteq files'
    BY <2>2
  <2> QED
    BY <1>1, <1>4, <2>1, <2>3 DEF Shared, DatesAreSound
<1>10. BuildsAreSound'
  <2>1. CASE AllHandled
    <3>1. AllHandled'
      BY <1>6, <2>1, StagingStaysOver
    <3> QED
      BY <1>1, <1>4, <1>5, <2>1, <3>1 DEF Shared, BuildsAreSound, StagedOf, NoBuild
  <2>2. CASE ~ AllHandled
    <3>1. \A m \in Months : build'[m] = NoBuild
      BY <1>1, <1>4, <2>2 DEF Shared, BuildsAreSound, Months
    <3> QED
      BY <3>1 DEF BuildsAreSound, NoBuild, Months
  <2> QED
    BY <2>1, <2>2
<1>11. Shared'
  BY <1>1, <1>4, <1>6, <1>8, <1>9, <1>10, StateStays DEF Shared, RowsAreOnce, ReadyMeansRows
<1>12. Others(w) /\ LocalTypes' /\ Unit(w)'
  <2>1. CASE Leave(w)
    BY <1>1, <2>1, LeaveUnit
  <2>2. CASE Write(w, Advanced(mine[w])) /\ catalogue' = catalogue \cup {d}
    <3>1. PICK s \in States : s = mine[w]
      BY <1>2
    <3>2. Sound(s)'
      BY <1>1, <1>2, <1>6, <3>1, SoundStays DEF Shared
    <3>3. Handled(s.cursor)'
      BY <2>2, <3>1 DEF Handled
    <3>4. Advanced(s) \in States /\ Sound(Advanced(s))'
      BY <1>2, <3>1, <3>2, <3>3, AdvancedIsSoundThen
    <3>5. Write(w, Advanced(s))
      BY <2>2, <3>1
    <3> QED
      BY <1>1, <3>4, <3>5, WriteUnit
  <2> QED
    BY <1>4, <2>1, <2>2
<1> QED
  BY <1>4, <1>6, <1>7, <1>11, <1>12, StepKeeps DEF Parts

(***************************************************************************)
(* Building.                                                               *)
(***************************************************************************)

LEMMA MonthsAreNumbers ==
    /\ Months \in SUBSET Nat
    /\ \A m \in Months : m <= Month[Anchor]
    /\ Month[Anchor] \in Nat
<1>1. Anchor \in Days /\ \A d \in Days : d <= Anchor
  BY BootstrapAssumption DEF Days
<1> QED
  BY <1>1, BootstrapAssumption DEF Months

\* When every month of the window is READY, no date of it is left out.
LEMMA ReadyMonthsAreWhole ==
    ASSUME Parts, AllHandled,
           \A d \in Window : build[Month[d]].status = "READY"
    PROVE  Whole
<1>1. DatesAreSound /\ BuildsAreSound
  BY DEF Parts, Shared
<1> SUFFICES ASSUME NEW d \in Window
             PROVE  manifest[d] = IF d \in Trading THEN "ready" ELSE "closed"
  BY DEF Whole
<1>2. d \in Days
  BY BootstrapAssumption DEF Window, Days
<1>3. Handled(d)
  BY DEF AllHandled
<1>4. CASE manifest[d] = "closed"
  BY <1>1, <1>4 DEF DatesAreSound
<1>5. CASE manifest[d] = "ready"
  BY <1>1, <1>5 DEF DatesAreSound
<1>6. CASE d \in catalogue
  <2>1. d \in StagedOf(Month[d])
    BY <1>6 DEF StagedOf
  <2>2. d \in build[Month[d]].finalized
    BY <1>1, <1>2, <2>1 DEF BuildsAreSound
  <2>3. manifest[d] = "ready"
    BY <1>1, <1>2, <2>2 DEF BuildsAreSound
  <2> QED
    BY <1>1, <2>3 DEF DatesAreSound
<1> QED
  BY <1>3, <1>4, <1>5, <1>6 DEF Handled

LEMMA ScanKeeps ==
    ASSUME Parts, NEW w \in Workers, Scan(w)
    PROVE  Parts'
<1> DEFINE s == mine[w]
           todo == {m \in Required(s) : StagedOf(m) = {} \/ build[m].status # "READY"}
           m == CHOOSE x \in todo : \A y \in todo : y <= x
           ours == StagedInRange(s, m)
<1>1. StoredTypes /\ LocalTypes /\ Unit(w) /\ DatesAreSound
  BY DEF Parts, Shared
<1>2. s \in States /\ Sound(s) /\ s.cursor < Target /\ s.target = Target
  BY <1>1 DEF Scan, Unit
<1>3. UNCHANGED <<state, stored>> /\ faults' \in 0..MaxFaults
  BY DEF Scan, Parts
<1>4. AllHandled
  BY <1>2, BelowIsHandled
<1>5. PICK r \in States : r = s
  BY <1>2
<1>6. Required(s) \subseteq Months
  <2>1. Target..Anchor \subseteq Days
    BY BootstrapAssumption DEF Days
  <2> QED
    BY <1>2, <2>1 DEF Required, Months
<1>7. CASE todo = {}
  <2> DEFINE c == [r EXCEPT !.status = "COMPLETE"]
  <2>1. \A d \in Window : Month[d] \in Required(s)
    BY <1>2, BootstrapAssumption DEF Window, Required
  <2>2. \A d \in Window : build[Month[d]].status = "READY"
    BY <1>7, <2>1
  <2>3. Whole
    BY <1>4, <2>2, ReadyMonthsAreWhole
  <2>4. c \in States /\ Sound(c)
    BY <1>2, <1>5, <2>3 DEF Sound, States
  <2>5. Sound(c)'
    BY <1>3, <2>4, SoundIsOfStore
  <2>6. Write(w, c)
    BY <1>5, <1>7 DEF Scan
  <2> QED
    BY <1>1, <1>3, <2>4, <2>5, <2>6, WriteUnit, LocalStepKeeps
<1>8. CASE todo # {} /\ StagedOf(m) = {}
  <2>1. Leave(w)
    BY <1>8 DEF Scan
  <2> QED
    BY <1>1, <1>3, <2>1, LeaveUnit, LocalStepKeeps
<1>9. CASE todo # {} /\ StagedOf(m) # {}
  <2>1. /\ month' = [month EXCEPT ![w] = m]
        /\ dates' = [dates EXCEPT ![w] = ours]
        /\ found' = [found EXCEPT ![w] = build[m].completed]
        /\ batch' = [batch EXCEPT ![w] = First(ours \ build[m].finalized, MaxFinalize)]
        /\ Go(w, IF build[m].completed = Prefixes THEN "finalize" ELSE "shard")
        /\ UNCHANGED <<mine, chosen>>
    BY <1>9 DEF Scan
  <2>2. m \in todo
    <3>1. todo \in SUBSET Nat /\ \A x \in todo : x <= Month[Anchor]
      BY <1>6, MonthsAreNumbers
    <3>2. \E x \in todo : \A y \in todo : y <= x
      BY <1>9, <3>1, GreatestExists, MonthsAreNumbers
    <3> QED
      BY <3>2
  <2>3. m \in Months
    BY <1>6, <2>2
  <2>4. ours = StagedOf(m) /\ ours \subseteq Days
    <3>1. \A d \in catalogue : Target <= d /\ d <= Anchor /\ d \in Days
      BY <1>1, BootstrapAssumption DEF DatesAreSound, Window, Days
    <3> QED
      BY <1>2, <3>1 DEF StagedInRange, StagedOf
  <2>5. build[m].completed \in SUBSET Prefixes
    BY <1>1, <2>3 DEF StoredTypes
  <2>6. First(ours \ build[m].finalized, MaxFinalize) \subseteq ours
    BY DEF First
  <2> HIDE DEF m, ours, todo
  <2>7. LocalTypes'
    BY <1>1, <2>1, <2>3, <2>4, <2>5, <2>6 DEF Go, LocalTypes
  <2>8. Others(w)
    BY <1>1, <2>1 DEF Go, Others, Still, LocalTypes
  <2>9. /\ pc'[w] = IF build[m].completed = Prefixes THEN "finalize" ELSE "shard"
        /\ mine'[w] = s /\ month'[w] = m /\ dates'[w] = ours
        /\ found'[w] = build[m].completed
        /\ batch'[w] = First(ours \ build[m].finalized, MaxFinalize)
    BY <1>1, <2>1 DEF Go, LocalTypes
  <2>10. Sound(mine[w])'
    BY <1>2, <1>3, <2>9 DEF stored, Sound, Handled, Whole
  <2>11. StagedOf(month[w])' = ours /\ build' = build
    BY <1>3, <2>4, <2>9 DEF stored, StagedOf
  <2>12. Unit(w)'
    BY <1>2, <2>3, <2>6, <2>9, <2>10, <2>11 DEF Unit
  <2> QED
    BY <1>3, <2>7, <2>8, <2>12, LocalStepKeeps
<1> QED
  BY <1>7, <1>8, <1>9

LEMMA BuildPrefixKeeps ==
    ASSUME Parts, NEW w \in Workers, BuildPrefix(w)
    PROVE  Parts'
<1> DEFINE p == Least(Prefixes \ found[w])
           m == month[w]
           completed == build[m].completed \cup {p}
<1>1. StoredTypes /\ LocalTypes /\ Shared /\ Unit(w)
  BY DEF Parts
<1>2. /\ mine[w] \in States /\ Sound(mine[w]) /\ mine[w].cursor < Target
      /\ m \in Months /\ dates[w] = StagedOf(m) /\ found[w] # Prefixes
  BY <1>1 DEF BuildPrefix, Unit
<1>3. AllHandled
  BY <1>2, BelowIsHandled
<1>4. UNCHANGED <<state, manifest, files, progress, catalogue, faults>> /\ Leave(w)
  BY DEF BuildPrefix
<1>5. Others(w) /\ LocalTypes' /\ Unit(w)'
  BY <1>1, <1>4, LeaveUnit
<1>6. faults' \in 0..MaxFaults
  BY <1>4 DEF Parts
<1>7. CASE UNCHANGED <<shard, build>>
  BY <1>4, <1>5, <1>6, <1>7, LocalStepKeeps DEF stored
<1>8. CASE /\ shard' = [shard EXCEPT ![p] = Merged(shard[p], dates[w])]
           /\ build' = [build EXCEPT ![m].completed = completed,
                                     ![m].status = IF completed = Prefixes
                                                   THEN "FINALIZING" ELSE "BUILDING"]
  <2>1. p \in Prefixes
    <3>1. found[w] \subseteq Prefixes /\ Prefixes \subseteq Nat
      BY <1>1, BootstrapAssumption DEF LocalTypes
    <3>2. Prefixes \ found[w] \in SUBSET Nat /\ Prefixes \ found[w] # {}
      BY <1>2, <3>1
    <3> QED
      BY <3>2, LeastIsIn
  <2> HIDE DEF p
  <2>2. /\ build'[m].completed = completed /\ build'[m].finalized = build[m].finalized
        /\ build'[m].status \in {"FINALIZING", "BUILDING"}
        /\ \A x \in Months \ {m} : build'[x] = build[x]
    BY <1>1, <1>2, <1>8 DEF StoredTypes
  <2>3. build' \in [Months -> [status : {"none", "BUILDING", "FINALIZING", "READY"},
                                completed : SUBSET Prefixes, finalized : SUBSET Days]]
    <3> DEFINE status == IF completed = Prefixes THEN "FINALIZING" ELSE "BUILDING"
               b == [build[m] EXCEPT !.completed = completed, !.status = status]
    <3>1. completed \in SUBSET Prefixes
      BY <1>1, <1>2, <2>1 DEF StoredTypes
    <3>2. build[m] \in [status : {"none", "BUILDING", "FINALIZING", "READY"},
                         completed : SUBSET Prefixes, finalized : SUBSET Days]
      BY <1>1, <1>2 DEF StoredTypes
    <3>3. status \in {"none", "BUILDING", "FINALIZING", "READY"}
      OBVIOUS
    <3> HIDE DEF status, completed
    <3>4. b \in [status : {"none", "BUILDING", "FINALIZING", "READY"},
                  completed : SUBSET Prefixes, finalized : SUBSET Days]
      BY <3>1, <3>2, <3>3
    <3>5. build' = [build EXCEPT ![m] = b]
      BY <1>8 DEF status, completed
    <3> QED
      BY <1>1, <1>2, <3>4, <3>5 DEF StoredTypes
  <2>4. /\ \A q \in Prefixes \ {p} : shard'[q] = shard[q]
        /\ \A d \in Days : shard'[p][d] = IF d \in dates[w] THEN 1 ELSE shard[p][d]
        /\ shard' \in [Prefixes -> [Days -> Nat]]
    BY <1>1, <1>8, <2>1 DEF StoredTypes, Merged
  <2>5. StoredTypes'
    BY <1>1, <1>4, <2>3, <2>4 DEF StoredTypes
  <2>6. Forward
    BY <1>1, <1>2, <1>4, <2>1, <2>2 DEF Forward, StoredTypes
  <2>7. RowsAreOnce'
    BY <1>1, <2>4 DEF Shared, RowsAreOnce
  <2>8. ASSUME NEW q \in Prefixes, NEW d \in Days, shard[q][d] >= 1
        PROVE  shard'[q][d] >= 1
    BY <2>4, <2>8
  <2>9. ReadyMeansRows'
    BY <1>1, <1>4, <2>8 DEF Shared, ReadyMeansRows
  <2>10. (StagedIsWhole /\ DatesAreSound)'
    BY <1>1, <1>4 DEF Shared, StagedIsWhole, DatesAreSound
  <2>11. BuildsAreSound'
    <3>1. AllHandled'
      BY <1>3, <2>6, StagingStaysOver
    <3>2. \A x \in Months : StagedOf(x)' = StagedOf(x) /\ StagedOf(x) \subseteq Days
      BY <1>1, <1>4 DEF StagedOf, StoredTypes
    <3>3. ASSUME NEW x \in Months, NEW q \in build'[x].completed, NEW d \in StagedOf(x)
          PROVE  shard'[q][d] >= 1
      <4>1. q \in Prefixes /\ d \in Days
        BY <2>3, <3>2
      <4>2. CASE q \in build[x].completed
        BY <1>1, <2>8, <4>1, <4>2 DEF Shared, BuildsAreSound, Months
      <4>3. CASE q \notin build[x].completed
        <5>1. x = m /\ q = p
          BY <2>2, <4>3
        <5> QED
          BY <1>2, <2>4, <4>1, <5>1
      <4> QED
        BY <4>2, <4>3
    <3>4. ASSUME NEW x \in Months
          PROVE  /\ \A d \in build'[x].finalized : manifest'[d] = "ready"
                 /\ build'[x].status = "READY" => StagedOf(x) \subseteq build'[x].finalized
      BY <1>1, <1>4, <2>2 DEF Shared, BuildsAreSound, Months
    <3> QED
      BY <3>1, <3>2, <3>3, <3>4 DEF BuildsAreSound, Months
  <2>12. Shared'
    BY <1>4, <2>6, <2>7, <2>9, <2>10, <2>11, StateStays DEF Shared
  <2> QED
    BY <1>5, <1>6, <2>5, <2>6, <2>12, StepKeeps
<1> QED
  BY <1>7, <1>8 DEF BuildPrefix

LEMMA FinalizeKeeps ==
    ASSUME Parts, NEW w \in Workers, Finalize(w)
    PROVE  Parts'
<1> DEFINE m == month[w]
           finalized == build[m].finalized \cup batch[w]
           status == IF dates[w] \subseteq finalized THEN "READY" ELSE "FINALIZING"
           b == [build[m] EXCEPT !.finalized = finalized, !.status = status]
<1>1. StoredTypes /\ LocalTypes /\ Shared /\ Unit(w)
  BY DEF Parts
<1>2. /\ mine[w] \in States /\ Sound(mine[w]) /\ mine[w].cursor < Target
      /\ m \in Months /\ dates[w] = StagedOf(m) /\ build[m].completed = Prefixes
      /\ batch[w] \subseteq dates[w]
  BY <1>1 DEF Finalize, Unit
<1>3. AllHandled
  BY <1>2, BelowIsHandled
<1>4. /\ UNCHANGED <<state, files, progress, catalogue, shard, faults>> /\ Leave(w)
      /\ manifest' = [d \in Days |-> IF d \in batch[w] THEN "ready" ELSE manifest[d]]
  BY DEF Finalize
<1>5. Others(w) /\ LocalTypes' /\ Unit(w)'
  BY <1>1, <1>4, LeaveUnit
<1>6. faults' \in 0..MaxFaults
  BY <1>4 DEF Parts
<1>7. batch[w] \subseteq catalogue /\ catalogue \subseteq Days
  BY <1>1, <1>2 DEF StagedOf, StoredTypes
<1>8. build' = [build EXCEPT ![m] = b]
  BY DEF Finalize, Sealed
<1>9. b \in [status : {"none", "BUILDING", "FINALIZING", "READY"},
             completed : SUBSET Prefixes, finalized : SUBSET Days]
  <2>1. build[m] \in [status : {"none", "BUILDING", "FINALIZING", "READY"},
                      completed : SUBSET Prefixes, finalized : SUBSET Days]
    BY <1>1, <1>2 DEF StoredTypes
  <2>2. finalized \in SUBSET Days /\ status \in {"none", "BUILDING", "FINALIZING", "READY"}
    BY <1>7, <2>1
  <2> HIDE DEF status, finalized
  <2> QED
    BY <2>1, <2>2
<1>10. /\ build'[m].completed = build[m].completed /\ build'[m].finalized = finalized
       /\ build'[m].status = "READY" => dates[w] \subseteq finalized
       /\ \A x \in Months \ {m} : build'[x] = build[x]
  BY <1>1, <1>2, <1>8 DEF StoredTypes
<1>11. manifest' \in [Days -> Statuses]
  BY <1>1, <1>4 DEF StoredTypes, Statuses
<1>12. StoredTypes'
  BY <1>1, <1>2, <1>4, <1>8, <1>9, <1>11 DEF StoredTypes
<1>13. \A d \in Days : manifest'[d] = IF d \in batch[w] THEN "ready" ELSE manifest[d]
  BY <1>4
<1>14. Forward
  <2>1. ASSUME NEW d \in Window
        PROVE  \/ manifest'[d] = manifest[d]
               \/ d \in catalogue /\ manifest[d] \in {"complete", "ready"} /\ manifest'[d] = "ready"
    <3>1. d \in Days
      BY BootstrapAssumption DEF Window, Days
    <3>2. d \in batch[w] => d \in catalogue /\ manifest[d] \in {"complete", "ready"}
      BY <1>1, <1>7 DEF Shared, DatesAreSound
    <3> QED
      BY <1>13, <3>1, <3>2
  <2>2. \A x \in Months : build'[x].completed = build[x].completed
    BY <1>10
  <2> QED
    BY <1>4, <2>1, <2>2 DEF Forward
<1>15. (StagedIsWhole /\ RowsAreOnce)'
  BY <1>1, <1>4 DEF Shared, StagedIsWhole, RowsAreOnce
<1>16. ReadyMeansRows'
  <2>1. \A d \in batch[w], q \in Prefixes : shard[q][d] >= 1
    BY <1>1, <1>2 DEF Shared, BuildsAreSound, Months
  <2> QED
    BY <1>1, <1>4, <1>13, <2>1 DEF Shared, ReadyMeansRows
<1>17. DatesAreSound'
  <2>1. ASSUME NEW d \in Window
        PROVE  /\ manifest'[d] = "closed" => d \notin Trading
               /\ manifest'[d] \in {"legacy", "complete", "ready"} => d \in Trading
    <3>1. d \in Days
      BY BootstrapAssumption DEF Window, Days
    <3>2. d \in batch[w] => manifest[d] \in {"complete", "ready"}
      BY <1>1, <1>7 DEF Shared, DatesAreSound
    <3> QED
      BY <1>1, <1>13, <3>1, <3>2 DEF Shared, DatesAreSound
  <2>2. \A d \in catalogue : d \in Window /\ manifest'[d] \in {"complete", "ready"}
    BY <1>1, <1>7, <1>13 DEF Shared, DatesAreSound
  <2> QED
    BY <1>1, <1>4, <2>1, <2>2 DEF Shared, DatesAreSound
<1>18. BuildsAreSound'
  <2>1. AllHandled'
    BY <1>3, <1>14, StagingStaysOver
  <2>2. \A x \in Months : StagedOf(x)' = StagedOf(x)
    BY <1>4 DEF StagedOf
  <2>3. ASSUME NEW x \in Months, NEW q \in build'[x].completed, NEW d \in StagedOf(x)
        PROVE  shard'[q][d] >= 1
    BY <1>1, <1>4, <1>10 DEF Shared, BuildsAreSound, Months
  <2>4. ASSUME NEW x \in Months, NEW d \in build'[x].finalized
        PROVE  manifest'[d] = "ready"
    <3>1. d \in build[x].finalized \/ d \in batch[w]
      BY <1>10
    <3>2. d \in Days
      BY <1>12 DEF StoredTypes
    <3> QED
      BY <1>1, <1>13, <3>1, <3>2 DEF Shared, BuildsAreSound, Months
  <2>5. ASSUME NEW x \in Months, build'[x].status = "READY"
        PROVE  StagedOf(x) \subseteq build'[x].finalized
    BY <1>1, <1>2, <1>10, <2>5 DEF Shared, BuildsAreSound, Months
  <2> QED
    BY <2>1, <2>2, <2>3, <2>4, <2>5 DEF BuildsAreSound, Months
<1>19. Shared'
  BY <1>4, <1>14, <1>15, <1>16, <1>17, <1>18, StateStays DEF Shared
<1> QED
  BY <1>5, <1>6, <1>12, <1>14, <1>19, StepKeeps

(***************************************************************************)
(* The daily lane.                                                         *)
(***************************************************************************)

LEMMA DailyIndexKeeps ==
    ASSUME Parts, NEW p \in Prefixes, DailyIndex(p)
    PROVE  Parts'
<1> DEFINE last == \A q \in Prefixes \ {p} : shard[q][Anchor] = 1
<1>1. StoredTypes /\ LocalTypes /\ Shared
  BY DEF Parts
<1>2. Anchor \in Days /\ Anchor \notin Window /\ Window \subseteq Days
  BY BootstrapAssumption DEF Window, Days
<1>3. /\ UNCHANGED <<state, files, progress, catalogue, build, pc, mine, plan, faults>>
      /\ manifest[Anchor] = "complete"
      /\ shard' = [shard EXCEPT ![p] = Merged(shard[p], {Anchor})]
      /\ manifest' = [manifest EXCEPT ![Anchor] = IF last THEN "ready" ELSE manifest[Anchor]]
  BY DEF DailyIndex
<1>4. /\ \A q \in Prefixes \ {p} : shard'[q] = shard[q]
      /\ \A d \in Days : shard'[p][d] = IF d = Anchor THEN 1 ELSE shard[p][d]
      /\ shard' \in [Prefixes -> [Days -> Nat]]
  BY <1>1, <1>3 DEF StoredTypes, Merged
<1>5. /\ \A d \in Days \ {Anchor} : manifest'[d] = manifest[d]
      /\ manifest'[Anchor] = IF last THEN "ready" ELSE "complete"
      /\ manifest' \in [Days -> Statuses]
  BY <1>1, <1>2, <1>3 DEF StoredTypes, Statuses
<1>6. StoredTypes'
  BY <1>1, <1>3, <1>4, <1>5 DEF StoredTypes
<1>7. LocalTypes' /\ faults' \in 0..MaxFaults
  BY <1>3 DEF Parts, LocalTypes, plan
<1>8. Forward
  BY <1>2, <1>3, <1>5 DEF Forward
<1>9. \A w \in Workers : Unit(w)'
  BY <1>3, <1>8, UnitStays DEF Still, plan
<1>10. ASSUME NEW q \in Prefixes, NEW d \in Days, shard[q][d] >= 1
       PROVE  shard'[q][d] >= 1
  BY <1>4, <1>10
<1>11. StagedIsWhole' /\ RowsAreOnce'
  <2>1. StagedIsWhole'
    BY <1>1, <1>3 DEF Shared, StagedIsWhole
  <2>2. ASSUME NEW q \in Prefixes, NEW d \in Days PROVE shard'[q][d] <= 1
    BY <1>1, <1>4 DEF Shared, RowsAreOnce
  <2> QED
    BY <2>1, <2>2 DEF RowsAreOnce
<1>12. ReadyMeansRows'
  <2>1. ASSUME NEW d \in Days, manifest'[d] = "ready", NEW q \in Prefixes
        PROVE  shard'[q][d] >= 1
    <3>1. CASE d # Anchor
      BY <1>1, <1>5, <1>10, <2>1, <3>1 DEF Shared, ReadyMeansRows
    <3>2. CASE d = Anchor
      <4>1. last
        BY <1>5, <2>1, <3>2
      <4> QED
        BY <1>2, <1>4, <3>2, <4>1
    <3> QED
      BY <3>1, <3>2
  <2> QED
    BY <2>1 DEF ReadyMeansRows
<1>13. DatesAreSound'
  BY <1>1, <1>2, <1>3, <1>5 DEF Shared, DatesAreSound
<1>14. BuildsAreSound'
  <2>1. AllHandled => AllHandled'
    BY <1>8, StagingStaysOver
  <2>2. \A x \in Months : StagedOf(x)' = StagedOf(x) /\ StagedOf(x) \subseteq Days
    BY <1>1, <1>3 DEF StagedOf, StoredTypes
  <2>3. ASSUME NEW x \in Months, NEW q \in build[x].completed, NEW d \in StagedOf(x)
        PROVE  shard'[q][d] >= 1
    <3>1. q \in Prefixes /\ d \in Days /\ shard[q][d] >= 1
      BY <1>1, <2>2 DEF Shared, BuildsAreSound, StoredTypes, Months
    <3> QED
      BY <1>10, <3>1
  <2>4. ASSUME NEW x \in Months, NEW d \in build[x].finalized
        PROVE  manifest'[d] = "ready"
    <3>1. d \in Days /\ manifest[d] = "ready"
      BY <1>1 DEF Shared, BuildsAreSound, StoredTypes, Months
    <3> QED
      BY <1>3, <1>5, <3>1
  <2> QED
    BY <1>1, <1>3, <2>1, <2>2, <2>3, <2>4 DEF Shared, BuildsAreSound, Months, NoBuild
<1>15. Shared'
  BY <1>3, <1>8, <1>11, <1>12, <1>13, <1>14, StateStays DEF Shared
<1> QED
  BY <1>6, <1>7, <1>9, <1>15 DEF Parts

(***************************************************************************)
(* The theorems.                                                           *)
(***************************************************************************)

LEMMA NextKeeps ==
    ASSUME Parts, [Next]_vars
    PROVE  Parts'
<1>1. CASE UNCHANGED vars
  <2>1. StoredTypes' /\ LocalTypes' /\ (faults \in 0..MaxFaults)'
    BY <1>1 DEF vars, Parts, StoredTypes, LocalTypes
  <2>2. Forward /\ \A w \in Workers : Still(w)
    BY <1>1 DEF vars, Forward, Still
  <2>3. (StagedIsWhole /\ RowsAreOnce /\ ReadyMeansRows /\ DatesAreSound)'
    BY <1>1 DEF Parts, Shared, StagedIsWhole, RowsAreOnce, ReadyMeansRows, DatesAreSound, vars
  <2>4. BuildsAreSound'
    BY <1>1 DEF Parts, Shared, BuildsAreSound, AllHandled, Handled, StagedOf, NoBuild, vars
  <2>5. Shared'
    BY <1>1, <2>2, <2>3, <2>4, StateStays DEF Shared, vars
  <2> QED
    BY <2>1, <2>2, <2>5, UnitStays DEF Parts
<1>2. ASSUME NEW w \in Workers, Step(w) \/ Fail(w) PROVE Parts'
  BY <1>2, BeginKeeps, PersistKeeps, PrepareKeeps, PromoteKeeps, CaptureKeeps,
     ReadCatalogueKeeps, ReadProgressKeeps, StageKeeps, ScanKeeps, BuildPrefixKeeps,
     FinalizeKeeps, FailKeeps DEF Step
<1> QED
  BY <1>1, <1>2, DailyIndexKeeps DEF Next

\* Whatever wakes overlap, fail or are evicted, HistoryInv holds: a catalogued
\* date has its files, a READY manifest its rows, once, and no unit relies on
\* what is not there (stageHistoryUnit, buildHistoryMonth, persistState).
THEOREM HistoryIsSound == Spec => []HistoryInv
<1>1. Init => HistoryInv
  BY InitIsSound, InvIsParts
<1>2. HistoryInv /\ [Next]_vars => HistoryInv'
  <2>1. HistoryInv' <=> Parts'
    BY InvIsParts, PTL
  <2> QED
    BY <2>1, InvIsParts, NextKeeps
<1> QED
  BY <1>1, <1>2, PTL DEF Spec

\* The types of the repository's files and of what an invocation holds.
THEOREM TypeCorrect == Spec => []TypeOK
<1>1. HistoryInv => TypeOK
  BY DEF HistoryInv
<1> QED
  BY <1>1, HistoryIsSound, PTL

\* The stored cursor never passes a date of the window that is neither closed,
\* indexed nor staged, whichever unit wrote it last (persistState).
THEOREM CursorPassesNothing == Spec => []HandledAboveCursor
<1>1. HistoryInv => HandledAboveCursor
  BY DEF HistoryInv, StatesAreSound, Sound, HandledAboveCursor
<1> QED
  BY <1>1, HistoryIsSound, PTL

\* When the bootstrap says COMPLETE, every trading day of the window is indexed
\* and every other day is closed (runMarketData360dBackfillStep).
THEOREM CompleteLeavesNothingOut == Spec => []CompleteIsWhole
<1>1. HistoryInv => CompleteIsWhole
  BY DEF HistoryInv, StatesAreSound, Sound, CompleteIsWhole
<1> QED
  BY <1>1, HistoryIsSound, PTL
=============================================================================
