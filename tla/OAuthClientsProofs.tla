------------------------- MODULE OAuthClientsProofs -------------------------
(***************************************************************************)
(* Proofs about OAuthClients for any number of overlapping requests, wrong *)
(* codes, repeated exchanges, faults and evictions: nobody is locked out   *)
(* without having earned it, a refused exchange leaves no trace, and       *)
(* recovery never touches the record of a client that is known.            *)
(***************************************************************************)
EXTENDS OAuthClients, TLAPS

USE OAuthAssumption

(***************************************************************************)
(* Types.                                                                  *)
(***************************************************************************)

Places == {"idle", "lookup", "counter", "login", "register", "create",
           "complete", "remember", "undo", "grant", "pending", "learn", "write",
           "provider", "prepared", "clear", "rollback"}

Memories == [code : Codes \cup {NoCode}, read : 0..(LoginFailMax - 1), missing : BOOLEAN,
             created : BOOLEAN, saved : Records \cup {NoClient},
             before : Records \cup {NoClient}, alone : BOOLEAN]

Saves(h) == pc[h] \in {"write", "prepared", "rollback"}

\* What TypeOK says of the requests.
RequestsOK ==
    /\ pc \in [Handlers -> Places] /\ mem \in [Handlers -> Memories]
    /\ \A h \in Handlers : /\ Exchanging(h) => mem[h].code \in Codes
                           /\ Saves(h) => mem[h].saved # NoClient

\* What it says of everything else.
StoreOK ==
    /\ kind \in Kinds /\ presents \in Methods /\ (kind = "action" => presents # "none")
    /\ client \in Records \cup {NoClient}
    /\ pending \in Codes \cup {NoCode} /\ held \in Codes \cup {NoCode}
    /\ failures \in 0..LoginFailMax
    /\ grant \in [Codes -> {"free", "open", "used"}]
    /\ served \in BOOLEAN
    /\ wrong \in 0..MaxWrong /\ extra \in 0..MaxExtra /\ faults \in Nat /\ evictions \in Nat

LEMMA TypeParts == TypeOK <=> RequestsOK /\ StoreOK
BY DEF TypeOK, RequestsOK, StoreOK, Places, Memories, Saves

\* A request that has just begun knows nothing yet.
LEMMA BlankIsMemory ==
    ASSUME NEW c \in Codes \cup {NoCode}, NEW r \in Records \cup {NoClient}, NEW quiet \in BOOLEAN
    PROVE  Blank(c, r, quiet) \in Memories
BY DEF Blank, Memories

LEMMA NothingIsMemory == Nothing \in Memories
BY BlankIsMemory DEF Nothing

\* A deployment finds the store well typed.
LEMMA InitTypeOK == Init => TypeOK
<1> SUFFICES ASSUME Init PROVE RequestsOK /\ StoreOK
    BY TypeParts
<1>1. RequestsOK
    BY NothingIsMemory DEF Init, RequestsOK, Places, Exchanging, Saves
<1>2. StoreOK
    <2>1. /\ kind \in Kinds /\ presents \in Methods /\ (kind = "action" => presents # "none")
          /\ client \in Records \cup {NoClient}
        BY DEF Init
    <2>2. /\ 0 \in 0..LoginFailMax /\ 0 \in 0..MaxWrong /\ 0 \in 0..MaxExtra
          /\ [c \in Codes |-> "free"] \in [Codes -> {"free", "open", "used"}]
        OBVIOUS
    <2>3. served \in BOOLEAN
        BY DEF Init
    <2> QED BY <2>1, <2>2, <2>3 DEF Init, StoreOK
<1> QED BY <1>1, <1>2

\* A request moves on with a memory that fits the place it moves to.
LEMMA LearnedType ==
    ASSUME RequestsOK, NEW h \in Handlers, NEW where \in Places, NEW m \in Memories,
           Learned(h, where, m),
           where \in {"grant", "pending", "learn", "write", "provider", "prepared", "clear", "rollback"}
             => m.code \in Codes,
           where \in {"write", "prepared", "rollback"} => m.saved # NoClient
    PROVE  RequestsOK'
BY DEF RequestsOK, Learned, Exchanging, Saves

\* A request moves on and learns nothing.
LEMMA GoType ==
    ASSUME RequestsOK, NEW h \in Handlers, NEW where \in Places, Go(h, where),
           where \in {"grant", "pending", "learn", "write", "provider", "prepared", "clear", "rollback"}
             => mem[h].code \in Codes,
           where \in {"write", "prepared", "rollback"} => mem[h].saved # NoClient
    PROVE  RequestsOK'
BY DEF RequestsOK, Go, Exchanging, Saves

\* A request ends.
LEMMA FinishType ==
    ASSUME RequestsOK, NEW h \in Handlers, Finish(h)
    PROVE  RequestsOK'
BY LearnedType, NothingIsMemory DEF Finish, Places

\* A request begins.
LEMMA BeginType ==
    ASSUME RequestsOK, client \in Records \cup {NoClient}, NEW h \in Handlers, NEW where \in Places,
           NEW c \in Codes \cup {NoCode}, Begin(h, where, c),
           where \in {"lookup"} \/ (where \in {"grant", "pending", "provider"} /\ c \in Codes)
    PROVE  RequestsOK'
<1>1. pc' \in [Handlers -> Places]
    BY DEF Begin, RequestsOK
<1>2. Quiet \in BOOLEAN
    BY DEF Quiet
<1>3. Blank(c, client, Quiet) \in Memories
    BY <1>2, BlankIsMemory
<1>4. \A g \in Handlers : [mem[g] EXCEPT !.alone = FALSE] \in Memories
    <2>1. ASSUME NEW g \in Handlers PROVE [mem[g] EXCEPT !.alone = FALSE] \in Memories
        <3>1. mem[g] \in Memories
            BY DEF RequestsOK
        <3> QED BY <3>1 DEF Memories
    <2> QED BY <2>1
<1>5. mem' \in [Handlers -> Memories]
    BY <1>3, <1>4 DEF Begin, RequestsOK
<1>6. mem'[h].code = c
    BY DEF Begin, Blank
<1>7. \A g \in Handlers \ {h} : /\ pc'[g] = pc[g] /\ mem'[g].code = mem[g].code
                                /\ mem'[g].saved = mem[g].saved
    BY DEF Begin, RequestsOK, Memories
<1>8. pc'[h] = where
    BY DEF Begin, RequestsOK
<1> QED BY <1>1, <1>5, <1>6, <1>7, <1>8 DEF RequestsOK, Exchanging, Saves

\* The memory of a request that has learned one thing.
LEMMA MemoryUpdates ==
    ASSUME NEW m \in Memories
    PROVE  /\ \A b \in BOOLEAN : [m EXCEPT !.missing = b] \in Memories
           /\ \A n \in 0..(LoginFailMax - 1) : [m EXCEPT !.read = n] \in Memories
           /\ [m EXCEPT !.created = TRUE] \in Memories
           /\ \A c \in Codes : /\ [m EXCEPT !.code = c] \in Memories
                               /\ [m EXCEPT !.code = c].code = c
           /\ \A r \in Records : /\ [m EXCEPT !.saved = r] \in Memories
                                 /\ [m EXCEPT !.saved = r].saved = r
                                 /\ [m EXCEPT !.saved = r].code = m.code
BY DEF Memories

LEMMA FreshIsRecord == Fresh \in Records
BY DEF Fresh, Records, Methods

\* The record with the secret it has learned.
LEMMA WrittenIsRecord ==
    ASSUME StoreOK, NEW r \in Records, NEW mark \in {"plain", "connector"}
    PROVE  [r EXCEPT !.secret = TRUE, !.method = presents, !.mark = mark] \in Records
BY DEF StoreOK, Records

\* An authorization keeps the requests well typed.
LEMMA AuthorizationRequests ==
    ASSUME RequestsOK, StoreOK, NEW h \in Handlers,
           Lookup(h) \/ ReadFailures(h) \/ WrongCode(h) \/ RightCode(h) \/ Register(h)
             \/ Create(h) \/ Complete(h) \/ CompleteThrows(h) \/ Remember(h) \/ Undo(h)
    PROVE  RequestsOK'
<1> mem[h] \in Memories
    BY DEF RequestsOK
<1> USE DEF Places
<1>1. CASE Lookup(h)
    <2>1. Missing(client) \in BOOLEAN
        BY DEF Missing
    <2>2. [mem[h] EXCEPT !.missing = Missing(client)] \in Memories
        BY <2>1, MemoryUpdates
    <2> QED BY <1>1, <2>2, LearnedType, FinishType DEF Lookup
<1>2. CASE ReadFailures(h)
    <2>1. CASE failures >= LoginFailMax
        BY <1>2, <2>1, FinishType DEF ReadFailures
    <2>2. CASE ~(failures >= LoginFailMax)
        <3>1. failures \in 0..(LoginFailMax - 1)
            BY <2>2 DEF StoreOK
        <3>2. [mem[h] EXCEPT !.read = failures] \in Memories
            BY <3>1, MemoryUpdates
        <3> QED BY <1>2, <2>2, <3>2, LearnedType DEF ReadFailures
    <2> QED BY <2>1, <2>2
<1>3. CASE WrongCode(h)
    BY <1>3, FinishType DEF WrongCode
<1>4. CASE RightCode(h)
    BY <1>4, GoType DEF RightCode
<1>5. CASE Register(h)
    BY <1>5, GoType, FinishType DEF Register
<1>6. CASE Create(h)
    BY <1>6, MemoryUpdates, LearnedType DEF Create
<1>7. CASE Complete(h)
    <2>1. PICK c \in Codes : \/ Learned(h, "remember", [mem[h] EXCEPT !.code = c])
                             \/ Finish(h)
        BY <1>7 DEF Complete
    <2> QED BY <2>1, MemoryUpdates, LearnedType, FinishType
<1>8. CASE CompleteThrows(h)
    BY <1>8, GoType, FinishType DEF CompleteThrows
<1>9. CASE Remember(h)
    BY <1>9, FinishType DEF Remember
<1>10. CASE Undo(h)
    BY <1>10, FinishType DEF Undo
<1> QED BY <1>1, <1>2, <1>3, <1>4, <1>5, <1>6, <1>7, <1>8, <1>9, <1>10

\* A token exchange keeps the requests well typed.
LEMMA ExchangeRequests ==
    ASSUME RequestsOK, StoreOK, NEW h \in Handlers,
           ReadGrant(h) \/ ReadPending(h) \/ Learn(h) \/ Write(h) \/ Issue(h)
             \/ Clear(h) \/ Refuse(h) \/ Rollback(h)
    PROVE  RequestsOK'
<1>1. /\ mem[h] \in Memories
      /\ Exchanging(h) => mem[h].code \in Codes
      /\ Saves(h) => mem[h].saved # NoClient
    BY DEF RequestsOK
<1> USE DEF Places, Exchanging, Saves
<1>2. CASE ReadGrant(h)
    BY <1>1, <1>2, GoType DEF ReadGrant
<1>3. CASE ReadPending(h)
    BY <1>1, <1>3, GoType DEF ReadPending
<1>4. CASE Learn(h)
    <2>1. CASE Learns(client)
        <3>1. client \in Records
            BY <2>1 DEF Learns, StoreOK
        <3> QED BY <1>1, <1>4, <2>1, <3>1, MemoryUpdates, LearnedType DEF Learn
    <2>2. CASE ~Learns(client)
        BY <1>1, <1>4, <2>2, GoType DEF Learn
    <2> QED BY <2>1, <2>2
<1>5. CASE Write(h)
    BY <1>1, <1>5, GoType DEF Write
<1>6. CASE Issue(h)
    BY <1>1, <1>6, GoType, FinishType DEF Issue, AtProvider
<1>7. CASE Clear(h)
    BY <1>7, FinishType DEF Clear
<1>8. CASE Refuse(h)
    BY <1>1, <1>8, GoType, FinishType DEF Refuse, AtProvider, RollsBack
<1>9. CASE Rollback(h)
    BY <1>9, FinishType DEF Rollback
<1> QED BY <1>2, <1>3, <1>4, <1>5, <1>6, <1>7, <1>8, <1>9

\* Every step leaves the store well typed.
LEMMA NextStoreOK ==
    ASSUME TypeOK, [Next]_vars
    PROVE  StoreOK'
<1>1. RequestsOK /\ StoreOK
    BY TypeParts
<1> USE DEF world, store
<1>2. ASSUME NEW h \in Handlers, SubmitLogin(h) \/ SubmitExchange(h) PROVE StoreOK'
    BY <1>1, <1>2 DEF SubmitLogin, SubmitExchange, Begin, StoreOK
<1>3. ASSUME NEW h \in Handlers, Evict(h) PROVE StoreOK'
    BY <1>1, <1>3 DEF Evict, StoreOK
<1>4. ASSUME NEW h \in Handlers, Step(h) PROVE StoreOK'
    <2>1. mem[h] \in Memories
        BY <1>1 DEF RequestsOK
    <2>2. CASE Lookup(h) \/ ReadFailures(h) \/ Register(h) \/ ReadGrant(h) \/ ReadPending(h)
               \/ Learn(h)
        BY <1>1, <2>2 DEF Lookup, ReadFailures, Register, ReadGrant, ReadPending, Learn, StoreOK
    <2>3. CASE WrongCode(h)
        <3>1. mem[h].read + 1 \in 0..LoginFailMax /\ wrong + 1 \in 0..MaxWrong
            BY <1>1, <2>1, <2>3 DEF WrongCode, StoreOK, Memories
        <3> QED BY <1>1, <2>3, <3>1 DEF WrongCode, StoreOK
    <2>4. CASE RightCode(h)
        BY <1>1, <2>4 DEF RightCode, StoreOK
    <2>5. CASE Create(h)
        BY <1>1, <2>5, FreshIsRecord DEF Create, StoreOK
    <2>6. CASE Complete(h)
        BY <1>1, <2>6 DEF Complete, StoreOK
    <2>7. CASE CompleteThrows(h) \/ Refuse(h)
        BY <1>1, <2>7 DEF CompleteThrows, Refuse, StoreOK
    <2>8. CASE Remember(h)
        BY <1>1, <2>1, <2>8 DEF Remember, StoreOK, Memories
    <2>9. CASE Undo(h) \/ Clear(h)
        BY <1>1, <2>9 DEF Undo, Clear, StoreOK
    <2>10. CASE Write(h)
        <3>1. mem[h].saved \in Records
            BY <1>1, <2>1, <2>10 DEF Write, RequestsOK, Saves, Memories
        <3>2. client' \in Records
            BY <1>1, <2>10, <3>1, WrittenIsRecord DEF Write
        <3> QED BY <1>1, <2>10, <3>2 DEF Write, StoreOK
    <2>11. CASE Issue(h)
        BY <1>1, <2>11 DEF Issue, StoreOK
    <2>12. CASE Rollback(h)
        BY <1>1, <2>1, <2>12 DEF Rollback, StoreOK, Memories
    <2> QED BY <1>4, <2>2, <2>3, <2>4, <2>5, <2>6, <2>7, <2>8, <2>9, <2>10, <2>11, <2>12 DEF Step
<1>5. CASE Expire
    BY <1>1, <1>5 DEF Expire, StoreOK
<1>6. ASSUME NEW c \in Codes, Forget(c) PROVE StoreOK'
    BY <1>1, <1>6 DEF Forget, StoreOK
<1>7. CASE UNCHANGED vars
    BY <1>1, <1>7 DEF vars, StoreOK
<1> QED BY <1>2, <1>3, <1>4, <1>5, <1>6, <1>7 DEF Next

LEMMA NextRequestsOK ==
    ASSUME TypeOK, [Next]_vars
    PROVE  RequestsOK'
<1>1. RequestsOK /\ StoreOK
    BY TypeParts
<1>2. ASSUME NEW h \in Handlers, SubmitLogin(h) PROVE RequestsOK'
    BY <1>1, <1>2, BeginType DEF SubmitLogin, StoreOK, Places
<1>3. ASSUME NEW h \in Handlers, SubmitExchange(h) PROVE RequestsOK'
    BY <1>1, <1>3, BeginType DEF SubmitExchange, StoreOK, Places
<1>4. ASSUME NEW h \in Handlers, Evict(h) PROVE RequestsOK'
    BY <1>1, <1>4, FinishType DEF Evict
<1>5. ASSUME NEW h \in Handlers, Step(h) PROVE RequestsOK'
    BY <1>1, <1>5, AuthorizationRequests, ExchangeRequests DEF Step
<1>6. CASE UNCHANGED <<pc, mem>>
    BY <1>1, <1>6 DEF RequestsOK, Exchanging, Saves
<1> QED BY <1>2, <1>3, <1>4, <1>5, <1>6 DEF Next, Expire, Forget, world, store, vars

\* The variables of the store and of the requests stay in their types.
THEOREM TypeCorrect == Spec => []TypeOK
<1>1. TypeOK /\ [Next]_vars => TypeOK'
    <2> SUFFICES ASSUME TypeOK, [Next]_vars PROVE TypeOK'
        OBVIOUS
    <2>1. RequestsOK' /\ StoreOK'
        BY NextRequestsOK, NextStoreOK
    <2> QED BY <2>1 DEF TypeOK, RequestsOK, StoreOK, Places, Memories, Saves
<1> QED BY <1>1, InitTypeOK, PTL DEF Spec

(***************************************************************************)
(* Locks, and requests that nobody overlaps.                               *)
(***************************************************************************)

\* A request that has begun is on its way with what it knows and leaves the
\* others alone.
LEMMA StepIsLocal ==
    ASSUME RequestsOK, NEW h \in Handlers, Step(h) \/ Evict(h)
    PROVE  /\ pc[h] # "idle" /\ kind' = kind /\ presents' = presents
           /\ \A g \in Handlers \ {h} : pc'[g] = pc[g] /\ mem'[g] = mem[g]
<1> USE DEF RequestsOK, Finish, Learned, Go, world
<1>1. CASE Evict(h)
    BY <1>1 DEF Evict
<1>2. CASE Lookup(h) \/ ReadFailures(h) \/ WrongCode(h) \/ RightCode(h) \/ Register(h)
    BY <1>2 DEF Lookup, ReadFailures, WrongCode, RightCode, Register
<1>3. CASE Create(h) \/ Complete(h) \/ CompleteThrows(h) \/ Remember(h) \/ Undo(h)
    BY <1>3 DEF Create, Complete, CompleteThrows, Remember, Undo
<1>4. CASE ReadGrant(h) \/ ReadPending(h) \/ Learn(h) \/ Write(h)
    BY <1>4 DEF ReadGrant, ReadPending, Learn, Write
<1>5. CASE Issue(h) \/ Clear(h) \/ Refuse(h) \/ Rollback(h)
    BY <1>5 DEF Issue, AtProvider, Clear, Refuse, Rollback
<1> QED BY <1>1, <1>2, <1>3, <1>4, <1>5 DEF Step

\* A wrong code moves the counter and the number of mistakes by one.
LEMMA MistakesStayCounted ==
    ASSUME TypeOK, [Next]_vars, MistakesAreCounted
    PROVE  MistakesAreCounted'
<1>1. RequestsOK /\ StoreOK
    BY TypeParts
<1>2. \A h \in Handlers : mem[h].read \in Nat /\ mem[h].read <= wrong
    BY <1>1 DEF RequestsOK, Memories, MistakesAreCounted
<1>3. wrong \in Nat /\ failures \in Nat /\ failures <= wrong
    BY <1>1 DEF StoreOK, MistakesAreCounted
<1>4. wrong' \in Nat /\ wrong <= wrong'
    <2>1. CASE \E h \in Handlers : WrongCode(h)
        BY <1>3, <2>1 DEF WrongCode
    <2>2. CASE UNCHANGED wrong
        BY <1>3, <2>2
    <2> QED
        BY <2>1, <2>2 DEF Next, SubmitLogin, SubmitExchange, Begin, Evict, Expire, Forget, Step, Lookup,
            ReadFailures, RightCode, Register, Create, Complete, CompleteThrows, Remember, Undo,
            ReadGrant, ReadPending, Learn, Write, Issue, Clear, Refuse, Rollback, world, vars
<1>5. failures' <= wrong'
    <2>1. CASE \E h \in Handlers : WrongCode(h)
        BY <1>2, <1>3, <2>1 DEF WrongCode
    <2>2. CASE failures' \in {failures, 0}
        BY <1>3, <1>4, <2>2
    <2> QED
        BY <2>1, <2>2 DEF Next, SubmitLogin, SubmitExchange, Begin, Evict, Expire, Forget, Step, Lookup,
            ReadFailures, RightCode, Register, Create, Complete, CompleteThrows, Remember, Undo,
            ReadGrant, ReadPending, Learn, Write, Issue, Clear, Refuse, Rollback, store, vars
<1>6. \A g \in Handlers : mem'[g].read \in {mem[g].read, 0, failures}
    <2> USE DEF RequestsOK, Memories
    <2>1. \A m \in Memories : \A v :
              /\ [m EXCEPT !.missing = v].read = m.read
              /\ [m EXCEPT !.created = v].read = m.read
              /\ [m EXCEPT !.code = v].read = m.read
              /\ [m EXCEPT !.saved = v].read = m.read
              /\ [m EXCEPT !.alone = v].read = m.read
              /\ [m EXCEPT !.read = v].read = v
        OBVIOUS
    <2>2. ASSUME NEW h \in Handlers, SubmitLogin(h) \/ SubmitExchange(h)
          PROVE  \A g \in Handlers : mem'[g].read \in {mem[g].read, 0}
        BY <1>1, <2>1, <2>2 DEF SubmitLogin, SubmitExchange, Begin, Blank
    <2>3. ASSUME NEW h \in Handlers, Step(h) \/ Evict(h)
          PROVE  \A g \in Handlers : mem'[g].read \in {mem[g].read, 0, failures}
        <3>1. CASE \E where \in Places : Go(h, where)
            BY <3>1 DEF Go
        <3>2. CASE Finish(h)
            BY <1>1, <3>2 DEF Finish, Learned, Nothing, Blank
        <3>3. CASE \E where, v : \/ Learned(h, where, [mem[h] EXCEPT !.missing = v])
                                 \/ Learned(h, where, [mem[h] EXCEPT !.created = v])
                                 \/ Learned(h, where, [mem[h] EXCEPT !.code = v])
                                 \/ Learned(h, where, [mem[h] EXCEPT !.saved = v])
            BY <1>1, <2>1, <3>3 DEF Learned
        <3>4. CASE ReadFailures(h)
            BY <1>1, <2>1, <3>2, <3>4 DEF ReadFailures, Learned
        <3> QED
            BY <2>3, <3>1, <3>2, <3>3, <3>4 DEF Step, Evict, Lookup, WrongCode, RightCode, Register,
                Create, Complete, CompleteThrows, Remember, Undo, ReadGrant, ReadPending, Learn,
                Write, Issue, Clear, Refuse, Rollback, Places
    <2>4. CASE UNCHANGED mem
        BY <2>4
    <2> QED BY <2>2, <2>3, <2>4 DEF Next, Expire, Forget, world, vars
<1> QED BY <1>2, <1>3, <1>4, <1>5, <1>6 DEF MistakesAreCounted

\* A request that is on its own and goes on is still on the record it began
\* with, whatever it has written meanwhile.
LEMMA StaysOnItsRecord ==
    ASSUME RequestsOK, NEW h \in Handlers, Step(h), OnItsRecord(h), pc'[h] # "idle"
    PROVE  OnItsRecord(h)'
<1> USE DEF RequestsOK, OnItsRecord
<1>1. ASSUME NEW where \in {"counter", "login", "register", "create", "complete", "remember",
                           "undo", "clear"}, pc'[h] = where
      PROVE  OnItsRecord(h)'
    BY <1>1
<1>2. CASE ReadGrant(h) \/ ReadPending(h)
    BY <1>2 DEF ReadGrant, ReadPending, Go, store
<1>3. CASE Learn(h)
    <2>1. CASE Learns(client)
        <3>1. mem[h] \in Memories
            OBVIOUS
        <3>2. mem'[h].saved = client /\ mem'[h].before = mem[h].before /\ pc'[h] = "write"
            BY <1>3, <2>1, <3>1 DEF Learn, Learned, Memories
        <3> QED BY <1>3, <3>2 DEF Learn, store
    <2>2. CASE ~Learns(client)
        BY <1>3, <2>2 DEF Learn, Go, store
    <2> QED BY <2>1, <2>2
<1>4. CASE Write(h)
    BY <1>4 DEF Write, Go
<1>5. CASE Refuse(h)
    BY <1>5 DEF Refuse, RollsBack, Go, Finish, Learned
<1>6. CASE Lookup(h) \/ ReadFailures(h) \/ WrongCode(h) \/ RightCode(h) \/ Register(h)
    BY <1>1, <1>6 DEF Lookup, ReadFailures, WrongCode, RightCode, Register, Go, Finish, Learned
<1>7. CASE Create(h) \/ Complete(h) \/ CompleteThrows(h) \/ Remember(h) \/ Undo(h)
    BY <1>1, <1>7 DEF Create, Complete, CompleteThrows, Remember, Undo, Go, Finish, Learned
<1>8. CASE Issue(h) \/ Clear(h) \/ Rollback(h)
    BY <1>1, <1>8 DEF Issue, Clear, Rollback, Go, Finish, Learned
<1> QED BY <1>2, <1>3, <1>4, <1>5, <1>6, <1>7, <1>8 DEF Step

\* What a request knows of having been alone changes at its end only.
LEMMA AloneIsRemembered ==
    ASSUME RequestsOK, NEW h \in Handlers, Step(h), pc'[h] # "idle"
    PROVE  mem'[h].alone = mem[h].alone
<1>1. mem[h] \in Memories
    BY DEF RequestsOK
<1>2. \A v : /\ [mem[h] EXCEPT !.missing = v].alone = mem[h].alone
             /\ [mem[h] EXCEPT !.created = v].alone = mem[h].alone
             /\ [mem[h] EXCEPT !.code = v].alone = mem[h].alone
             /\ [mem[h] EXCEPT !.saved = v].alone = mem[h].alone
             /\ [mem[h] EXCEPT !.read = v].alone = mem[h].alone
    BY <1>1 DEF Memories
<1>3. CASE mem' = mem
    BY <1>3
<1>4. CASE \E where, v : \/ Learned(h, where, [mem[h] EXCEPT !.missing = v])
                         \/ Learned(h, where, [mem[h] EXCEPT !.created = v])
                         \/ Learned(h, where, [mem[h] EXCEPT !.code = v])
                         \/ Learned(h, where, [mem[h] EXCEPT !.saved = v])
                         \/ Learned(h, where, [mem[h] EXCEPT !.read = v])
    <2>1. PICK where, v : \/ Learned(h, where, [mem[h] EXCEPT !.missing = v])
                          \/ Learned(h, where, [mem[h] EXCEPT !.created = v])
                          \/ Learned(h, where, [mem[h] EXCEPT !.code = v])
                          \/ Learned(h, where, [mem[h] EXCEPT !.saved = v])
                          \/ Learned(h, where, [mem[h] EXCEPT !.read = v])
        BY <1>4
    <2>2. \E m : m.alone = mem[h].alone /\ mem' = [mem EXCEPT ![h] = m]
        BY <1>2, <2>1 DEF Learned
    <2> QED BY <2>2 DEF RequestsOK
<1>5. ~Finish(h)
    BY DEF RequestsOK, Finish, Learned
<1> QED
    BY <1>3, <1>4, <1>5 DEF Step, Lookup, ReadFailures, WrongCode, RightCode, Register, Create, Complete,
        CompleteThrows, Remember, Undo, ReadGrant, ReadPending, Learn, Write, Issue, Clear, Refuse,
        Rollback, Go

\* A request that begins ends the solitude of all the others.
LEMMA AloneStays ==
    ASSUME TypeOK, [Next]_vars, AloneOnItsRecord
    PROVE  AloneOnItsRecord'
<1>1. RequestsOK
    BY TypeParts
<1>2. ASSUME NEW h \in Handlers, NEW where \in {"lookup", "grant", "pending", "provider"}, NEW c,
             Begin(h, where, c)
      PROVE  AloneOnItsRecord'
    <2>1. \A g \in Handlers \ {h} : pc'[g] = pc[g] /\ (pc[g] # "idle" => ~mem'[g].alone)
        BY <1>1, <1>2 DEF Begin, RequestsOK, Memories
    <2>2. mem'[h].alone = Quiet /\ mem'[h].before = client /\ mem'[h].saved = NoClient
        BY <1>2 DEF Begin, Blank
    <2>3. client' = client /\ pc'[h] = where /\ pc[h] = "idle"
        BY <1>1, <1>2 DEF Begin, store, RequestsOK
    <2>4. OnItsRecord(h)'
        BY <2>2, <2>3 DEF OnItsRecord
    <2>5. CASE Quiet
        BY <2>1, <2>4, <2>5 DEF AloneOnItsRecord, Quiet
    <2>6. CASE ~Quiet
        <3>1. ~mem'[h].alone
            BY <2>2, <2>6
        <3> QED BY <2>1, <2>3, <3>1 DEF AloneOnItsRecord
    <2> QED BY <2>5, <2>6
<1>3. ASSUME NEW h \in Handlers, Step(h) PROVE AloneOnItsRecord'
    <2>1. pc[h] # "idle" /\ \A g \in Handlers \ {h} : pc'[g] = pc[g] /\ mem'[g] = mem[g]
        BY <1>1, <1>3, StepIsLocal
    <2>2. pc'[h] # "idle" /\ mem'[h].alone => OnItsRecord(h)'
        BY <1>1, <1>3, <2>1, StaysOnItsRecord, AloneIsRemembered DEF AloneOnItsRecord
    <2>3. pc'[h] # "idle" => mem'[h].alone = mem[h].alone
        BY <1>1, <1>3, AloneIsRemembered
    <2> QED BY <2>1, <2>2, <2>3 DEF AloneOnItsRecord
<1>4. ASSUME NEW h \in Handlers, Evict(h) PROVE AloneOnItsRecord'
    <2>1. pc[h] # "idle" /\ \A g \in Handlers \ {h} : pc'[g] = pc[g] /\ mem'[g] = mem[g]
        BY <1>1, <1>4, StepIsLocal
    <2>2. pc'[h] = "idle"
        BY <1>1, <1>4 DEF Evict, Finish, Learned, RequestsOK
    <2> QED BY <2>1, <2>2 DEF AloneOnItsRecord
<1>5. CASE UNCHANGED <<client, pc, mem>>
    BY <1>5 DEF AloneOnItsRecord, OnItsRecord
<1> QED BY <1>2, <1>3, <1>4, <1>5 DEF Next, SubmitLogin, SubmitExchange, Expire, Forget, world, vars

\* The records are well formed, nobody is locked out by others' luck, and a
\* request nobody interferes with is not disturbed.
THEOREM ClientsAreServed == Spec => []ClientsInv
<1>1. Init => MistakesAreCounted /\ AloneOnItsRecord
    BY DEF Init, MistakesAreCounted, AloneOnItsRecord, Nothing, Blank
<1>2. TypeOK /\ MistakesAreCounted => LockIsEarned
    <2> SUFFICES ASSUME TypeOK, MistakesAreCounted PROVE LockIsEarned
        OBVIOUS
    <2> QED BY TypeParts DEF StoreOK, MistakesAreCounted, LockIsEarned
<1>3. /\ TypeOK /\ [Next]_vars /\ MistakesAreCounted => MistakesAreCounted'
      /\ TypeOK /\ [Next]_vars /\ AloneOnItsRecord => AloneOnItsRecord'
    BY MistakesStayCounted, AloneStays
<1> QED BY <1>1, <1>2, <1>3, TypeCorrect, PTL DEF Spec, ClientsInv

\* An exchange that overlaps no other request and is refused leaves the record
\* as it found it.
THEOREM RefusalLeavesNoTrace == Spec => RefusalLeavesRecord
<1>1. ASSUME RequestsOK, StoreOK, AloneOnItsRecord, [Next]_vars, NEW h \in Handlers,
             mem[h].alone, pc[h] \in {"provider", "prepared", "rollback"}, pc'[h] = "idle",
             served' = served, grant' = grant, evictions' = evictions
      PROVE  client' = mem[h].before
    <2>1. RequestsOK /\ StoreOK
        BY <1>1
    <2>2. OnItsRecord(h) /\ mem[h].code \in Codes
        BY <1>1, <2>1 DEF AloneOnItsRecord, RequestsOK, Exchanging
    <2>3. Step(h)
        <3>1. ~Evict(h)
            BY <1>1, <2>1 DEF Evict, StoreOK
        <3>2. \A g \in Handlers \ {h} : ~Step(g) /\ ~Evict(g)
            BY <1>1, <2>1, StepIsLocal
        <3>3. \A g \in Handlers : \A where, c : ~Begin(g, where, c)
            BY <1>1, <2>1 DEF Begin, RequestsOK
        <3> QED BY <1>1, <3>1, <3>2, <3>3 DEF Next, SubmitLogin, SubmitExchange, Expire, Forget, world, vars
    <2>4. CASE Issue(h)
        BY <1>1, <2>1, <2>2, <2>4 DEF Issue, StoreOK
    <2>5. CASE Refuse(h)
        <3>1. pc[h] = "provider" /\ client' = client
            BY <1>1, <2>1, <2>5 DEF Refuse, AtProvider, RollsBack, Go, RequestsOK, store
        <3> QED BY <2>2, <3>1 DEF OnItsRecord
    <2>6. CASE Rollback(h)
        BY <1>1, <2>2, <2>6 DEF Rollback, OnItsRecord
    <2> QED
        BY <1>1, <2>3, <2>4, <2>5, <2>6 DEF Step, Lookup, ReadFailures, WrongCode, RightCode, Register,
            Create, Complete, CompleteThrows, Remember, Undo, ReadGrant, ReadPending, Learn, Write, Clear
<1>2. TypeOK /\ AloneOnItsRecord /\ [Next]_vars =>
        [\A h \in Handlers :
           mem[h].alone /\ pc[h] \in {"provider", "prepared", "rollback"} /\ pc'[h] = "idle"
             /\ served' = served /\ grant' = grant /\ evictions' = evictions
           => client' = mem[h].before]_vars
    BY <1>1, TypeParts
<1> QED BY <1>2, ClientsAreServed, PTL DEF Spec, ClientsInv, RefusalLeavesRecord

(***************************************************************************)
(* Records that know their client.                                         *)
(***************************************************************************)

\* A request that has only seen records that know the client does not take the
\* record for lost, has made none, and has such a one to put back.
Harmless(h) ==
    pc[h] # "idle" =>
        /\ ~mem[h].missing /\ ~mem[h].created /\ pc[h] \notin {"create", "undo"}
        /\ Saves(h) => Known(mem[h].saved)
        /\ pc[h] = "write" => presents # "none"

\* Nothing under way can make the record forget the client.
Settled == Known(client) /\ \A h \in Handlers : Harmless(h)

\* What a harmless request writes knows the client, and it stays harmless.
LEMMA HarmlessStep ==
    ASSUME TypeOK, Settled, NEW h \in Handlers, Step(h)
    PROVE  Known(client)' /\ Harmless(h)'
<1>1. RequestsOK /\ StoreOK /\ mem[h] \in Memories
    BY TypeParts DEF RequestsOK
<1>2. pc[h] # "idle" /\ presents' = presents /\ kind' = kind
    BY <1>1, StepIsLocal
<1>3. /\ ~mem[h].missing /\ ~mem[h].created /\ pc[h] \notin {"create", "undo"}
      /\ Saves(h) => Known(mem[h].saved)
      /\ pc[h] = "write" => presents # "none"
    BY <1>2 DEF Settled, Harmless
<1>4. client \in Records /\ (client.secret <=> presents # "none") /\ Known(client)
    BY <1>1 DEF Settled, Known, StoreOK
<1>5. client' = client => Known(client)'
    BY <1>2, <1>4 DEF Known
<1>6. Finish(h) => Harmless(h)'
    BY <1>1 DEF Finish, Learned, RequestsOK, Harmless
<1>7. ASSUME NEW where, where \notin {"create", "undo", "write", "prepared", "rollback"}, Go(h, where)
      PROVE  Harmless(h)'
    BY <1>1, <1>3, <1>7 DEF Go, RequestsOK, Harmless, Saves
<1>8. CASE Lookup(h)
    <2>1. ~Missing(client)
        BY <1>1, <1>4 DEF Missing, Known, StoreOK
    <2>2. CASE Finish(h)
        BY <1>5, <1>6, <1>8, <2>2 DEF Lookup, store
    <2>3. CASE ~Finish(h)
        <3> DEFINE m == [mem[h] EXCEPT !.missing = Missing(client)]
        <3>1. m.missing = Missing(client) /\ m.created = mem[h].created
            BY <1>1 DEF Memories
        <3>2. pc'[h] = "counter" /\ mem'[h] = m
            BY <1>1, <1>8, <2>3 DEF Lookup, Learned, RequestsOK
        <3>3. ~mem'[h].missing /\ ~mem'[h].created
            BY <1>3, <2>1, <3>1, <3>2
        <3> QED BY <1>5, <1>8, <3>2, <3>3 DEF Lookup, store, Harmless, Saves
    <2> QED BY <2>2, <2>3
<1>9. CASE ReadFailures(h)
    <2>1. CASE failures >= LoginFailMax
        BY <1>5, <1>6, <1>9, <2>1 DEF ReadFailures, store
    <2>2. CASE ~(failures >= LoginFailMax)
        <3>1. /\ [mem[h] EXCEPT !.read = failures].missing = mem[h].missing
              /\ [mem[h] EXCEPT !.read = failures].created = mem[h].created
            BY <1>1 DEF Memories
        <3>2. pc'[h] = "login" /\ ~mem'[h].missing /\ ~mem'[h].created
            BY <1>1, <1>3, <1>9, <2>2, <3>1 DEF ReadFailures, Learned, RequestsOK
        <3> QED BY <1>5, <1>9, <2>2, <3>2 DEF ReadFailures, store, Harmless, Saves
    <2> QED BY <2>1, <2>2
<1>10. CASE WrongCode(h)
    BY <1>5, <1>6, <1>10 DEF WrongCode
<1>11. CASE RightCode(h)
    BY <1>5, <1>7, <1>11 DEF RightCode
<1>12. CASE Register(h)
    BY <1>4, <1>5, <1>6, <1>7, <1>12 DEF Register, Known, store
<1>13. CASE Complete(h)
    <2>1. CASE Finish(h)
        BY <1>5, <1>6, <1>13, <2>1 DEF Complete
    <2>2. CASE ~Finish(h)
        BY <1>3, <1>13, <2>2 DEF Complete
    <2> QED BY <2>1, <2>2
<1>14. CASE CompleteThrows(h)
    BY <1>3, <1>5, <1>6, <1>14 DEF CompleteThrows, TakesBack, store
<1>15. CASE Remember(h)
    BY <1>5, <1>6, <1>15 DEF Remember
<1>16. CASE ReadGrant(h) \/ ReadPending(h)
    BY <1>5, <1>7, <1>16 DEF ReadGrant, ReadPending, store
<1>17. CASE Learn(h)
    <2>1. CASE Learns(client)
        <3>1. /\ [mem[h] EXCEPT !.saved = client].missing = mem[h].missing
              /\ [mem[h] EXCEPT !.saved = client].created = mem[h].created
              /\ [mem[h] EXCEPT !.saved = client].saved = client
            BY <1>1 DEF Memories
        <3>2. /\ pc'[h] = "write" /\ ~mem'[h].missing /\ ~mem'[h].created
              /\ mem'[h].saved = client /\ client' = client
            BY <1>1, <1>3, <1>17, <2>1, <3>1 DEF Learn, Learned, RequestsOK, store
        <3>3. presents # "none"
            BY <1>1, <2>1 DEF Learns, StoreOK
        <3> QED BY <1>2, <1>4, <3>2, <3>3 DEF Harmless, Saves, Known
    <2>2. CASE ~Learns(client)
        BY <1>5, <1>7, <1>17, <2>2 DEF Learn, store
    <2> QED BY <2>1, <2>2
<1>18. CASE Write(h)
    <2>1. mem[h].saved \in Records /\ presents # "none" /\ Known(mem[h].saved)
        BY <1>1, <1>3, <1>18 DEF Write, RequestsOK, Saves, Memories
    <2>2. client' # NoClient /\ client'.secret
        <3>1. client' \in Records
            BY <1>1, <1>18, <2>1, WrittenIsRecord DEF Write
        <3> QED BY <1>18, <2>1, <3>1 DEF Write, Records
    <2>3. pc'[h] = "prepared" /\ mem' = mem
        BY <1>1, <1>18 DEF Write, Go, RequestsOK
    <2> QED BY <1>2, <1>3, <2>1, <2>2, <2>3 DEF Known, Harmless, Saves
<1>19. CASE Issue(h)
    BY <1>5, <1>6, <1>7, <1>19 DEF Issue
<1>20. CASE Clear(h)
    BY <1>5, <1>6, <1>20 DEF Clear
<1>21. CASE Refuse(h)
    <2>1. CASE RollsBack(h)
        <3>1. pc'[h] = "rollback" /\ mem' = mem /\ client' = client
            BY <1>1, <1>21, <2>1 DEF Refuse, Go, RequestsOK, store
        <3> QED BY <1>2, <1>3, <1>5, <2>1, <3>1 DEF RollsBack, Harmless, Saves, Known
    <2>2. CASE ~RollsBack(h)
        BY <1>5, <1>6, <1>21, <2>2 DEF Refuse, store
    <2> QED BY <2>1, <2>2
<1>22. CASE Rollback(h)
    BY <1>2, <1>3, <1>6, <1>22 DEF Rollback, Saves, Known
<1> QED
    BY <1>3, <1>8, <1>9, <1>10, <1>11, <1>12, <1>13, <1>14, <1>15, <1>16, <1>17, <1>18, <1>19, <1>20,
       <1>21, <1>22 DEF Step, Create, Undo

\* Nothing that happens makes a settled record forget its client.
LEMMA SettledStays ==
    ASSUME TypeOK, [Next]_vars, Settled
    PROVE  Settled'
<1>1. RequestsOK /\ StoreOK
    BY TypeParts
<1>2. ASSUME NEW h \in Handlers, presents' = presents, Known(client)', Harmless(h)',
             \A g \in Handlers \ {h} : pc'[g] = pc[g] /\ (mem'[g] = mem[g] \/
                 (/\ mem'[g].missing = mem[g].missing /\ mem'[g].created = mem[g].created
                  /\ mem'[g].saved = mem[g].saved))
      PROVE  Settled'
    BY <1>2 DEF Settled, Harmless, Saves, Known
<1>3. ASSUME NEW h \in Handlers, NEW where \in {"lookup", "grant", "pending", "provider"}, NEW c,
             Begin(h, where, c)
      PROVE  Settled'
    <2>1. \A g \in Handlers \ {h} : /\ pc'[g] = pc[g] /\ mem'[g].missing = mem[g].missing
                                    /\ mem'[g].created = mem[g].created
                                    /\ mem'[g].saved = mem[g].saved
        BY <1>1, <1>3 DEF Begin, RequestsOK, Memories
    <2>2. pc'[h] = where /\ ~mem'[h].missing /\ ~mem'[h].created
        BY <1>1, <1>3 DEF Begin, Blank, RequestsOK
    <2>3. Harmless(h)' /\ Known(client)' /\ presents' = presents
        BY <1>3, <2>2 DEF Begin, Harmless, Saves, Settled, Known, store
    <2> QED BY <1>2, <2>1, <2>3
<1>4. ASSUME NEW h \in Handlers, Step(h) PROVE Settled'
    BY <1>1, <1>2, <1>4, HarmlessStep, StepIsLocal
<1>5. ASSUME NEW h \in Handlers, Evict(h) PROVE Settled'
    <2>1. Harmless(h)'
        BY <1>1, <1>5 DEF Evict, Finish, Learned, RequestsOK, Harmless
    <2>2. Known(client)' /\ presents' = presents
        BY <1>5 DEF Evict, store, Settled, Known
    <2> QED BY <1>1, <1>2, <1>5, <2>1, <2>2, StepIsLocal
<1>6. CASE UNCHANGED <<presents, client, pc, mem>>
    BY <1>6 DEF Settled, Harmless, Saves, Known
<1> QED BY <1>3, <1>4, <1>5, <1>6 DEF Next, SubmitLogin, SubmitExchange, Expire, Forget, world, vars

\* Recovery is for lost records: once the record knows the client and no request
\* is under way, it knows the client for ever after.
THEOREM KnownIsKept == Spec => SettledClientIsKept
<1>1. Quiet /\ Known(client) => Settled
    BY DEF Quiet, Settled, Harmless
<1>2. Settled => Known(client)
    BY DEF Settled
<1>3. TypeOK /\ [Next]_vars /\ Settled => Settled'
    BY SettledStays
<1> QED BY <1>1, <1>2, <1>3, TypeCorrect, PTL DEF Spec, SettledClientIsKept
=============================================================================
