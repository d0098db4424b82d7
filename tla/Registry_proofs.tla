--------------------------- MODULE Registry_proofs ----------------------------
(***************************************************************************)
(* Registry, for every number of callers, versions, keys, commands and      *)
(* failed calls: one PRODUCTION version, no label or key twice, an honest   *)
(* lifecycle as long as no command wrote over a row it had not seen, and    *)
(* labels for unpinned creates.                                             *)
(***************************************************************************)
EXTENDS Registry, FiniteSetTheorems, TLAPS

-----------------------------------------------------------------------------
(* Part 1: what the commands under way know *)

MaybeKeys == Keys \cup {NoKey}
Models    == [state : {"none", "active", "archived"}, key : MaybeKeys]
RowSet    == [stage : Stages, status : Statuses, label : Nat, key : MaybeKeys]
Ops       == {"register", "update", "create", "ready", "promote", "archive"}
OnVersion == {"ready", "promote"}
Wishes    == {"none", "auto", "pinned", "ready", "failed", "staging", "production", "archived"}
Reqs      == [op : Ops, v : Versions \cup {NoVersion}, to : Wishes, key : MaybeKeys]
Pcs       == {"lookup", "load", "count", "prior", "write", "exhausted", "record", "emit"}
Fields    == {"pc", "req", "seen", "prior", "label", "attempt"}

Busy(x) ==
    /\ DOMAIN x = Fields /\ x.pc \in Pcs /\ x.req \in Reqs
    /\ x.prior \in Versions \cup {NoVersion} /\ x.label \in Nat /\ x.attempt \in Nat
    /\ x.req.op = "ready" => x.req.to \in {"ready", "failed"}
    /\ x.req.op = "promote" => x.req.to \in Stages \ {"dev"}
    /\ x.req.op = "create" => x.req.to \in {"auto", "pinned"}
    /\ x.pc = "prior" => x.req.op = "promote"
    /\ x.pc \in {"count", "exhausted"} => x.req.op = "create"

\* What a command between its read and its write has checked, and what stays true of
\* the rows meanwhile: a version is never deleted and never PENDING again.
Checked(x) ==
    /\ x.req.op = "ready" =>
        /\ x.req.v \in DOMAIN rows /\ x.seen \in RowSet
        /\ x.seen.status = "pending" /\ x.seen.stage \in {"dev", "archived"}
    /\ x.req.op = "promote" =>
        /\ x.req.v \in DOMAIN rows /\ x.seen \in RowSet /\ Promotable(x.seen, x.req.to)
        /\ x.req.to \in {"staging", "production"} => rows[x.req.v].status # "pending"
    /\ x.req.op \in {"update", "create", "archive"} =>
        x.seen \in Models /\ x.seen.state = "active" /\ model.state # "none"

\* What a command that has written leaves to say.
Written(x) ==
    /\ x.req.op \in OnVersion => x.req.v \in DOMAIN rows
    /\ x.req.op \notin OnVersion => model.state # "none"

CallOK(x) ==
    \/ x = Idle
    \/ /\ Busy(x)
       /\ x.pc \in {"count", "prior", "write", "exhausted"} => Checked(x)
       /\ x.pc \in {"record", "emit"} => Written(x)

\* An artifact that is still PENDING has not left DEV, except to be archived.
RowOK(r) == r \in RowSet /\ (r.status = "pending" => r.stage \in {"dev", "archived"})

OneProductionRow ==
    \A u, v \in DOMAIN rows : rows[u].stage = "production" /\ rows[v].stage = "production" => u = v

RowsInv == DOMAIN rows \subseteq Versions /\ \A v \in DOMAIN rows : RowOK(rows[v])

RegInv ==
    /\ model \in Models /\ RowsInv
    /\ DOMAIN call = Callers /\ \A c \in Callers : CallOK(call[c])
    /\ OneProductionRow /\ OneVersionPerKey

\* A step of caller c that leaves the rows and the model alone.
LEMMA LocalStep ==
    ASSUME RegInv, NEW c \in Callers, NEW x, CallOK(x), UNCHANGED <<model, rows>>, call' = [call EXCEPT ![c] = x]
    PROVE  RegInv'
<1>1. DOMAIN call' = Callers /\ call'[c] = x /\ \A d \in Callers \ {c} : call'[d] = call[d]
  BY DEF RegInv
<1>2. \A d \in Callers : CallOK(call'[d])
  BY <1>1 DEF RegInv
<1>3. \A d \in Callers : CallOK(call[d])'
  BY <1>2 DEF CallOK, Checked, Written
<1> QED
  BY <1>1, <1>3 DEF RegInv, RowsInv, OneProductionRow, OneVersionPerKey

\* A step of caller c that writes: rows stay, PENDING does not come back, nor does the
\* time before the model, so what the other commands have checked is not undone.
LEMMA WriteStep ==
    ASSUME RegInv, NEW c \in Callers, CallOK(call[c])',
           DOMAIN call' = Callers, \A d \in Callers \ {c} : call'[d] = call[d],
           model' \in Models, RowsInv', OneProductionRow', OneVersionPerKey',
           DOMAIN rows \subseteq DOMAIN rows',
           \A v \in DOMAIN rows : rows[v].status # "pending" => rows'[v].status # "pending",
           model.state # "none" => model'.state # "none"
    PROVE  RegInv'
<1>1. ASSUME NEW d \in Callers \ {c} PROVE CallOK(call[d])'
  <2> DEFINE x == call[d]
  <2>1. CallOK(x) /\ call'[d] = x
    BY DEF RegInv
  <2>2. Checked(x) => Checked(x)'
    BY <2>1 DEF Checked
  <2>3. Written(x) => Written(x)'
    BY <2>1 DEF Written
  <2>4. x' = x
    BY <2>1
  <2>5. CallOK(x) <=> \/ x = Idle
                      \/ /\ Busy(x)
                         /\ x.pc \in {"count", "prior", "write", "exhausted"} => Checked(x)
                         /\ x.pc \in {"record", "emit"} => Written(x)
    BY DEF CallOK
  <2>6. CallOK(x)' <=> \/ x = Idle
                       \/ /\ Busy(x)
                          /\ x.pc \in {"count", "prior", "write", "exhausted"} => Checked(x)'
                          /\ x.pc \in {"record", "emit"} => Written(x)'
    BY <2>4 DEF CallOK, Busy
  <2> QED
    BY <2>1, <2>2, <2>3, <2>5, <2>6
<1> QED
  BY <1>1 DEF RegInv

\* Who is not idle runs a command.
LEMMA Runs ==
    ASSUME NEW y, CallOK(y), y.pc # "idle"
    PROVE  /\ Busy(y)
           /\ y.pc \in {"count", "prior", "write", "exhausted"} => Checked(y)
           /\ y.pc \in {"record", "emit"} => Written(y)
  BY DEF CallOK, Idle

LEMMA Moved ==
    ASSUME NEW y, Busy(y), NEW l \in {"load", "write", "record", "emit"}, NEW x, x = [y EXCEPT !.pc = l]
    PROVE  Busy(x) /\ x.pc = l /\ x.req = y.req /\ x.seen = y.seen /\ x.label = y.label /\ x.attempt = y.attempt
<1>1. DOMAIN y = Fields
  BY DEF Busy
<1>2. /\ DOMAIN x = Fields /\ x.pc = l /\ x.req = y.req /\ x.seen = y.seen
      /\ x.label = y.label /\ x.attempt = y.attempt /\ x.prior = y.prior
  BY <1>1 DEF Fields
<1> QED
  BY <1>2 DEF Busy, Pcs

LEMMA IdleOK == CallOK(Idle)
  BY DEF CallOK

\* What a client may ask for is a command in progress.
LEMMA StartedOK ==
    ASSUME NEW r \in Requests, NEW l \in {"load", "lookup"}
    PROVE  CallOK(Started(r, l))
<1> DEFINE x == Started(r, l)
<1>1. /\ r \in Reqs
      /\ r.op = "ready" => r.to \in {"ready", "failed"}
      /\ r.op = "promote" => r.to \in Stages \ {"dev"}
      /\ r.op = "create" => r.to \in {"auto", "pinned"}
  <2> DEFINE G == /\ r \in Reqs
                  /\ r.op = "ready" => r.to \in {"ready", "failed"}
                  /\ r.op = "promote" => r.to \in Stages \ {"dev"}
                  /\ r.op = "create" => r.to \in {"auto", "pinned"}
  <2>1. ASSUME NEW op \in {"register", "archive", "update", "create"},
               NEW to \in (IF op = "create" THEN {"auto", "pinned"} ELSE {"none"}),
               NEW k \in MaybeKeys, r = Request(op, NoVersion, to, k)
        PROVE  G
    BY <2>1 DEF Request, Reqs, Ops, Wishes
  <2>2. ASSUME NEW v \in Versions, NEW to \in {"ready", "failed"}, NEW k \in MaybeKeys, r = Request("ready", v, to, k)
        PROVE  G
    BY <2>2 DEF Request, Reqs, Ops, Wishes
  <2>3. ASSUME NEW v \in Versions, NEW to \in Stages \ {"dev"}, NEW k \in MaybeKeys, r = Request("promote", v, to, k)
        PROVE  G
    BY <2>3 DEF Request, Reqs, Ops, Wishes, Stages
  <2> SUFFICES G
    OBVIOUS
  <2> HIDE DEF G
  <2>4. CASE r \in {Request(op, NoVersion, "none", k) : op \in {"register", "archive"}, k \in Keys \cup {NoKey}}
    <3>1. PICK op \in {"register", "archive"}, k \in Keys \cup {NoKey} : r = Request(op, NoVersion, "none", k)
      BY <2>4
    <3> QED
      BY <3>1, <2>1 DEF MaybeKeys
  <2>5. CASE r = Request("update", NoVersion, "none", NoKey)
    BY <2>5, <2>1 DEF MaybeKeys
  <2>6. CASE r \in {Request("create", NoVersion, m, k) : m \in {"auto", "pinned"}, k \in Keys \cup {NoKey}}
    <3>1. PICK m \in {"auto", "pinned"}, k \in Keys \cup {NoKey} : r = Request("create", NoVersion, m, k)
      BY <2>6
    <3> QED
      BY <3>1, <2>1 DEF MaybeKeys
  <2>7. CASE r \in {Request("ready", v, s, k) : v \in Versions, s \in {"ready", "failed"}, k \in Keys \cup {NoKey}}
    <3>1. PICK v \in Versions, s \in {"ready", "failed"}, k \in Keys \cup {NoKey} : r = Request("ready", v, s, k)
      BY <2>7
    <3> QED
      BY <3>1, <2>2 DEF MaybeKeys
  <2>8. CASE r \in {Request("promote", v, s, k) : v \in Versions, s \in Stages \ {"dev"}, k \in Keys \cup {NoKey}}
    <3>1. PICK v \in Versions, s \in Stages \ {"dev"}, k \in Keys \cup {NoKey} : r = Request("promote", v, s, k)
      BY <2>8
    <3> QED
      BY <3>1, <2>3 DEF MaybeKeys
  <2> QED
    BY <2>4, <2>5, <2>6, <2>7, <2>8 DEF Requests
<1>2. DOMAIN x = Fields /\ x.pc = l /\ x.req = r /\ x.prior = NoVersion /\ x.label = 0 /\ x.attempt = 0
  BY DEF Started, Fields, NoLabel
<1> HIDE DEF x
<1>3. Busy(x)
  BY <1>1, <1>2 DEF Busy, Pcs
<1> QED
  BY <1>2, <1>3 DEF CallOK, x

LEMMA AtMostOne ==
    ASSUME NEW S, IsFiniteSet(S)
    PROVE  Cardinality(S) <= 1 <=> \A u, v \in S : u = v
<1>1. ASSUME Cardinality(S) <= 1 PROVE \A u, v \in S : u = v
  <2> SUFFICES ASSUME NEW u \in S, NEW v \in S, u # v PROVE FALSE
    OBVIOUS
  <2>1. IsFiniteSet({u}) /\ Cardinality({u}) = 1
    BY FS_Singleton
  <2>2. Cardinality({u} \cup {v}) = 2
    BY <2>1, FS_AddElement
  <2>3. {u} \cup {v} \in SUBSET S
    OBVIOUS
  <2>4. Cardinality({u} \cup {v}) <= Cardinality(S)
    BY <2>3, FS_Subset
  <2>5. Cardinality(S) \in Nat
    BY FS_CardinalityType
  <2> QED
    BY <1>1, <2>2, <2>4, <2>5
<1>2. ASSUME \A u, v \in S : u = v PROVE Cardinality(S) <= 1
  <2>1. CASE S = {}
    BY <2>1, FS_EmptySet
  <2>2. CASE S # {}
    <3>1. PICK u \in S : S = {u}
      BY <1>2, <2>2
    <3> QED
      BY <3>1, FS_Singleton
  <2> QED
    BY <2>1, <2>2
<1> QED
  BY <1>1, <1>2

LEMMA ProductionFinite ==
    ASSUME NEW f, DOMAIN f \subseteq Versions
    PROVE  IsFiniteSet(Production(f)) /\ IsFiniteSet(DOMAIN f)
<1>1. Production(f) \in SUBSET Versions /\ DOMAIN f \in SUBSET Versions
  BY DEF Production
<1> QED
  BY <1>1, KeyAssumption, FS_Subset

LEMMA RegInit == Init => RegInv
<1> SUFFICES ASSUME Init PROVE RegInv
  OBVIOUS
<1>1. model \in Models
  BY DEF Init, Models, MaybeKeys
<1>2. PICK D \in SUBSET Versions : \E n \in [D -> 1..Cardinality(D)] :
        /\ \A v, w \in D : n[v] = n[w] => v = w
        /\ rows \in [D -> UNION {InUse(l) : l \in 1..Cardinality(D)}]
        /\ \A v \in D : rows[v].label = n[v]
        /\ Cardinality(Production(rows)) <= 1
  BY DEF Init
<1>3. PICK n \in [D -> 1..Cardinality(D)] :
        /\ \A v, w \in D : n[v] = n[w] => v = w
        /\ rows \in [D -> UNION {InUse(l) : l \in 1..Cardinality(D)}]
        /\ \A v \in D : rows[v].label = n[v]
        /\ Cardinality(Production(rows)) <= 1
  BY <1>2
<1>4. IsFiniteSet(D) /\ Cardinality(D) \in Nat
  BY KeyAssumption, FS_Subset, FS_CardinalityType
<1>5. ASSUME NEW v \in D PROVE RowOK(rows[v]) /\ rows[v].key = NoKey
  <2>1. PICK l \in 1..Cardinality(D) : rows[v] \in InUse(l)
    BY <1>3
  <2>2. PICK i \in Lifecycle : rows[v] = Row(i.stage, i.status, l, NoKey)
    BY <2>1 DEF InUse
  <2>3. i.stage \in Stages /\ i.status \in Statuses /\ (i.status = "pending" => i.stage = "dev")
    BY <2>2 DEF Lifecycle, Stages, Statuses
  <2>4. l \in Nat
    BY <1>4
  <2> QED
    BY <2>2, <2>3, <2>4 DEF RowOK, RowSet, Row, MaybeKeys
<1>6. RowsInv
  BY <1>3, <1>5 DEF RowsInv
<1>7. OneProductionRow
  <2>1. \A u, v \in Production(rows) : u = v
    BY <1>3, <1>6, ProductionFinite, AtMostOne DEF RowsInv
  <2> QED
    BY <2>1 DEF OneProductionRow, Production
<1>8. OneVersionPerKey
  BY <1>3, <1>5 DEF OneVersionPerKey
<1> QED
  BY <1>1, <1>6, <1>7, <1>8, IdleOK DEF Init, RegInv

\* Load: what the command checked is what it knows afterwards.
LEMMA LoadStep ==
    ASSUME RegInv, NEW c \in Callers, Load(c)
    PROVE  RegInv'
<1> DEFINE y == call[c]
           r == y.req
           x == [y EXCEPT !.pc = NextRead(r), !.seen = Seen(r), !.label = IF r.to = "pinned" THEN Pinned ELSE NoLabel]
<1>1. UNCHANGED <<model, rows>> /\ y.pc = "load"
  BY DEF Load, db, Running
<1>2. CASE call' = [call EXCEPT ![c] = Idle]
  BY <1>1, <1>2, IdleOK, LocalStep
<1>3. CASE Allowed(r) /\ call' = [call EXCEPT ![c] = x]
  <2>1. Busy(y) /\ CallOK(y)
    BY <1>1, Runs DEF RegInv
  <2>2. /\ DOMAIN x = Fields /\ x.pc = NextRead(r) /\ x.seen = Seen(r) /\ x.req = r /\ x.prior = y.prior
        /\ x.label = (IF r.to = "pinned" THEN Pinned ELSE NoLabel) /\ x.attempt = y.attempt
    BY <2>1 DEF Busy, Fields
  <2>3. /\ NextRead(r) \in {"count", "prior", "write"}
        /\ NextRead(r) = "count" => r.op = "create"
        /\ NextRead(r) = "prior" => r.op = "promote"
    BY DEF NextRead
  <2> HIDE DEF x
  <2>4. Busy(x)
    BY <2>1, <2>2, <2>3 DEF Busy, Pcs, Pinned, NoLabel
  <2>5. ASSUME r.op = "ready" PROVE Checked(x)
    BY <1>3, <2>2, <2>5 DEF Allowed, Checked, Seen, RegInv, RowsInv, RowOK
  <2>6. ASSUME r.op = "promote" PROVE Checked(x)
    BY <1>3, <2>2, <2>6 DEF Allowed, Checked, Seen, RegInv, RowsInv, RowOK, Promotable
  <2>7. ASSUME r.op \notin {"ready", "promote"} PROVE Checked(x)
    BY <1>3, <2>2, <2>7 DEF Allowed, Checked, Seen, RegInv
  <2>8. CallOK(x)
    BY <2>2, <2>3, <2>4, <2>5, <2>6, <2>7 DEF CallOK
  <2> QED
    BY <1>1, <1>3, <2>8, LocalStep
<1> QED
  BY <1>2, <1>3 DEF Load, Return

\* Count and Prior add what they read to a command that has been checked.
LEMMA CountStep ==
    ASSUME RegInv, NEW c \in Callers, Count(c)
    PROVE  RegInv'
<1> DEFINE y == call[c]
           x == [y EXCEPT !.pc = "write", !.label = Cardinality(DOMAIN rows) + 1]
<1>1. UNCHANGED <<model, rows>> /\ y.pc = "count" /\ call' = [call EXCEPT ![c] = x]
  BY DEF Count, db, Running
<1>2. Busy(y) /\ Checked(y)
  BY <1>1, Runs DEF RegInv
<1>3. Cardinality(DOMAIN rows) \in Nat
  BY ProductionFinite, FS_CardinalityType DEF RegInv, RowsInv
<1>4. /\ DOMAIN x = Fields /\ x.pc = "write" /\ x.seen = y.seen /\ x.req = y.req /\ x.prior = y.prior
      /\ x.label = Cardinality(DOMAIN rows) + 1 /\ x.attempt = y.attempt
  BY <1>2 DEF Busy, Fields
<1> HIDE DEF x
<1>5. Busy(x) /\ Checked(x)
  BY <1>2, <1>3, <1>4 DEF Busy, Pcs, Checked
<1>6. CallOK(x)
  BY <1>4, <1>5 DEF CallOK
<1> QED
  BY <1>1, <1>6, LocalStep

LEMMA PriorStep ==
    ASSUME RegInv, NEW c \in Callers, Prior(c)
    PROVE  RegInv'
<1> DEFINE y == call[c]
<1>1. PICK p \in (IF Production(rows) = {} THEN {NoVersion} ELSE Production(rows)) :
        call' = [call EXCEPT ![c].pc = "write", ![c].prior = IF p = y.req.v THEN NoVersion ELSE p]
  BY DEF Prior
<1> DEFINE q == IF p = y.req.v THEN NoVersion ELSE p
           x == [y EXCEPT !.pc = "write", !.prior = q]
<1>2. UNCHANGED <<model, rows>> /\ y.pc = "prior" /\ call' = [call EXCEPT ![c] = x]
  BY <1>1 DEF Prior, db, Running
<1>3. Busy(y) /\ Checked(y)
  BY <1>2, Runs DEF RegInv
<1>4. q \in Versions \cup {NoVersion}
  BY DEF Production, RegInv, RowsInv
<1> HIDE DEF q
<1>5. /\ DOMAIN x = Fields /\ x.pc = "write" /\ x.seen = y.seen /\ x.req = y.req /\ x.prior = q
      /\ x.label = y.label /\ x.attempt = y.attempt
  BY <1>3 DEF Busy, Fields
<1> HIDE DEF x
<1>6. Busy(x) /\ Checked(x)
  BY <1>3, <1>4, <1>5 DEF Busy, Pcs, Checked
<1>7. CallOK(x)
  BY <1>5, <1>6 DEF CallOK
<1> QED
  BY <1>2, <1>7, LocalStep

\* The other steps that leave the rows and the model alone.
LEMMA QuietStep ==
    ASSUME RegInv, NEW c \in Callers,
           \/ \E r \in Requests : Begin(c, r)
           \/ Fails(c) \/ Lookup(c) \/ Exhausted(c) \/ Record(c) \/ Emit(c)
    PROVE  RegInv'
<1> DEFINE y == call[c]
<1>1. ASSUME NEW r \in Requests, Begin(c, r) PROVE RegInv'
  <2> DEFINE l == IF r.key = NoKey THEN "load" ELSE "lookup"
  <2>1. l \in {"load", "lookup"} /\ UNCHANGED <<model, rows>> /\ call' = [call EXCEPT ![c] = Started(r, l)]
    BY <1>1 DEF Begin, db
  <2> HIDE DEF l
  <2>2. CallOK(Started(r, l))
    BY <2>1, StartedOK
  <2> QED
    BY <2>1, <2>2, LocalStep
<1>2. ASSUME UNCHANGED <<model, rows>>, call' = [call EXCEPT ![c] = Idle] PROVE RegInv'
  BY <1>2, IdleOK, LocalStep
<1>3. ASSUME UNCHANGED <<model, rows>>, y.pc = "lookup", Goto(c, "load") PROVE RegInv'
  <2> DEFINE x == [y EXCEPT !.pc = "load"]
  <2>1. call' = [call EXCEPT ![c] = x]
    BY <1>3 DEF Goto
  <2>2. Busy(y)
    BY <1>3, Runs DEF RegInv
  <2>3. Busy(x) /\ x.pc = "load"
    BY <2>2, Moved
  <2> HIDE DEF x
  <2>4. CallOK(x)
    BY <2>3 DEF CallOK
  <2> QED
    BY <1>3, <2>1, <2>4, LocalStep
<1>4. ASSUME UNCHANGED <<model, rows>>, y.pc = "record", Goto(c, "emit") PROVE RegInv'
  <2> DEFINE x == [y EXCEPT !.pc = "emit"]
  <2>1. call' = [call EXCEPT ![c] = x]
    BY <1>4 DEF Goto
  <2>2. Busy(y) /\ Written(y)
    BY <1>4, Runs DEF RegInv
  <2>3. Busy(x) /\ x.pc = "emit" /\ x.req = y.req
    BY <2>2, Moved
  <2> HIDE DEF x
  <2>4. Written(x)
    BY <2>2, <2>3 DEF Written
  <2>5. CallOK(x)
    BY <2>3, <2>4 DEF CallOK
  <2> QED
    BY <1>4, <2>1, <2>5, LocalStep
<1>5. CASE Fails(c) \/ Exhausted(c) \/ Emit(c)
  BY <1>5, <1>2 DEF Fails, Exhausted, Emit, Return, db
<1>6. CASE Lookup(c)
  BY <1>6, <1>2, <1>3 DEF Lookup, Return, Running, db
<1>7. CASE Record(c)
  BY <1>7, <1>2, <1>4 DEF Record, Return, Running
<1> QED
  BY <1>1, <1>5, <1>6, <1>7

-----------------------------------------------------------------------------
(* The transactions *)

\* A command that has written goes on to its record or its event.
LEMMA AfterWriting ==
    ASSUME RegInv, NEW c \in Callers, call[c].pc = "write", NEW l \in {"record", "emit"}, Goto(c, l),
           call[c].req.op \in OnVersion => call[c].req.v \in DOMAIN rows',
           call[c].req.op \notin OnVersion => model'.state # "none"
    PROVE  /\ CallOK(call[c])' /\ DOMAIN call' = Callers /\ \A d \in Callers \ {c} : call'[d] = call[d]
           /\ call'[c].req = call[c].req
<1> DEFINE y == call[c]
<1>1. Busy(y)
  BY Runs DEF RegInv
<1>2. DOMAIN call' = Callers /\ call'[c] = [y EXCEPT !.pc = l] /\ \A d \in Callers \ {c} : call'[d] = call[d]
  BY DEF Goto, RegInv
<1>3. Busy(call'[c]) /\ call'[c].pc = l /\ call'[c].req = y.req
  BY <1>1, <1>2, Moved
<1>4. Busy(call[c])' /\ Written(call[c])'
  BY <1>3 DEF Busy, Written
<1> QED
  BY <1>2, <1>3, <1>4 DEF CallOK

LEMMA ModelWrites ==
    ASSUME RegInv, NEW c \in Callers, CreateModel(c) \/ UpdateModel(c)
    PROVE  RegInv'
<1> DEFINE y == call[c]
<1>1. y.pc = "write"
  BY DEF CreateModel, UpdateModel, Op, Running
<1>2. Busy(y) /\ Checked(y)
  BY <1>1, Runs DEF RegInv
<1>3. ASSUME UNCHANGED rows PROVE RowsInv' /\ OneProductionRow' /\ OneVersionPerKey'
  BY <1>3 DEF RegInv, RowsInv, OneProductionRow, OneVersionPerKey
<1>4. CASE CreateModel(c)
  <2>1. CASE Refused(c)
    BY <2>1, IdleOK, LocalStep DEF Refused, Return, db
  <2>2. CASE /\ model' = [state |-> "active", key |-> y.req.key] /\ Goto(c, "emit")
             /\ UNCHANGED rows
    <3>1. model' \in Models /\ model'.state = "active"
      BY <1>2, <2>2 DEF Busy, Reqs, Models
    <3>2. y.req.op = "register"
      BY <1>4 DEF CreateModel, Op
    <3>3. y.req.op \notin OnVersion
      BY <3>2 DEF OnVersion
    <3>4. CallOK(call[c])' /\ DOMAIN call' = Callers /\ \A d \in Callers \ {c} : call'[d] = call[d]
      BY <1>1, <2>2, <3>1, <3>3, AfterWriting
    <3> QED
      BY <1>3, <2>2, <3>1, <3>4, WriteStep
  <2> QED
    BY <1>4, <2>1, <2>2 DEF CreateModel
<1>5. CASE UpdateModel(c)
  <2>1. model' = y.seen /\ call' = [call EXCEPT ![c] = Idle] /\ UNCHANGED rows /\ y.req.op = "update"
    BY <1>5 DEF UpdateModel, Return, Op
  <2>2. model' \in Models /\ model'.state = "active"
    BY <1>2, <2>1 DEF Checked
  <2>3. DOMAIN call' = Callers /\ call'[c] = Idle /\ \A d \in Callers \ {c} : call'[d] = call[d]
    BY <2>1 DEF RegInv
  <2>4. CallOK(call[c])'
    BY <2>3 DEF CallOK, Idle
  <2> QED
    BY <1>3, <2>1, <2>2, <2>3, <2>4, WriteStep
<1> QED
  BY <1>4, <1>5

\* The loop of CreateVersion: the insert, or another round.
LEMMA CreateVersionStep ==
    ASSUME RegInv, NEW c \in Callers, CreateVersion(c)
    PROVE  RegInv'
<1> DEFINE y == call[c]
           r == y.req
<1>1. y.pc = "write" /\ r.op = "create"
  BY DEF CreateVersion, Op, Running
<1>2. Busy(y) /\ Checked(y)
  BY <1>1, Runs DEF RegInv
<1>3. ASSUME ~Conflict(y.label, r.key),
             NEW v \in Versions \ DOMAIN rows,
             rows' = [w \in DOMAIN rows \cup {v} |-> IF w = v THEN Row("dev", "pending", y.label, r.key) ELSE rows[w]],
             call' = [call EXCEPT ![c].pc = "emit", ![c].req.v = v],
             UNCHANGED model
      PROVE  RegInv'
  <2>1. /\ DOMAIN rows' = DOMAIN rows \cup {v} /\ rows'[v] = Row("dev", "pending", y.label, r.key)
        /\ \A w \in DOMAIN rows : rows'[w] = rows[w]
    BY <1>3
  <2>2. /\ RowOK(rows'[v]) /\ rows'[v].stage = "dev" /\ rows'[v].label = y.label /\ rows'[v].key = r.key
    BY <1>2, <2>1 DEF RowOK, RowSet, Row, Stages, Statuses, Busy, Reqs
  <2>3. RowsInv'
    BY <2>1, <2>2 DEF RegInv, RowsInv, RowOK
  <2>4. OneProductionRow'
    BY <2>1, <2>2 DEF RegInv, OneProductionRow
  <2>5. OneVersionPerKey'
    BY <1>3, <2>1, <2>2 DEF RegInv, OneVersionPerKey, Conflict
  <2> DEFINE q == [r EXCEPT !.v = v]
             x == [y EXCEPT !.pc = "emit", !.req = q]
  <2>6. q \in Reqs /\ q.op = "create" /\ q.to = r.to
    BY <1>1, <1>2 DEF Busy, Reqs
  <2>7. DOMAIN call' = Callers /\ call'[c] = x /\ \A d \in Callers \ {c} : call'[d] = call[d]
    BY <1>2, <1>3 DEF RegInv, Busy, Fields
  <2> HIDE DEF q
  <2>8. /\ DOMAIN x = Fields /\ x.pc = "emit" /\ x.req = q /\ x.prior = y.prior /\ x.label = y.label /\ x.attempt = y.attempt
    BY <1>2 DEF Busy, Fields
  <2> HIDE DEF x
  <2>9. Busy(x)
    BY <1>1, <1>2, <2>6, <2>8 DEF Busy, Pcs
  <2>10. model.state # "none"
    BY <1>1, <1>2 DEF Checked
  <2>11. Busy(call[c])' /\ Written(call[c])' /\ call'[c].pc = "emit"
    BY <1>3, <2>6, <2>7, <2>8, <2>9, <2>10 DEF Busy, Written, OnVersion
  <2>12. CallOK(call[c])'
    BY <2>11 DEF CallOK
  <2> QED
    BY <1>3, <2>1, <2>3, <2>4, <2>5, <2>7, <2>12, WriteStep DEF RegInv
<1>4. ASSUME UNCHANGED <<model, rows>>,
             \/ call' = [call EXCEPT ![c] = Idle]
             \/ call' = [call EXCEPT ![c].pc = "exhausted"]
             \/ call' = Bump(c)
      PROVE  RegInv'
  <2>1. CASE call' = [call EXCEPT ![c] = Idle]
    BY <1>4, <2>1, IdleOK, LocalStep
  <2>2. CASE call' = [call EXCEPT ![c].pc = "exhausted"]
    <3> DEFINE x == [y EXCEPT !.pc = "exhausted"]
    <3>1. /\ DOMAIN x = Fields /\ x.pc = "exhausted" /\ x.seen = y.seen /\ x.req = r
          /\ x.prior = y.prior /\ x.label = y.label /\ x.attempt = y.attempt
      BY <1>2 DEF Busy, Fields
    <3>2. call' = [call EXCEPT ![c] = x]
      BY <2>2
    <3> HIDE DEF x
    <3>3. Busy(x) /\ Checked(x)
      BY <1>1, <1>2, <3>1 DEF Busy, Pcs, Checked
    <3>4. CallOK(x)
      BY <3>1, <3>3 DEF CallOK
    <3> QED
      BY <1>4, <3>2, <3>4, LocalStep
  <2>3. CASE call' = Bump(c)
    <3> DEFINE x == [y EXCEPT !.attempt = @ + 1, !.label = @ + 1]
    <3>1. /\ DOMAIN x = Fields /\ x.pc = "write" /\ x.seen = y.seen /\ x.req = r
          /\ x.prior = y.prior /\ x.label = y.label + 1 /\ x.attempt = y.attempt + 1
      BY <1>1, <1>2 DEF Busy, Fields
    <3>2. call' = [call EXCEPT ![c] = x]
      BY <2>3 DEF Bump
    <3> HIDE DEF x
    <3>3. Busy(x) /\ Checked(x)
      BY <1>1, <1>2, <3>1 DEF Busy, Pcs, Checked
    <3>4. CallOK(x)
      BY <3>1, <3>3 DEF CallOK
    <3> QED
      BY <1>4, <3>2, <3>4, LocalStep
  <2> QED
    BY <1>4, <2>1, <2>2, <2>3
<1> QED
  BY <1>3, <1>4 DEF CreateVersion, db

\* A transaction that only moves stages and statuses keeps labels and keys.
LEMMA KeysKept ==
    ASSUME RegInv, DOMAIN rows' = DOMAIN rows,
           \A v \in DOMAIN rows : rows'[v].label = rows[v].label /\ rows'[v].key = rows[v].key
    PROVE  OneVersionPerKey'
  BY DEF RegInv, OneVersionPerKey

\* The stage that is written back is not PRODUCTION: the artifact was PENDING when it was read.
LEMMA UpdateVersionStatusStep ==
    ASSUME RegInv, NEW c \in Callers, UpdateVersionStatus(c)
    PROVE  RegInv'
<1> DEFINE y == call[c]
           r == y.req
<1>1. y.pc = "write" /\ r.op = "ready" /\ UNCHANGED model
  BY DEF UpdateVersionStatus, Op, Running
<1>2. Busy(y) /\ Checked(y)
  BY <1>1, Runs DEF RegInv
<1>3. r.v \in DOMAIN rows /\ y.seen.stage \in {"dev", "archived"} /\ r.to \in {"ready", "failed"}
  BY <1>1, <1>2 DEF Checked, Busy
<1>4. rows[r.v] \in RowSet
  BY <1>3 DEF RegInv, RowsInv, RowOK
<1>5. /\ DOMAIN rows' = DOMAIN rows /\ \A v \in DOMAIN rows : v # r.v => rows'[v] = rows[v]
      /\ rows'[r.v] = [rows[r.v] EXCEPT !.stage = y.seen.stage, !.status = r.to]
  BY <1>3, <1>4 DEF UpdateVersionStatus, RowSet
<1>6. /\ rows'[r.v] \in RowSet /\ rows'[r.v].stage = y.seen.stage /\ rows'[r.v].status = r.to
      /\ rows'[r.v].label = rows[r.v].label /\ rows'[r.v].key = rows[r.v].key
  BY <1>3, <1>4, <1>5 DEF RowSet, Stages, Statuses
<1>7. RowsInv' /\ OneProductionRow'
  BY <1>3, <1>5, <1>6 DEF RegInv, RowsInv, RowOK, OneProductionRow
<1>8. OneVersionPerKey'
  BY <1>5, <1>6, KeysKept
<1>9. \A v \in DOMAIN rows : rows[v].status # "pending" => rows'[v].status # "pending"
  BY <1>3, <1>5, <1>6
<1>10. AfterWrite(c) \in {"record", "emit"} /\ Goto(c, AfterWrite(c))
  BY DEF UpdateVersionStatus, AfterWrite
<1>11. CallOK(call[c])' /\ DOMAIN call' = Callers /\ \A d \in Callers \ {c} : call'[d] = call[d]
  BY <1>1, <1>3, <1>5, <1>10, AfterWriting DEF OnVersion
<1> QED
  BY <1>1, <1>5, <1>7, <1>8, <1>9, <1>11, WriteStep DEF RegInv

\* The partial unique index decides on the promoted rows.
LEMMA PromoteStep ==
    ASSUME RegInv, NEW c \in Callers, PromoteVersionTx(c)
    PROVE  RegInv'
<1> DEFINE y == call[c]
           r == y.req
<1>1. y.pc = "write" /\ r.op = "promote"
  BY DEF PromoteVersionTx, Op, Running
<1>2. Busy(y) /\ Checked(y)
  BY <1>1, Runs DEF RegInv
<1>3. CASE Refused(c)
  BY <1>3, IdleOK, LocalStep DEF Refused, Return, db
<1>4. ASSUME ~SecondProduction(Swap(c)), rows' = Swap(c), Goto(c, AfterWrite(c)), UNCHANGED model
      PROVE  RegInv'
  <2>1. r.v \in DOMAIN rows /\ r.to \in Stages \ {"dev"} /\ (r.to # "archived" => rows[r.v].status # "pending")
    BY <1>1, <1>2 DEF Checked, Busy, Stages
  <2>2. DOMAIN rows' = DOMAIN rows
    BY <1>4 DEF Swap
  <2>3. ASSUME NEW v \in DOMAIN rows
        PROVE  /\ rows'[v] \in RowSet /\ rows'[v].status = rows[v].status
               /\ rows'[v].label = rows[v].label /\ rows'[v].key = rows[v].key
               /\ rows'[v].stage \in {rows[v].stage, "archived"} \/ (v = r.v /\ rows'[v].stage = r.to)
    <3>1. rows[v] \in RowSet
      BY DEF RegInv, RowsInv, RowOK
    <3>2. rows'[v] = rows[v] \/ rows'[v] = [rows[v] EXCEPT !.stage = "archived"]
            \/ (v = r.v /\ rows'[v] = [rows[v] EXCEPT !.stage = r.to])
      BY <1>4 DEF Swap
    <3> QED
      BY <2>1, <3>1, <3>2 DEF RowSet, Stages
  <2>4. RowsInv'
    BY <2>1, <2>2, <2>3 DEF RegInv, RowsInv, RowOK, Stages
  <2>5. OneProductionRow'
    <3>1. IsFiniteSet(Production(rows'))
      BY <2>2, ProductionFinite DEF RegInv, RowsInv
    <3>2. Cardinality(Production(rows')) <= 1
      BY <1>4, <3>1, FS_CardinalityType DEF SecondProduction
    <3>3. \A u, v \in Production(rows') : u = v
      BY <3>1, <3>2, AtMostOne
    <3> QED
      BY <3>3 DEF OneProductionRow, Production
  <2>6. OneVersionPerKey'
    BY <2>2, <2>3, KeysKept
  <2>7. AfterWrite(c) \in {"record", "emit"}
    BY DEF AfterWrite
  <2>8. CallOK(call[c])' /\ DOMAIN call' = Callers /\ \A d \in Callers \ {c} : call'[d] = call[d]
    BY <1>1, <1>4, <2>1, <2>2, <2>7, AfterWriting DEF OnVersion
  <2> QED
    BY <1>4, <2>2, <2>3, <2>4, <2>5, <2>6, <2>8, WriteStep DEF RegInv
<1> QED
  BY <1>3, <1>4 DEF PromoteVersionTx

LEMMA ArchiveStep ==
    ASSUME RegInv, NEW c \in Callers, ArchiveModelTx(c)
    PROVE  RegInv'
<1> DEFINE y == call[c]
           r == y.req
<1>1. y.pc = "write" /\ r.op = "archive" /\ model' = [model EXCEPT !.state = "archived"] /\ rows' = ArchiveVersions
  BY DEF ArchiveModelTx, Op, Running
<1>2. model' \in Models /\ model'.state = "archived"
  BY <1>1 DEF RegInv, Models
<1>3. DOMAIN rows' = DOMAIN rows
  BY <1>1 DEF ArchiveVersions
<1>4. ASSUME NEW v \in DOMAIN rows
      PROVE  /\ rows'[v] \in RowSet /\ rows'[v].stage = "archived" /\ rows'[v].status = rows[v].status
             /\ rows'[v].label = rows[v].label /\ rows'[v].key = rows[v].key
  <2>1. rows[v] \in RowSet
    BY DEF RegInv, RowsInv, RowOK
  <2>2. rows'[v] = [rows[v] EXCEPT !.stage = "archived"]
    BY <1>1 DEF ArchiveVersions
  <2> QED
    BY <2>1, <2>2 DEF RowSet, Stages
<1>5. RowsInv' /\ OneProductionRow'
  BY <1>3, <1>4 DEF RegInv, RowsInv, RowOK, OneProductionRow
<1>6. OneVersionPerKey'
  BY <1>3, <1>4, KeysKept
<1>7. AfterWrite(c) \in {"record", "emit"} /\ Goto(c, AfterWrite(c))
  BY DEF ArchiveModelTx, AfterWrite
<1>8. CallOK(call[c])' /\ DOMAIN call' = Callers /\ \A d \in Callers \ {c} : call'[d] = call[d]
  BY <1>1, <1>2, <1>7, AfterWriting DEF OnVersion
<1> QED
  BY <1>2, <1>3, <1>4, <1>5, <1>6, <1>8, WriteStep

LEMMA RegStep == RegInv /\ [Next]_vars => RegInv'
<1> SUFFICES ASSUME RegInv, [Next]_vars PROVE RegInv'
  OBVIOUS
<1>1. CASE UNCHANGED vars
  BY <1>1 DEF vars, db, RegInv, RowsInv, OneProductionRow, OneVersionPerKey, CallOK, Checked, Written
<1>2. ASSUME NEW c \in Callers, (\E r \in Requests : Begin(c, r)) \/ Command(c) \/ Fails(c) PROVE RegInv'
  BY <1>2, QuietStep, LoadStep, CountStep, PriorStep, ModelWrites, CreateVersionStep,
     UpdateVersionStatusStep, PromoteStep, ArchiveStep DEF Command, Write
<1> QED
  BY <1>1, <1>2 DEF Next

\* A model has at most one PRODUCTION version, for any number of racing promotions,
\* archivals and late status writes: PromoteVersionTx is checked by the partial unique
\* index, and UpdateVersionStatus, which writes a stage back unchecked, read it from a
\* PENDING version, which cannot have been in PRODUCTION.
THEOREM OneProductionVersion == Spec => []OneProduction
<1>1. RegInv => OneProduction
  <2> SUFFICES ASSUME RegInv PROVE OneProduction
    OBVIOUS
  <2>1. IsFiniteSet(Production(rows))
    BY ProductionFinite DEF RegInv, RowsInv
  <2>2. \A u, v \in Production(rows) : u = v
    BY DEF RegInv, OneProductionRow, Production
  <2> QED
    BY <2>1, <2>2, AtMostOne DEF OneProduction
<1> QED
  BY <1>1, RegInit, RegStep, PTL DEF Spec

\* No two versions share a label or an idempotency key (CreateVersion's unique indexes),
\* and no later write of a version changes either.
THEOREM LabelsAndKeysUnique == Spec => []OneVersionPerKey
<1>1. RegInv => OneVersionPerKey
  BY DEF RegInv
<1> QED
  BY <1>1, RegInit, RegStep, PTL DEF Spec

-----------------------------------------------------------------------------
(* Part 2: what the emitted events claim *)

\* The stages a version in s may be found in later.
Past(s) == {t \in Stages : s = "dev" \/ t = "archived" \/ t = s \/ (s = "staging" /\ t = "production")}

\* The change a command announces has stuck.
Holds(kind, v, to) ==
    CASE kind = "promote" -> v \in DOMAIN rows /\ to \in Stages \ {"dev"} /\ rows[v].stage \in Past(to)
      [] kind = "ready"   -> v \in DOMAIN rows /\ (to = "ready" => rows[v].status = "ready")
      [] kind = "archive" -> model.state = "archived"
      [] OTHER            -> model.state # "none"

\* As long as nothing was overwritten: stages follow the artifact and the model, and what
\* was announced, or will be, has stuck.
HonestInv ==
    ~stale =>
        /\ \A v \in DOMAIN rows : rows[v].stage \in {"staging", "production"} => rows[v].status = "ready"
        /\ model.state = "archived" => \A v \in DOMAIN rows : rows[v].stage = "archived"
        /\ \A e \in events : Holds(e.kind, e.v, e.to) /\ (e.kind = "ready" => e.to = "ready")
        /\ \A c \in Callers : call[c].pc \in {"record", "emit"} => Holds(call[c].req.op, call[c].req.v, call[c].req.to)

\* What a transaction does to the rows and the model when nothing is overwritten.
Forward ==
    /\ DOMAIN rows \subseteq DOMAIN rows'
    /\ \A v \in DOMAIN rows : /\ rows'[v].stage \in Past(rows[v].stage)
                              /\ rows[v].status = "ready" => rows'[v].status = "ready"
    /\ model.state = "archived" => model'.state = "archived"
    /\ model.state # "none" => model'.state # "none"

\* Once a change has stuck it stays.
LEMMA HoldsStays ==
    ASSUME Forward, NEW kind, NEW v, NEW to, Holds(kind, v, to)
    PROVE  Holds(kind, v, to)'
<1>1. CASE kind = "promote"
  <2>1. v \in DOMAIN rows' /\ to \in Stages \ {"dev"} /\ rows[v].stage \in Past(to) /\ rows'[v].stage \in Past(rows[v].stage)
    BY <1>1 DEF Holds, Forward
  <2>2. rows'[v].stage \in Past(to)
    BY <2>1 DEF Past, Stages
  <2> QED
    BY <1>1, <2>1, <2>2 DEF Holds
<1>2. CASE kind = "ready"
  BY <1>2 DEF Holds, Forward
<1>3. CASE kind = "archive"
  BY <1>3 DEF Holds, Forward
<1>4. CASE kind \notin {"promote", "ready", "archive"}
  BY <1>4 DEF Holds, Forward
<1> QED
  BY <1>1, <1>2, <1>3, <1>4

LEMMA HonestInit == Init => HonestInv
<1> SUFFICES ASSUME Init PROVE HonestInv
  OBVIOUS
<1>1. PICK D \in SUBSET Versions : rows \in [D -> UNION {InUse(l) : l \in 1..Cardinality(D)}]
  BY DEF Init
<1>2. ASSUME NEW v \in DOMAIN rows, rows[v].stage \in {"staging", "production"} PROVE rows[v].status = "ready"
  <2>1. PICK l \in 1..Cardinality(D) : rows[v] \in InUse(l)
    BY <1>1
  <2>2. PICK i \in Lifecycle : rows[v] = Row(i.stage, i.status, l, NoKey)
    BY <2>1 DEF InUse
  <2>3. rows[v].stage = i.stage /\ rows[v].status = i.status
    BY <2>2 DEF Row
  <2> QED
    BY <1>2, <2>2, <2>3 DEF Lifecycle
<1>3. model.state # "archived"
  BY DEF Init
<1>4. events = {} /\ \A c \in Callers : call[c].pc = "idle"
  BY DEF Init, Idle
<1> QED
  BY <1>2, <1>3, <1>4 DEF HonestInv

LEMMA HonestLocal ==
    ASSUME RegInv, HonestInv, NEW c \in Callers, NEW x, call' = [call EXCEPT ![c] = x],
           UNCHANGED <<model, rows, stale, events>>,
           ~stale /\ x.pc \in {"record", "emit"} => Holds(x.req.op, x.req.v, x.req.to)
    PROVE  HonestInv'
<1>1. call'[c] = x /\ \A d \in Callers \ {c} : call'[d] = call[d]
  BY DEF RegInv
<1> SUFFICES ASSUME ~stale PROVE HonestInv'
  BY DEF HonestInv
<1>2. \A d \in Callers : call'[d].pc \in {"record", "emit"} => Holds(call'[d].req.op, call'[d].req.v, call'[d].req.to)
  BY <1>1 DEF HonestInv
<1>3. \A d \in Callers : call'[d].pc \in {"record", "emit"} => Holds(call[d].req.op, call[d].req.v, call[d].req.to)'
  BY <1>2 DEF Holds
<1>4. \A e \in events' : Holds(e.kind, e.v, e.to)' /\ (e.kind = "ready" => e.to = "ready")
  BY DEF HonestInv, Holds
<1> QED
  BY <1>3, <1>4 DEF HonestInv

LEMMA HonestWrite ==
    ASSUME HonestInv, NEW c \in Callers, \A d \in Callers \ {c} : call'[d] = call[d],
           UNCHANGED events, stale => stale',
           ~stale' =>
             /\ Forward
             /\ \A v \in DOMAIN rows' : rows'[v].stage \in {"staging", "production"} => rows'[v].status = "ready"
             /\ model'.state = "archived" => \A v \in DOMAIN rows' : rows'[v].stage = "archived"
             /\ call'[c].pc \in {"record", "emit"} => Holds(call[c].req.op, call[c].req.v, call[c].req.to)'
    PROVE  HonestInv'
<1> SUFFICES ASSUME ~stale' PROVE HonestInv'
  BY DEF HonestInv
<1>1. \A e \in events' : Holds(e.kind, e.v, e.to)' /\ (e.kind = "ready" => e.to = "ready")
  BY HoldsStays DEF HonestInv
<1>2. ASSUME NEW d \in Callers, call'[d].pc \in {"record", "emit"} PROVE Holds(call[d].req.op, call[d].req.v, call[d].req.to)'
  <2>1. CASE d = c
    BY <1>2, <2>1
  <2>2. CASE d # c
    <3> DEFINE q == call[d].req
    <3>1. call'[d] = call[d] /\ Holds(q.op, q.v, q.to)
      BY <1>2, <2>2 DEF HonestInv
    <3>2. PICK op, v, to : op = q.op /\ v = q.v /\ to = q.to
      OBVIOUS
    <3>3. Holds(op, v, to)'
      BY <3>1, <3>2, HoldsStays
    <3>4. call'[d].req.op = op /\ call'[d].req.v = v /\ call'[d].req.to = to
      BY <3>1, <3>2
    <3> QED
      BY <3>3, <3>4 DEF Holds
  <2> QED
    BY <2>1, <2>2
<1> QED
  BY <1>1, <1>2 DEF HonestInv

\* The steps that write nothing.
LEMMA HonestQuiet ==
    ASSUME RegInv, HonestInv, NEW c \in Callers,
           \/ \E r \in Requests : Begin(c, r)
           \/ Fails(c) \/ Lookup(c) \/ Load(c) \/ Count(c) \/ Prior(c) \/ Exhausted(c) \/ Record(c)
    PROVE  HonestInv'
<1> DEFINE y == call[c]
<1>0. UNCHANGED <<model, rows, stale, events>>
  BY DEF Begin, Fails, Lookup, Load, Count, Prior, Exhausted, Record, db
<1>1. ASSUME NEW x, call' = [call EXCEPT ![c] = x], x.pc \notin {"record", "emit"} PROVE HonestInv'
  BY <1>0, <1>1, HonestLocal
<1>2. ASSUME NEW r \in Requests, Begin(c, r) PROVE HonestInv'
  <2> DEFINE l == IF r.key = NoKey THEN "load" ELSE "lookup"
  <2>1. call' = [call EXCEPT ![c] = Started(r, l)] /\ Started(r, l).pc \notin {"record", "emit"}
    BY <1>2 DEF Begin, Started
  <2> QED
    BY <1>1, <2>1
<1>3. ASSUME call' = [call EXCEPT ![c] = Idle] PROVE HonestInv'
  <2>1. Idle.pc \notin {"record", "emit"}
    BY DEF Idle
  <2> QED
    BY <1>1, <1>3, <2>1
<1>4. ASSUME y.pc # "idle" PROVE DOMAIN y = Fields /\ Busy(y)
  BY <1>4, Runs DEF RegInv, Busy
<1>5. ASSUME Lookup(c), Goto(c, "load") PROVE HonestInv'
  <2>1. y.pc = "lookup"
    BY <1>5 DEF Lookup, Running
  <2>2. [y EXCEPT !.pc = "load"].pc = "load"
    BY <1>4, <2>1 DEF Fields
  <2> QED
    BY <1>1, <1>5, <2>2 DEF Goto
<1>6. CASE Load(c)
  <2> DEFINE x == [y EXCEPT !.pc = NextRead(y.req), !.seen = Seen(y.req), !.label = IF y.req.to = "pinned" THEN Pinned ELSE NoLabel]
  <2>1. y.pc = "load" /\ (call' = [call EXCEPT ![c] = Idle] \/ call' = [call EXCEPT ![c] = x])
    BY <1>6 DEF Load, Running, Return
  <2>2. x.pc = NextRead(y.req)
    BY <1>4, <2>1 DEF Fields
  <2>3. NextRead(y.req) \in {"count", "prior", "write"}
    BY DEF NextRead
  <2> HIDE DEF x
  <2> QED
    BY <1>1, <1>3, <2>1, <2>2, <2>3
<1>7. CASE Count(c)
  <2> DEFINE x == [y EXCEPT !.pc = "write", !.label = Cardinality(DOMAIN rows) + 1]
  <2>1. y.pc = "count" /\ call' = [call EXCEPT ![c] = x]
    BY <1>7 DEF Count, Running
  <2>2. x.pc = "write"
    BY <1>4, <2>1 DEF Fields
  <2> QED
    BY <1>1, <2>1, <2>2
<1>8. CASE Prior(c)
  <2>1. PICK p : call' = [call EXCEPT ![c].pc = "write", ![c].prior = p]
    BY <1>8 DEF Prior
  <2> DEFINE x == [y EXCEPT !.pc = "write", !.prior = p]
  <2>2. y.pc = "prior" /\ call' = [call EXCEPT ![c] = x]
    BY <1>8, <2>1 DEF Prior, Running
  <2>3. x.pc = "write"
    BY <1>4, <2>2 DEF Fields
  <2> QED
    BY <1>1, <2>2, <2>3
<1>9. ASSUME y.pc = "record", Goto(c, "emit") PROVE HonestInv'
  <2> DEFINE x == [y EXCEPT !.pc = "emit"]
  <2>1. call' = [call EXCEPT ![c] = x] /\ x.req = y.req
    BY <1>4, <1>9 DEF Goto, Fields
  <2> HIDE DEF x
  <2>2. ~stale => Holds(x.req.op, x.req.v, x.req.to)
    BY <1>9, <2>1 DEF HonestInv
  <2> QED
    BY <1>0, <2>1, <2>2, HonestLocal
<1>10. CASE Record(c)
  BY <1>10, <1>3, <1>9 DEF Record, Running, Return
<1> QED
  BY <1>2, <1>3, <1>5, <1>6, <1>7, <1>8, <1>10 DEF Fails, Lookup, Exhausted, Return

\* The event says what the command has done.
LEMMA HonestEmit ==
    ASSUME RegInv, HonestInv, NEW c \in Callers, Emit(c)
    PROVE  HonestInv'
<1> DEFINE y == call[c]
           r == y.req
           e == [kind |-> r.op, v |-> r.v, to |-> r.to]
<1>1. /\ y.pc = "emit" /\ call' = [call EXCEPT ![c] = Idle] /\ UNCHANGED <<model, rows, stale>>
      /\ events' = IF r.op = "ready" /\ r.to = "failed" THEN events ELSE events \cup {e}
  BY DEF Emit, Running, Return, db
<1>2. Busy(y)
  BY <1>1, Runs DEF RegInv
<1> SUFFICES ASSUME ~stale PROVE HonestInv'
  BY <1>1 DEF HonestInv
<1>3. Holds(r.op, r.v, r.to)
  BY <1>1 DEF HonestInv
<1>4. e.kind = r.op /\ e.v = r.v /\ e.to = r.to
  OBVIOUS
<1>5. r.op = "ready" => r.to \in {"ready", "failed"}
  BY <1>2 DEF Busy
<1> HIDE DEF e
<1>6. \A d \in events' : Holds(d.kind, d.v, d.to) /\ (d.kind = "ready" => d.to = "ready")
  BY <1>1, <1>3, <1>4, <1>5 DEF HonestInv
<1>7. \A d \in events' : Holds(d.kind, d.v, d.to)'
  BY <1>1, <1>6 DEF Holds
<1>8. call'[c] = Idle /\ Idle.pc = "idle" /\ \A d \in Callers \ {c} : call'[d] = call[d]
  BY <1>1 DEF RegInv, Idle
<1>9. \A d \in Callers : call'[d].pc \in {"record", "emit"} => Holds(call'[d].req.op, call'[d].req.v, call'[d].req.to)
  BY <1>8 DEF HonestInv
<1>10. \A d \in Callers : call'[d].pc \in {"record", "emit"} => Holds(call[d].req.op, call[d].req.v, call[d].req.to)'
  BY <1>1, <1>9 DEF Holds
<1> QED
  BY <1>1, <1>6, <1>7, <1>10 DEF HonestInv

LEMMA StageStays == \A s \in Stages : s \in Past(s) /\ "archived" \in Past(s)
  BY DEF Past, Stages

\* The transactions.  Whoever read the row it writes, and nothing later, moves it forward.
LEMMA HonestModelWrites ==
    ASSUME RegInv, HonestInv, NEW c \in Callers, CreateModel(c) \/ UpdateModel(c)
    PROVE  HonestInv'
<1> DEFINE y == call[c]
           r == y.req
<1>1. y.pc = "write"
  BY DEF CreateModel, UpdateModel, Op, Running
<1>2. Busy(y) /\ Checked(y)
  BY <1>1, Runs DEF RegInv
<1>3. Idle.pc \notin {"record", "emit"}
  BY DEF Idle
<1>4. ASSUME UNCHANGED rows, model.state = "archived" => model'.state = "archived",
             model.state # "none" => model'.state # "none"
      PROVE  Forward
  BY <1>4, StageStays DEF Forward, RegInv, RowsInv, RowOK, RowSet
<1>5. CASE CreateModel(c)
  <2>1. CASE Refused(c)
    BY <1>3, <1>5, <2>1, HonestLocal DEF Refused, Return, CreateModel, db
  <2>2. CASE /\ model' = [state |-> "active", key |-> r.key] /\ Goto(c, "emit")
             /\ UNCHANGED <<rows, stale>> /\ model.state = "none"
    <3>1. model'.state = "active" /\ UNCHANGED events /\ r.op = "register"
      BY <1>5, <2>2 DEF CreateModel, Op
    <3>2. call'[c] = [y EXCEPT !.pc = "emit"] /\ \A d \in Callers \ {c} : call'[d] = call[d]
      BY <2>2 DEF Goto, RegInv
    <3>3. call'[c].req = r
      BY <1>2, <3>2, Moved
    <3>4. Holds(call[c].req.op, call[c].req.v, call[c].req.to)'
      BY <3>1, <3>3 DEF Holds
    <3>5. Forward
      BY <1>4, <2>2, <3>1
    <3> QED
      BY <2>2, <3>1, <3>2, <3>4, <3>5, HonestWrite DEF HonestInv
  <2> QED
    BY <1>5, <2>1, <2>2 DEF CreateModel
<1>6. CASE UpdateModel(c)
  <2>1. /\ model' = y.seen /\ call' = [call EXCEPT ![c] = Idle] /\ UNCHANGED <<rows, events>> /\ r.op = "update"
        /\ stale' = (stale \/ y.seen # Seen(r))
    BY <1>6 DEF UpdateModel, Return, Op, Stale
  <2>2. ~stale' => model' = model
    BY <2>1 DEF Seen
  <2>3. call'[c] = Idle /\ \A d \in Callers \ {c} : call'[d] = call[d]
    BY <2>1 DEF RegInv
  <2>4. ~stale' => Forward
    BY <1>4, <2>1, <2>2
  <2> QED
    BY <1>3, <2>1, <2>2, <2>3, <2>4, HonestWrite DEF HonestInv
<1> QED
  BY <1>5, <1>6

\* A version is created under a model that is still active.
LEMMA HonestCreate ==
    ASSUME RegInv, HonestInv, NEW c \in Callers, CreateVersion(c)
    PROVE  HonestInv'
<1> DEFINE y == call[c]
           r == y.req
<1>1. y.pc = "write" /\ r.op = "create" /\ UNCHANGED events
  BY DEF CreateVersion, Op, Running
<1>2. Busy(y) /\ Checked(y)
  BY <1>1, Runs DEF RegInv
<1>3. ASSUME NEW v \in Versions \ DOMAIN rows,
             rows' = [w \in DOMAIN rows \cup {v} |-> IF w = v THEN Row("dev", "pending", y.label, r.key) ELSE rows[w]],
             call' = [call EXCEPT ![c].pc = "emit", ![c].req.v = v],
             UNCHANGED model, Stale(c)
      PROVE  HonestInv'
  <2>1. /\ DOMAIN rows' = DOMAIN rows \cup {v} /\ rows'[v] = Row("dev", "pending", y.label, r.key)
        /\ \A w \in DOMAIN rows : rows'[w] = rows[w]
    BY <1>3
  <2>2. rows'[v].stage = "dev"
    BY <2>1 DEF Row
  <2>3. stale => stale'
    BY <1>3 DEF Stale
  <2>4. ~stale' => model.state = "active"
    BY <1>1, <1>2, <1>3 DEF Stale, Seen, Checked
  <2>5. Forward
    BY <1>3, <2>1, StageStays DEF Forward, RegInv, RowsInv, RowOK, RowSet
  <2>6. call'[c] = [y EXCEPT !.pc = "emit", !.req.v = v] /\ \A d \in Callers \ {c} : call'[d] = call[d]
    BY <1>2, <1>3 DEF RegInv, Busy, Fields
  <2>7. call'[c].req.op = "create"
    BY <1>1, <1>2, <2>6 DEF Busy, Fields, Reqs
  <2>8. ~stale' => Holds(call[c].req.op, call[c].req.v, call[c].req.to)'
    BY <1>3, <2>4, <2>7 DEF Holds
  <2>9. ~stale' => \A w \in DOMAIN rows' : rows'[w].stage \in {"staging", "production"} => rows'[w].status = "ready"
    BY <2>1, <2>2, <2>3 DEF HonestInv
  <2> QED
    BY <1>1, <1>3, <2>3, <2>4, <2>5, <2>6, <2>8, <2>9, HonestWrite
<1>4. ASSUME NEW x, call' = [call EXCEPT ![c] = x], x.pc \notin {"record", "emit"}, UNCHANGED <<model, rows, stale>>
      PROVE  HonestInv'
  BY <1>1, <1>4, HonestLocal
<1>5. /\ Idle.pc \notin {"record", "emit"}
      /\ [y EXCEPT !.pc = "exhausted"].pc = "exhausted"
      /\ [y EXCEPT !.attempt = @ + 1, !.label = @ + 1].pc = "write"
  BY <1>1, <1>2 DEF Idle, Busy, Fields
<1>6. ASSUME UNCHANGED <<model, rows, stale>>,
             \/ call' = [call EXCEPT ![c] = Idle]
             \/ call' = [call EXCEPT ![c].pc = "exhausted"]
             \/ call' = Bump(c)
      PROVE  HonestInv'
  BY <1>4, <1>5, <1>6 DEF Bump
<1> QED
  BY <1>3, <1>6 DEF CreateVersion, db

\* The artifact of a version that nobody moved is settled.
LEMMA HonestStatus ==
    ASSUME RegInv, HonestInv, NEW c \in Callers, UpdateVersionStatus(c)
    PROVE  HonestInv'
<1> DEFINE y == call[c]
           r == y.req
<1>1. /\ y.pc = "write" /\ r.op = "ready" /\ UNCHANGED <<model, events>> /\ Goto(c, AfterWrite(c))
      /\ stale' = (stale \/ y.seen # Seen(r))
      /\ rows' = [rows EXCEPT ![r.v].stage = y.seen.stage, ![r.v].status = r.to]
  BY DEF UpdateVersionStatus, Op, Running, Stale
<1>2. Busy(y) /\ Checked(y)
  BY <1>1, Runs DEF RegInv
<1>3. /\ r.v \in DOMAIN rows /\ y.seen.stage \in {"dev", "archived"} /\ y.seen.status = "pending"
      /\ r.to \in {"ready", "failed"} /\ Seen(r) = rows[r.v]
  BY <1>1, <1>2 DEF Checked, Busy, Seen
<1>4. rows[r.v] \in RowSet
  BY <1>3 DEF RegInv, RowsInv, RowOK
<1>5. /\ DOMAIN rows' = DOMAIN rows /\ \A v \in DOMAIN rows : v # r.v => rows'[v] = rows[v]
      /\ rows'[r.v].stage = y.seen.stage /\ rows'[r.v].status = r.to
  BY <1>1, <1>3, <1>4 DEF RowSet
<1>6. AfterWrite(c) \in {"record", "emit"}
  BY DEF AfterWrite
<1>7. call'[c] = [y EXCEPT !.pc = AfterWrite(c)] /\ \A d \in Callers \ {c} : call'[d] = call[d]
  BY <1>1 DEF Goto, RegInv
<1>8. call'[c].req = r
  BY <1>2, <1>6, <1>7, Moved
<1>9. ASSUME ~stale'
      PROVE  /\ Forward
             /\ \A v \in DOMAIN rows' : rows'[v].stage \in {"staging", "production"} => rows'[v].status = "ready"
             /\ model'.state = "archived" => \A v \in DOMAIN rows' : rows'[v].stage = "archived"
             /\ Holds(call[c].req.op, call[c].req.v, call[c].req.to)'
  <2>1. ~stale /\ rows[r.v].stage = y.seen.stage /\ rows[r.v].status = "pending"
    BY <1>1, <1>3, <1>9
  <2>2. \A v \in DOMAIN rows : rows'[v].stage = rows[v].stage
    BY <1>5, <2>1
  <2>3. Forward
    BY <1>1, <1>5, <2>1, <2>2, StageStays DEF Forward, RegInv, RowsInv, RowOK, RowSet
  <2>4. \A v \in DOMAIN rows' : rows'[v].stage \in {"staging", "production"} => rows'[v].status = "ready"
    BY <1>3, <1>5, <2>1 DEF HonestInv
  <2>5. model'.state = "archived" => \A v \in DOMAIN rows' : rows'[v].stage = "archived"
    BY <1>1, <1>5, <2>1, <2>2 DEF HonestInv
  <2>6. Holds(call[c].req.op, call[c].req.v, call[c].req.to)'
    BY <1>1, <1>3, <1>5, <1>8 DEF Holds
  <2> QED
    BY <2>3, <2>4, <2>5, <2>6
<1> QED
  BY <1>1, <1>7, <1>9, HonestWrite

\* A promotion is an edge of the stage machine from where the version still is.
LEMMA HonestPromote ==
    ASSUME RegInv, HonestInv, NEW c \in Callers, PromoteVersionTx(c)
    PROVE  HonestInv'
<1> DEFINE y == call[c]
           r == y.req
<1>1. y.pc = "write" /\ r.op = "promote" /\ UNCHANGED events
  BY DEF PromoteVersionTx, Op, Running
<1>2. Busy(y) /\ Checked(y)
  BY <1>1, Runs DEF RegInv
<1>3. CASE Refused(c)
  <2>1. Idle.pc \notin {"record", "emit"}
    BY DEF Idle
  <2> QED
    BY <1>1, <1>3, <2>1, HonestLocal DEF Refused, Return, db
<1>4. ASSUME rows' = Swap(c), Goto(c, AfterWrite(c)), Stale(c), UNCHANGED model
      PROVE  HonestInv'
  <2>1. r.v \in DOMAIN rows /\ r.to \in Stages \ {"dev"} /\ Promotable(y.seen, r.to) /\ Seen(r) = rows[r.v]
    BY <1>1, <1>2 DEF Checked, Busy, Seen
  <2>2. DOMAIN rows' = DOMAIN rows
    BY <1>4 DEF Swap
  <2>3. ASSUME NEW v \in DOMAIN rows
        PROVE  /\ rows[v].stage \in Stages /\ rows'[v].status = rows[v].status
               /\ rows'[v].stage \in {rows[v].stage, "archived"} \/ (v = r.v /\ rows'[v].stage = r.to)
               /\ v = r.v => rows'[v].stage = r.to
    <3>1. rows[v] \in RowSet
      BY DEF RegInv, RowsInv, RowOK
    <3>2. rows'[v] = rows[v] \/ rows'[v] = [rows[v] EXCEPT !.stage = "archived"]
            \/ (v = r.v /\ rows'[v] = [rows[v] EXCEPT !.stage = r.to])
      BY <1>4 DEF Swap
    <3>3. v = r.v => rows'[v] = [rows[v] EXCEPT !.stage = r.to]
      BY <1>4 DEF Swap
    <3> QED
      BY <3>1, <3>2, <3>3 DEF RowSet
  <2>4. AfterWrite(c) \in {"record", "emit"}
    BY DEF AfterWrite
  <2>5. call'[c] = [y EXCEPT !.pc = AfterWrite(c)] /\ \A d \in Callers \ {c} : call'[d] = call[d]
    BY <1>4 DEF Goto, RegInv
  <2>6. call'[c].req = r
    BY <1>2, <2>4, <2>5, Moved
  <2>7. stale => stale'
    BY <1>4 DEF Stale
  <2>8. ASSUME ~stale'
        PROVE  /\ Forward
               /\ \A v \in DOMAIN rows' : rows'[v].stage \in {"staging", "production"} => rows'[v].status = "ready"
               /\ model'.state = "archived" => \A v \in DOMAIN rows' : rows'[v].stage = "archived"
               /\ Holds(call[c].req.op, call[c].req.v, call[c].req.to)'
    <3>1. ~stale /\ y.seen = rows[r.v]
      BY <1>4, <2>1, <2>8 DEF Stale
    <3>2. CanTransitionTo(rows[r.v].stage, r.to) /\ (r.to \in {"staging", "production"} => rows[r.v].status = "ready")
      BY <2>1, <3>1 DEF Promotable
    <3>3. rows[r.v].stage # "archived" /\ r.to \in Past(rows[r.v].stage)
      BY <2>1, <2>3, <3>2 DEF CanTransitionTo, Past, Stages
    <3>4. Forward
      BY <1>4, <2>2, <2>3, <3>3, StageStays DEF Forward
    <3>5. \A v \in DOMAIN rows' : rows'[v].stage \in {"staging", "production"} => rows'[v].status = "ready"
      BY <2>2, <2>3, <3>1, <3>2 DEF HonestInv
    <3>6. model'.state # "archived"
      BY <1>4, <2>1, <3>1, <3>3 DEF HonestInv
    <3>7. Holds(call[c].req.op, call[c].req.v, call[c].req.to)'
      BY <1>1, <2>1, <2>2, <2>3, <2>6, StageStays DEF Holds
    <3> QED
      BY <3>4, <3>5, <3>6, <3>7
  <2> QED
    BY <1>1, <2>5, <2>7, <2>8, HonestWrite
<1> QED
  BY <1>3, <1>4 DEF PromoteVersionTx

LEMMA HonestArchive ==
    ASSUME RegInv, HonestInv, NEW c \in Callers, ArchiveModelTx(c)
    PROVE  HonestInv'
<1> DEFINE y == call[c]
           r == y.req
<1>1. /\ y.pc = "write" /\ r.op = "archive" /\ UNCHANGED <<events, stale>> /\ Goto(c, AfterWrite(c))
      /\ model' = [model EXCEPT !.state = "archived"] /\ rows' = ArchiveVersions
  BY DEF ArchiveModelTx, Op, Running
<1>2. Busy(y)
  BY <1>1, Runs DEF RegInv
<1>3. model'.state = "archived"
  BY <1>1 DEF RegInv, Models
<1>4. DOMAIN rows' = DOMAIN rows
  BY <1>1 DEF ArchiveVersions
<1>5. ASSUME NEW v \in DOMAIN rows
      PROVE  rows[v].stage \in Stages /\ rows'[v].stage = "archived" /\ rows'[v].status = rows[v].status
  <2>1. rows[v] \in RowSet
    BY DEF RegInv, RowsInv, RowOK
  <2>2. rows'[v] = [rows[v] EXCEPT !.stage = "archived"]
    BY <1>1 DEF ArchiveVersions
  <2> QED
    BY <2>1, <2>2 DEF RowSet
<1>6. Forward
  BY <1>3, <1>4, <1>5, StageStays DEF Forward
<1>7. AfterWrite(c) \in {"record", "emit"}
  BY DEF AfterWrite
<1>8. call'[c] = [y EXCEPT !.pc = AfterWrite(c)] /\ \A d \in Callers \ {c} : call'[d] = call[d]
  BY <1>1 DEF Goto, RegInv
<1>9. call'[c].req = r
  BY <1>2, <1>7, <1>8, Moved
<1>10. Holds(call[c].req.op, call[c].req.v, call[c].req.to)'
  BY <1>1, <1>3, <1>9 DEF Holds
<1> QED
  BY <1>1, <1>4, <1>5, <1>6, <1>8, <1>10, HonestWrite

LEMMA HonestStep == RegInv /\ HonestInv /\ [Next]_vars => HonestInv'
<1> SUFFICES ASSUME RegInv, HonestInv, [Next]_vars PROVE HonestInv'
  OBVIOUS
<1>1. CASE UNCHANGED vars
  BY <1>1 DEF vars, db, HonestInv, Holds
<1>2. ASSUME NEW c \in Callers, (\E r \in Requests : Begin(c, r)) \/ Command(c) \/ Fails(c) PROVE HonestInv'
  BY <1>2, HonestQuiet, HonestEmit, HonestModelWrites, HonestCreate, HonestStatus, HonestPromote, HonestArchive
     DEF Command, Write
<1> QED
  BY <1>1, <1>2 DEF Next

\* While no command wrote over a row that changed after it was read: what is staged or
\* served has a READY artifact, an archived model has only ARCHIVED versions, and every
\* emitted event tells of a change that stuck, for any number of racing commands, retries
\* and failed calls (registry_service_impl.go, write_store.go).
THEOREM LifecycleIsHonest == Spec => []LifecycleHonest
<1>1. RegInv /\ HonestInv => LifecycleHonest
  <2> SUFFICES ASSUME RegInv, HonestInv, ~stale PROVE LifecycleHonest
    BY DEF LifecycleHonest
  <2> DEFINE Claim(e) == CASE e.kind = "promote" -> ~CanTransitionTo(rows[e.v].stage, e.to)
                           [] e.kind = "ready"   -> rows[e.v].status = "ready"
                           [] e.kind = "archive" -> model.state = "archived"
                           [] OTHER              -> model.state # "none"
  <2>1. ASSUME NEW e \in events PROVE Claim(e)
    <3>1. Holds(e.kind, e.v, e.to) /\ (e.kind = "ready" => e.to = "ready")
      BY DEF HonestInv
    <3>2. CASE e.kind = "promote"
      <4>1. e.to \in Stages \ {"dev"} /\ rows[e.v].stage \in Past(e.to)
        BY <3>1, <3>2 DEF Holds
      <4>2. ~CanTransitionTo(rows[e.v].stage, e.to)
        BY <4>1 DEF CanTransitionTo, Past, Stages
      <4> QED
        BY <3>2, <4>2
    <3>3. CASE e.kind = "ready"
      BY <3>1, <3>3 DEF Holds
    <3>4. CASE e.kind = "archive"
      BY <3>1, <3>4 DEF Holds
    <3>5. CASE e.kind \notin {"promote", "ready", "archive"}
      BY <3>1, <3>5 DEF Holds
    <3> QED
      BY <3>2, <3>3, <3>4, <3>5
  <2> QED
    BY <2>1 DEF LifecycleHonest, HonestInv
<1> QED
  BY <1>1, RegInit, RegStep, HonestInit, HonestStep, PTL DEF Spec

-----------------------------------------------------------------------------
(* Part 3: labels *)

\* Creates that have not inserted their row.
Creating(x) == x.pc \in {"lookup", "load", "count", "write", "exhausted"} /\ x.req.op = "create"
Creators    == {c \in Callers : Creating(call[c])}

N            == Cardinality(DOMAIN rows)
KeyStored(k) == k # NoKey /\ \E v \in DOMAIN rows : rows[v].key = k

\* A create that has counted n versions tries n + 1, n + 2, ...: every label it lost is a
\* version inserted since, unless its own key is there.
LabelOK(x, k) ==
    Creating(x) =>
        /\ x.pc \in {"lookup", "load", "count"} => x.attempt = 0
        /\ x.pc \in {"write", "exhausted"} =>
            \/ KeyStored(x.req.key)
            \/ /\ x.label <= N + 1
               /\ x.req.to # "pinned" => x.label > k + x.attempt
               /\ x.pc = "exhausted" => x.attempt >= MaxAttempts /\ x.label <= N /\ x.req.to # "pinned"

\* k is the number of versions there were at first.  Every version since is one command's,
\* another one than those still creating.
CountInv(k) ==
    /\ IsFiniteSet(Creators) /\ calls \in Nat /\ calls <= MaxCalls
    /\ k <= N /\ N + Cardinality(Creators) <= k + calls
    /\ \A v \in DOMAIN rows : rows[v].label <= N
    /\ \A c \in Callers : LabelOK(call[c], k)

LabelInv == \E k \in Nat : CountInv(k)
\* The rows of a step keep their number, labels and keys, and nobody new starts to create.
LEMMA CountStays ==
    ASSUME RegInv, NEW k \in Nat, CountInv(k), NEW c \in Callers,
           DOMAIN rows' = DOMAIN rows,
           \A v \in DOMAIN rows : rows'[v].label = rows[v].label /\ rows'[v].key = rows[v].key,
           UNCHANGED calls, \A d \in Callers \ {c} : call'[d] = call[d],
           Creating(call'[c]) => Creating(call[c]), LabelOK(call'[c], k)
    PROVE  CountInv(k)'
<1>1. N' = N
  BY DEF N
<1>2. \A x : KeyStored(x) => KeyStored(x)'
  BY DEF KeyStored
<1>3. Creators' \in SUBSET Creators
  BY DEF Creators, Creating
<1>4. IsFiniteSet(Creators') /\ Cardinality(Creators') <= Cardinality(Creators)
  BY <1>3, FS_Subset DEF CountInv
<1>5. Cardinality(Creators') \in Nat /\ Cardinality(Creators) \in Nat /\ N \in Nat
  BY <1>4, ProductionFinite, FS_CardinalityType DEF CountInv, N, RegInv, RowsInv
<1>6. \A d \in Callers : LabelOK(call'[d], k)
  BY DEF CountInv
<1>7. ASSUME NEW d \in Callers PROVE LabelOK(call[d], k)'
  <2>1. LabelOK(call'[d], k)
    BY <1>6
  <2> QED
    BY <1>1, <1>2, <2>1 DEF LabelOK, Creating
<1>8. N' + Cardinality(Creators') <= k + calls'
  BY <1>1, <1>4, <1>5 DEF CountInv
<1> QED
  BY <1>1, <1>4, <1>7, <1>8 DEF CountInv

LEMMA IdleCreatesNothing == ~Creating(Idle) /\ \A k \in Nat : LabelOK(Idle, k)
  BY DEF Creating, Idle, LabelOK

LEMMA CountBegin ==
    ASSUME RegInv, NEW k \in Nat, CountInv(k), NEW c \in Callers, NEW r \in Requests, Begin(c, r)
    PROVE  CountInv(k)'
<1> DEFINE l == IF r.key = NoKey THEN "load" ELSE "lookup"
           x == Started(r, l)
<1>1. /\ call' = [call EXCEPT ![c] = x] /\ UNCHANGED rows /\ calls' = calls + 1 /\ calls < MaxCalls
  BY DEF Begin, db
<1>2. call'[c] = x /\ \A d \in Callers \ {c} : call'[d] = call[d]
  BY <1>1 DEF RegInv
<1>3. x.pc \in {"load", "lookup"} /\ x.attempt = 0
  BY DEF Started
<1> HIDE DEF x
<1>4. N' = N
  BY <1>1 DEF N
<1>5. \A z : KeyStored(z) => KeyStored(z)'
  BY <1>1 DEF KeyStored
<1>6. Creators' \in SUBSET (Creators \cup {c})
  BY <1>2 DEF Creators, Creating
<1>7. IsFiniteSet(Creators \cup {c}) /\ Cardinality(Creators \cup {c}) <= Cardinality(Creators) + 1 /\ Cardinality(Creators) \in Nat
  <2>1. IsFiniteSet(Creators)
    BY DEF CountInv
  <2>2. Cardinality(Creators) \in Nat
    BY <2>1, FS_CardinalityType
  <2>3. IsFiniteSet(Creators \cup {c})
    BY <2>1, FS_AddElement
  <2>4. Cardinality(Creators \cup {c}) = IF c \in Creators THEN Cardinality(Creators) ELSE Cardinality(Creators) + 1
    BY <2>1, FS_AddElement
  <2> QED
    BY <2>2, <2>3, <2>4
<1>8. IsFiniteSet(Creators') /\ Cardinality(Creators') <= Cardinality(Creators \cup {c})
  BY <1>6, <1>7, FS_Subset
<1>9. Cardinality(Creators') \in Nat /\ Cardinality(Creators \cup {c}) \in Nat /\ N \in Nat
  BY <1>7, <1>8, ProductionFinite, FS_CardinalityType DEF N, RegInv, RowsInv
<1>10. N' + Cardinality(Creators') <= k + calls' /\ calls' \in Nat /\ calls' <= MaxCalls
  BY <1>1, <1>4, <1>7, <1>8, <1>9, BoundsAssumption DEF CountInv
<1>11. LabelOK(x, k)
  BY <1>3 DEF LabelOK
<1>12. ASSUME NEW d \in Callers PROVE LabelOK(call[d], k)'
  <2>1. LabelOK(call'[d], k)
    BY <1>2, <1>11 DEF CountInv
  <2> QED
    BY <1>4, <1>5, <2>1 DEF LabelOK, Creating
<1> QED
  BY <1>1, <1>4, <1>8, <1>10, <1>12 DEF CountInv

\* Reads and retries of the loop.
LEMMA CountReads ==
    ASSUME RegInv, NEW k \in Nat, CountInv(k), NEW c \in Callers,
           Fails(c) \/ Lookup(c) \/ Load(c) \/ Count(c) \/ Prior(c) \/ Exhausted(c) \/ Record(c) \/ Emit(c)
    PROVE  CountInv(k)'
<1> DEFINE y == call[c]
<1>0. UNCHANGED <<rows, calls>>
  BY DEF Fails, Lookup, Load, Count, Prior, Exhausted, Record, Emit, db
<1>1. ASSUME NEW x, call' = [call EXCEPT ![c] = x], Creating(x) => Creating(y), LabelOK(x, k) PROVE CountInv(k)'
  <2>1. call'[c] = x /\ \A d \in Callers \ {c} : call'[d] = call[d]
    BY <1>1 DEF RegInv
  <2> QED
    BY <1>0, <1>1, <2>1, CountStays
<1>2. ASSUME call' = [call EXCEPT ![c] = Idle] PROVE CountInv(k)'
  BY <1>1, <1>2, IdleCreatesNothing
<1>3. ASSUME y.pc # "idle" PROVE DOMAIN y = Fields /\ Busy(y)
  BY <1>3, Runs DEF RegInv, Busy
<1>4. LabelOK(y, k)
  BY DEF CountInv
<1>5. N \in Nat
  BY ProductionFinite, FS_CardinalityType DEF N, RegInv, RowsInv
<1>6. ASSUME Lookup(c), Goto(c, "load") PROVE CountInv(k)'
  <2> DEFINE x == [y EXCEPT !.pc = "load"]
  <2>1. y.pc = "lookup" /\ call' = [call EXCEPT ![c] = x]
    BY <1>6 DEF Lookup, Running, Goto
  <2>2. x.pc = "load" /\ x.req = y.req /\ x.attempt = y.attempt
    BY <1>3, <2>1 DEF Fields
  <2> HIDE DEF x
  <2>3. (Creating(x) => Creating(y)) /\ LabelOK(x, k)
    BY <1>4, <2>1, <2>2 DEF Creating, LabelOK
  <2> QED
    BY <1>1, <2>1, <2>3
<1>7. CASE Load(c)
  <2> DEFINE r == y.req
             x == [y EXCEPT !.pc = NextRead(r), !.seen = Seen(r), !.label = IF r.to = "pinned" THEN Pinned ELSE NoLabel]
  <2>1. y.pc = "load" /\ (call' = [call EXCEPT ![c] = Idle] \/ call' = [call EXCEPT ![c] = x])
    BY <1>7 DEF Load, Running, Return
  <2>2. /\ x.pc = NextRead(r) /\ x.req = r /\ x.attempt = y.attempt
        /\ x.label = IF r.to = "pinned" THEN Pinned ELSE NoLabel
    BY <1>3, <2>1 DEF Fields
  <2>3. r.op = "create" => r.to \in {"auto", "pinned"}
    BY <1>3, <2>1 DEF Busy
  <2>4. /\ NextRead(r) \in {"count", "prior", "write"}
        /\ r.op = "create" /\ r.to = "auto" => NextRead(r) = "count"
    BY DEF NextRead
  <2> HIDE DEF x
  <2>5. Creating(x) => Creating(y)
    BY <2>1, <2>2 DEF Creating
  <2>6. Creating(x) => y.attempt = 0
    BY <1>4, <2>1, <2>5 DEF LabelOK
  <2>7. Creating(x) => x.pc \in {"count", "write"} /\ (x.pc = "write" => x.label = 1 /\ x.req.to = "pinned")
    BY <2>2, <2>3, <2>4 DEF Creating, Pinned
  <2>8. LabelOK(x, k)
    BY <1>5, <2>2, <2>6, <2>7 DEF LabelOK
  <2> QED
    BY <1>1, <1>2, <2>1, <2>5, <2>8
<1>8. CASE Count(c)
  <2> DEFINE x == [y EXCEPT !.pc = "write", !.label = Cardinality(DOMAIN rows) + 1]
  <2>1. y.pc = "count" /\ call' = [call EXCEPT ![c] = x]
    BY <1>8 DEF Count, Running
  <2>2. x.pc = "write" /\ x.req = y.req /\ x.attempt = y.attempt /\ x.label = N + 1
    BY <1>3, <2>1 DEF Fields, N
  <2> HIDE DEF x
  <2>3. k <= N
    BY DEF CountInv
  <2>4. (Creating(x) => Creating(y)) /\ LabelOK(x, k)
    BY <1>4, <1>5, <2>1, <2>2, <2>3 DEF Creating, LabelOK
  <2> QED
    BY <1>1, <2>1, <2>4
<1>9. CASE Prior(c)
  <2>1. PICK p : call' = [call EXCEPT ![c].pc = "write", ![c].prior = p]
    BY <1>9 DEF Prior
  <2> DEFINE x == [y EXCEPT !.pc = "write", !.prior = p]
  <2>2. y.pc = "prior" /\ call' = [call EXCEPT ![c] = x]
    BY <1>9, <2>1 DEF Prior, Running
  <2>3. x.pc = "write" /\ x.req = y.req /\ y.req.op = "promote"
    BY <1>3, <2>2 DEF Fields, Busy
  <2> HIDE DEF x
  <2>4. ~Creating(x) /\ LabelOK(x, k)
    BY <2>3 DEF Creating, LabelOK
  <2> QED
    BY <1>1, <2>2, <2>4
<1>10. ASSUME y.pc = "record", Goto(c, "emit") PROVE CountInv(k)'
  <2> DEFINE x == [y EXCEPT !.pc = "emit"]
  <2>1. call' = [call EXCEPT ![c] = x] /\ x.pc = "emit"
    BY <1>3, <1>10 DEF Goto, Fields
  <2> HIDE DEF x
  <2>2. ~Creating(x) /\ LabelOK(x, k)
    BY <2>1 DEF Creating, LabelOK
  <2> QED
    BY <1>1, <2>1, <2>2
<1>11. CASE Record(c)
  BY <1>11, <1>2, <1>10 DEF Record, Running, Return
<1>12. CASE Lookup(c)
  BY <1>12, <1>2, <1>6 DEF Lookup, Return
<1> QED
  BY <1>2, <1>7, <1>8, <1>9, <1>11, <1>12 DEF Fails, Exhausted, Emit, Return
\* The insert adds one version and takes one create off; a lost label is an earlier insert.
LEMMA CountCreate ==
    ASSUME RegInv, NEW k \in Nat, CountInv(k), NEW c \in Callers, CreateVersion(c)
    PROVE  CountInv(k)'
<1> DEFINE y == call[c]
           r == y.req
<1>1. y.pc = "write" /\ r.op = "create" /\ UNCHANGED calls
  BY DEF CreateVersion, Op, Running
<1>2. Busy(y)
  BY <1>1, Runs DEF RegInv
<1>3. LabelOK(y, k) /\ Creating(y)
  BY <1>1 DEF CountInv, Creating
<1>4. N \in Nat /\ IsFiniteSet(DOMAIN rows)
  BY ProductionFinite, FS_CardinalityType DEF N, RegInv, RowsInv
<1>5. \/ KeyStored(r.key)
      \/ y.label <= N + 1 /\ (r.to # "pinned" => y.label > k + y.attempt)
  BY <1>1, <1>3 DEF LabelOK
<1>6. y.label \in Nat /\ y.attempt \in Nat
  BY <1>2 DEF Busy
<1>7. ASSUME ~Conflict(y.label, r.key),
             NEW v \in Versions \ DOMAIN rows,
             rows' = [w \in DOMAIN rows \cup {v} |-> IF w = v THEN Row("dev", "pending", y.label, r.key) ELSE rows[w]],
             call' = [call EXCEPT ![c].pc = "emit", ![c].req.v = v]
      PROVE  CountInv(k)'
  <2>1. /\ DOMAIN rows' = DOMAIN rows \cup {v} /\ rows'[v] = Row("dev", "pending", y.label, r.key)
        /\ \A w \in DOMAIN rows : rows'[w] = rows[w]
    BY <1>7
  <2>2. rows'[v].label = y.label
    BY <2>1 DEF Row
  <2>3. N' = N + 1
    BY <1>4, <1>7, <2>1, FS_AddElement DEF N
  <2>4. y.label <= N + 1
    BY <1>5, <1>7 DEF Conflict, KeyStored
  <2>5. \A w \in DOMAIN rows' : rows'[w].label <= N'
    <3>1. \A w \in DOMAIN rows : rows[w].label <= N /\ rows[w].label \in Nat
      BY DEF CountInv, RegInv, RowsInv, RowOK, RowSet
    <3> QED
      BY <1>4, <2>1, <2>2, <2>3, <2>4, <3>1
  <2>6. \A z : KeyStored(z) => KeyStored(z)'
    BY <2>1 DEF KeyStored
  <2>7. call'[c] = [y EXCEPT !.pc = "emit", !.req.v = v] /\ \A d \in Callers \ {c} : call'[d] = call[d]
    BY <1>2, <1>7 DEF RegInv, Busy, Fields
  <2>8. call'[c].pc = "emit"
    BY <1>2, <2>7 DEF Busy, Fields
  <2>9. Creators' = Creators \ {c} /\ c \in Creators
    <3>1. c \in Creators
      BY <1>3 DEF Creators
    <3>2. c \notin Creators'
      BY <2>8 DEF Creators, Creating
    <3>3. \A d \in Callers \ {c} : d \in Creators' <=> d \in Creators
      BY <2>7 DEF Creators, Creating
    <3>4. Creators \subseteq Callers /\ Creators' \subseteq Callers
      BY DEF Creators
    <3> QED
      BY <3>1, <3>2, <3>3, <3>4
  <2>10. IsFiniteSet(Creators') /\ Cardinality(Creators') = Cardinality(Creators) - 1 /\ Cardinality(Creators) \in Nat
    <3>1. IsFiniteSet(Creators)
      BY DEF CountInv
    <3> QED
      BY <2>9, <3>1, FS_RemoveElement, FS_CardinalityType
  <2>11. k <= N' /\ N' + Cardinality(Creators') <= k + calls'
    BY <1>1, <1>4, <2>3, <2>10 DEF CountInv
  <2>12. ASSUME NEW d \in Callers PROVE LabelOK(call[d], k)'
    <3>1. CASE d = c
      BY <2>8, <3>1 DEF LabelOK, Creating
    <3>2. CASE d # c
      <4> DEFINE x == call[d]
      <4>1. call'[d] = x /\ LabelOK(x, k)
        BY <2>7, <3>2 DEF CountInv
      <4>2. Creating(x) => x.label \in Nat
        BY Runs DEF Creating, RegInv, Busy, CallOK, Idle
      <4> QED
        BY <1>4, <2>3, <2>6, <4>1, <4>2 DEF LabelOK, Creating
    <3> QED
      BY <3>1, <3>2
  <2> QED
    BY <1>1, <2>5, <2>10, <2>11, <2>12 DEF CountInv
<1>8. ASSUME NEW x, call' = [call EXCEPT ![c] = x], LabelOK(x, k), UNCHANGED rows PROVE CountInv(k)'
  <2>1. call'[c] = x /\ \A d \in Callers \ {c} : call'[d] = call[d]
    BY <1>8 DEF RegInv
  <2> QED
    BY <1>1, <1>3, <1>8, <2>1, CountStays
<1>9. ASSUME Conflict(y.label, r.key), UNCHANGED rows,
             call' = IF r.to = "pinned" THEN [call EXCEPT ![c] = Idle]
                     ELSE IF y.attempt >= MaxAttempts THEN [call EXCEPT ![c].pc = "exhausted"]
                     ELSE Bump(c)
      PROVE  CountInv(k)'
  <2>1. KeyStored(r.key) \/ y.label <= N
    BY <1>9 DEF Conflict, KeyStored, CountInv
  <2>2. CASE r.to = "pinned"
    BY <1>8, <1>9, <2>2, IdleCreatesNothing
  <2>3. CASE r.to # "pinned" /\ y.attempt >= MaxAttempts
    <3> DEFINE x == [y EXCEPT !.pc = "exhausted"]
    <3>1. call' = [call EXCEPT ![c] = x]
      BY <1>9, <2>3
    <3>2. x.pc = "exhausted" /\ x.req = r /\ x.label = y.label /\ x.attempt = y.attempt
      BY <1>2 DEF Busy, Fields
    <3> HIDE DEF x
    <3>3. LabelOK(x, k)
      BY <1>4, <1>5, <1>6, <2>1, <2>3, <3>2 DEF LabelOK
    <3> QED
      BY <1>8, <1>9, <3>1, <3>3
  <2>4. CASE r.to # "pinned" /\ ~(y.attempt >= MaxAttempts)
    <3> DEFINE x == [y EXCEPT !.attempt = @ + 1, !.label = @ + 1]
    <3>1. call' = [call EXCEPT ![c] = x]
      BY <1>9, <2>4 DEF Bump
    <3>2. x.pc = "write" /\ x.req = r /\ x.label = y.label + 1 /\ x.attempt = y.attempt + 1
      BY <1>1, <1>2 DEF Busy, Fields
    <3> HIDE DEF x
    <3>3. LabelOK(x, k)
      BY <1>4, <1>5, <1>6, <2>1, <2>4, <3>2 DEF LabelOK
    <3> QED
      BY <1>8, <1>9, <3>1, <3>3
  <2> QED
    BY <2>2, <2>3, <2>4
<1> QED
  BY <1>7, <1>9 DEF CreateVersion, db

\* The other transactions are no creates, and keep the labels and keys.
LEMMA CountWrites ==
    ASSUME RegInv, NEW k \in Nat, CountInv(k), NEW c \in Callers,
           CreateModel(c) \/ UpdateModel(c) \/ UpdateVersionStatus(c) \/ PromoteVersionTx(c) \/ ArchiveModelTx(c)
    PROVE  CountInv(k)'
<1> DEFINE y == call[c]
           r == y.req
<1>1. y.pc = "write" /\ UNCHANGED calls /\ r.op # "create"
  BY DEF CreateModel, UpdateModel, UpdateVersionStatus, PromoteVersionTx, ArchiveModelTx, Op, Running
<1>2. Busy(y) /\ Checked(y)
  BY <1>1, Runs DEF RegInv
<1>3. DOMAIN y = Fields
  BY <1>2 DEF Busy
<1>4. /\ \A d \in Callers \ {c} : call'[d] = call[d]
      /\ call'[c] = Idle \/ \E l : call'[c] = [y EXCEPT !.pc = l]
  BY DEF RegInv, CreateModel, UpdateModel, UpdateVersionStatus, PromoteVersionTx, ArchiveModelTx, Refused, Return, Goto
<1>5. ~Creating(call'[c]) /\ LabelOK(call'[c], k)
  <2>1. CASE call'[c] = Idle
    BY <2>1, IdleCreatesNothing
  <2>2. CASE \E l : call'[c] = [y EXCEPT !.pc = l]
    <3>1. call'[c].req = r
      BY <1>3, <2>2 DEF Fields
    <3> QED
      BY <1>1, <3>1 DEF Creating, LabelOK
  <2> QED
    BY <1>4, <2>1, <2>2
<1>6. \A v \in DOMAIN rows : rows[v] \in RowSet
  BY DEF RegInv, RowsInv, RowOK
<1>7. /\ DOMAIN rows' = DOMAIN rows
      /\ \A v \in DOMAIN rows : rows'[v].label = rows[v].label /\ rows'[v].key = rows[v].key
  <2>1. CASE UNCHANGED rows
    BY <2>1
  <2>2. CASE UpdateVersionStatus(c)
    BY <1>6, <2>2 DEF UpdateVersionStatus, RowSet
  <2>3. CASE rows' = Swap(c)
    BY <1>6, <2>3 DEF Swap, RowSet
  <2>4. CASE rows' = ArchiveVersions
    BY <1>6, <2>4 DEF ArchiveVersions, RowSet
  <2> QED
    BY <2>1, <2>2, <2>3, <2>4 DEF CreateModel, UpdateModel, PromoteVersionTx, ArchiveModelTx, Refused, db
<1> QED
  BY <1>1, <1>4, <1>5, <1>7, CountStays

LEMMA LabelInit == Init => LabelInv
<1> SUFFICES ASSUME Init PROVE LabelInv
  OBVIOUS
<1>1. PICK D \in SUBSET Versions : \E n \in [D -> 1..Cardinality(D)] :
        /\ rows \in [D -> UNION {InUse(l) : l \in 1..Cardinality(D)}]
        /\ \A v \in D : rows[v].label = n[v]
  BY DEF Init
<1>2. DOMAIN rows = D /\ N = Cardinality(D) /\ \A v \in D : rows[v].label \in 1..N
  BY <1>1 DEF N
<1>3. N \in Nat
  BY <1>2, KeyAssumption, FS_Subset, FS_CardinalityType
<1>4. \A c \in Callers : call[c] = Idle
  BY DEF Init
<1>5. Creators = {}
  BY <1>4, IdleCreatesNothing DEF Creators
<1>6. CountInv(N)
  BY <1>2, <1>3, <1>4, <1>5, IdleCreatesNothing, FS_EmptySet, BoundsAssumption DEF CountInv, Init
<1> QED
  BY <1>3, <1>6 DEF LabelInv

LEMMA LabelStep == RegInv /\ LabelInv /\ [Next]_vars => LabelInv'
<1> SUFFICES ASSUME RegInv, LabelInv, [Next]_vars PROVE LabelInv'
  OBVIOUS
<1>1. PICK k \in Nat : CountInv(k)
  BY DEF LabelInv
<1>2. CASE UNCHANGED vars
  <2>1. UNCHANGED <<rows, calls, call>>
    BY <1>2 DEF vars, db
  <2>2. CountInv(k)'
    BY <1>1, <2>1 DEF CountInv, N, Creators, Creating, LabelOK, KeyStored
  <2> QED
    BY <2>2 DEF LabelInv
<1>3. ASSUME NEW c \in Callers, (\E r \in Requests : Begin(c, r)) \/ Command(c) \/ Fails(c) PROVE LabelInv'
  <2>1. CountInv(k)'
    BY <1>1, <1>3, CountBegin, CountReads, CountCreate, CountWrites DEF Command, Write
  <2> QED
    BY <2>1 DEF LabelInv
<1> QED
  BY <1>2, <1>3 DEF Next

\* An unpinned create that gives up has met its own key, or has lost MaxAttempts + 1
\* labels, each to another command.
LostToOthers ==
    \A c \in Callers : Running(c, "exhausted") => KeyStored(call[c].req.key) \/ calls >= MaxAttempts + 2

\* CreateVersion's insert loop never gives up for less than its attempts: whenever an
\* unpinned create runs out of them without its key being stored, at least MaxAttempts + 1
\* other commands (100 + 1 in the code) have begun.
THEOREM GivesUpOnlyToOthers == Spec => []LostToOthers
<1>1. RegInv /\ LabelInv => LostToOthers
  <2> SUFFICES ASSUME RegInv, LabelInv, NEW c \in Callers, call[c].pc = "exhausted", ~KeyStored(call[c].req.key)
               PROVE  calls >= MaxAttempts + 2
    BY DEF LostToOthers, Running
  <2>1. PICK k \in Nat : CountInv(k)
    BY DEF LabelInv
  <2>2. Busy(call[c]) /\ call[c].req.op = "create"
    BY Runs DEF RegInv, Busy
  <2>3. Creating(call[c]) /\ c \in Creators
    BY <2>2 DEF Creating, Creators
  <2>4. LabelOK(call[c], k)
    BY <2>1 DEF CountInv
  <2>5. call[c].label > k + call[c].attempt /\ call[c].attempt >= MaxAttempts /\ call[c].label <= N
    BY <2>3, <2>4 DEF LabelOK
  <2>6. Cardinality(Creators) \in Nat /\ Cardinality(Creators) # 0
    BY <2>1, <2>3, FS_EmptySet, FS_CardinalityType DEF CountInv
  <2>7. N \in Nat /\ call[c].label \in Nat /\ call[c].attempt \in Nat
    BY <2>2, ProductionFinite, FS_CardinalityType DEF N, RegInv, RowsInv, Busy
  <2>8. calls \in Nat /\ N + Cardinality(Creators) <= k + calls
    BY <2>1 DEF CountInv
  <2> QED
    BY <2>5, <2>6, <2>7, <2>8, BoundsAssumption
<1> QED
  BY <1>1, RegInit, RegStep, LabelInit, LabelStep, PTL DEF Spec

\* With fewer commands than it takes to use the attempts up, an unpinned create gives up
\* only when it races with its own retry.
THEOREM AutoLabelIsFound ==
    ASSUME MaxCalls <= MaxAttempts + 1
    PROVE  Spec => []AutoLabelSucceeds
<1>1. RegInv /\ LabelInv /\ LostToOthers => AutoLabelSucceeds
  <2> SUFFICES ASSUME LabelInv, LostToOthers, NEW c \in Callers, Running(c, "exhausted")
               PROVE  KeyStored(call[c].req.key)
    BY DEF AutoLabelSucceeds, KeyStored
  <2>1. calls \in Nat /\ calls <= MaxCalls
    BY DEF LabelInv, CountInv
  <2> QED
    BY <2>1, BoundsAssumption DEF LostToOthers
<1> QED
  BY <1>1, RegInit, RegStep, LabelInit, LabelStep, GivesUpOnlyToOthers, PTL DEF Spec
=============================================================================
