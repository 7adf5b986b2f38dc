---------------------------- MODULE HelperProofs ----------------------------
(***************************************************************************)
(* Proofs about HelperScopes, for any subsystems and observers and however *)
(* many scopes, bindings and failures.                                     *)
(***************************************************************************)
EXTENDS HelperScopes, TLAPS

USE HelperAssumption

(* A listed record's scope is open; what a record has added is the context it
   has, and a record with a context is listed. *)
RecordsInv ==
  \A b \in DOMAIN record :
    /\ Listed(b) => record[b].scope \in Open
    /\ record[b].added => record[b].context # None
    /\ record[b].context # None => Listed(b)

TypeInv == TypeOK /\ RecordsInv

(* Handles are a listed record's, on the way down and after the stop as well,
   which leaves no native one; a callback that failed is no longer in the Lua
   tables. *)
HandlesInv ==
  /\ Running => targets = Open
  /\ ~Running => subscribed = {}
  /\ \A h \in subscribed \cup callbacks :
       h[1] \in RecordsOf(Open) /\ h[2] \in record[h[1]].phases
  /\ \A h \in callbacks : h[2] = "Triggered" => ~record[h[1]].failed
  /\ calling # Idle => calling.handle[2] = "Triggered"

(* No context has two holders, and a private context on a subsystem is some
   record's; a dead subsystem has none, and a scope that holds its subsystem
   weakly had native lifetimes to do it with. *)
ContextsInv ==
  /\ \A b \in InUse : record[b].context \notin pool
  /\ \A b, d \in InUse : record[b].context = record[d].context => b = d
  /\ \A a \in applied : a[1] \in alive
  /\ session = "running" =>
       \A s \in DOMAIN scope : scope[s].weak => lifetimes \in {"ready", "faulted"}
  /\ (session = "running" /\ lifetimes # "faulted") =>
       \A a \in applied : \E b \in InUse : Application(b) = a /\ record[b].added

-----------------------------------------------------------------------------
(* Sequences of scopes and of records. *)

Phase == {"Triggered"} \cup Observers
Scopes == [subsystem : Subsystems, weak : BOOLEAN, debug : BOOLEAN, closed : BOOLEAN]
Records(n, k) ==
  [scope : 1..n, where : {"bindings", "orphans", "dropped"}, context : 0..k,
   added : BOOLEAN, phases : SUBSET Phase, failed : BOOLEAN]

LEMMA Shapes ==
  ASSUME TypeOK
  PROVE  /\ scope \in Seq(Scopes) /\ Len(scope) \in Nat /\ DOMAIN scope = 1..Len(scope)
         /\ record \in Seq(Records(Len(scope), rooted))
         /\ Len(record) \in Nat /\ DOMAIN record = 1..Len(record)
         /\ \A s \in DOMAIN scope : scope[s] \in Scopes
         /\ \A b \in DOMAIN record : record[b] \in Records(Len(scope), rooted)
<1>1. scope \in Seq(Scopes) /\ Len(scope) \in Nat /\ DOMAIN scope = 1..Len(scope)
  BY DEF TypeOK, Scopes
<1>2. record \in Seq(Records(Len(scope), rooted))
  BY <1>1 DEF TypeOK, Records, Phase
<1>3. QED
  BY <1>1, <1>2

LEMMA SeqOf ==
  ASSUME NEW S, NEW n \in Nat, NEW q \in [1..n -> S]
  PROVE  q \in Seq(S) /\ Len(q) = n /\ DOMAIN q = 1..n
  OBVIOUS

LEMMA Widened ==
  ASSUME NEW n \in Nat, NEW k \in Nat, NEW i \in Nat, NEW j \in Nat, n <= i, k <= j,
         NEW q \in Seq(Records(n, k))
  PROVE  q \in Seq(Records(i, j))
<1>1. Records(n, k) \subseteq Records(i, j)
  <2>1. 1..n \subseteq 1..i /\ 0..k \subseteq 0..j
    OBVIOUS
  <2>2. QED
    BY <2>1, Zenon DEF Records
<1>2. QED
  BY <1>1

LEMMA Appended ==
  ASSUME NEW S, NEW q \in Seq(S), NEW e \in S
  PROVE  /\ Append(q, e) \in Seq(S) /\ Len(Append(q, e)) = Len(q) + 1
         /\ DOMAIN Append(q, e) = DOMAIN q \cup {Len(q) + 1}
         /\ Append(q, e)[Len(q) + 1] = e
         /\ \A i \in DOMAIN q : Append(q, e)[i] = q[i]
         /\ Len(q) + 1 \notin DOMAIN q
  OBVIOUS

-----------------------------------------------------------------------------
(* What is left of records whose removal was tried. *)

(* Everything about them but the phases. *)
Stripped(rec, R, stuck) ==
  /\ rec \in Seq(Records(Len(scope), rooted)) /\ Len(rec) = Len(record)
  /\ DOMAIN rec = DOMAIN record
  /\ \A b \in DOMAIN record :
       /\ rec[b].scope = record[b].scope
       /\ rec[b].failed => record[b].failed
       /\ b \notin R => /\ rec[b].where = record[b].where
                        /\ rec[b].context = record[b].context
                        /\ rec[b].added = record[b].added
       /\ b \in R =>
            /\ rec[b].where = IF Gone(b, stuck) THEN "dropped" ELSE record[b].where
            /\ rec[b].context = IF b \in stuck THEN record[b].context ELSE None
            /\ rec[b].added = (record[b].added /\ b \in stuck)

LEMMA RemovedOne ==
  ASSUME TypeOK, NEW b \in DOMAIN record, NEW stuck
  PROVE  /\ RemovedRecord(b, stuck) \in Records(Len(scope), rooted)
         /\ RemovedRecord(b, stuck).scope = record[b].scope
         /\ RemovedRecord(b, stuck).failed => record[b].failed
         /\ RemovedRecord(b, stuck).where =
              IF Gone(b, stuck) THEN "dropped" ELSE record[b].where
         /\ RemovedRecord(b, stuck).context = IF b \in stuck THEN record[b].context ELSE None
         /\ RemovedRecord(b, stuck).added = (record[b].added /\ b \in stuck)
         /\ RemovedRecord(b, stuck).phases = KeptPhases(b)
<1>1. record[b] \in Records(Len(scope), rooted)
  BY Shapes
<1>2. rooted \in Nat
  BY DEF TypeOK
<1>3. KeptPhases(b) \subseteq Phase
  BY <1>1 DEF KeptPhases, Records
<1> DEFINE r == RemovedRecord(b, stuck)
           s == record[b].scope
           w == IF Gone(b, stuck) THEN "dropped" ELSE record[b].where
           c == IF b \in stuck THEN record[b].context ELSE None
           a == record[b].added /\ b \in stuck
           p == KeptPhases(b)
           f == IF Gone(b, stuck) THEN FALSE ELSE record[b].failed
<1>4. r = [scope |-> s, where |-> w, context |-> c, added |-> a, phases |-> p, failed |-> f]
  <2>1. CASE Gone(b, stuck)
    <3>1. r = [scope |-> s, where |-> "dropped", context |-> None, added |-> FALSE,
               phases |-> {}, failed |-> FALSE]
      BY <2>1 DEF RemovedRecord, Nothing, NewRecord
    <3>2. w = "dropped" /\ c = None /\ a = FALSE /\ p = {} /\ f = FALSE
      BY <2>1 DEF Gone
    <3> HIDE DEF r, s, w, c, a, p, f
    <3>3. QED
      BY <3>1, <3>2, Zenon
  <2>2. CASE ~Gone(b, stuck)
    <3>1. r = [record[b] EXCEPT !.phases = p, !.added = @ /\ b \in stuck,
                                !.context = IF b \in stuck THEN @ ELSE None]
      BY <2>2 DEF RemovedRecord
    <3>2. record[b] = [scope |-> s, where |-> record[b].where,
                       context |-> record[b].context, added |-> record[b].added,
                       phases |-> record[b].phases, failed |-> record[b].failed]
      BY <1>1, Zenon DEF Records
    <3>3. r = [scope |-> s, where |-> record[b].where, context |-> c, added |-> a,
               phases |-> p, failed |-> record[b].failed]
      BY <3>1, <3>2, Zenon
    <3>4. w = record[b].where /\ f = record[b].failed
      BY <2>2
    <3> HIDE DEF r, s, w, c, a, p, f
    <3>5. QED
      BY <3>3, <3>4, Zenon
  <2>3. QED
    BY <2>1, <2>2
<1>5. /\ s \in 1..Len(scope) /\ w \in {"bindings", "orphans", "dropped"}
      /\ c \in 0..rooted /\ a \in BOOLEAN /\ p \in SUBSET Phase /\ f \in BOOLEAN
  <2>1. /\ record[b].scope \in 1..Len(scope) /\ record[b].context \in 0..rooted
        /\ record[b].where \in {"bindings", "orphans", "dropped"}
        /\ record[b].failed \in BOOLEAN
    BY <1>1, Zenon DEF Records
  <2>2. c \in 0..rooted
    BY <1>2, <2>1 DEF None
  <2>3. w \in {"bindings", "orphans", "dropped"} /\ a \in BOOLEAN /\ f \in BOOLEAN
    BY <2>1
  <2>4. QED
    BY <1>3, <2>1, <2>2, <2>3
<1>6. f => record[b].failed
  OBVIOUS
<1> HIDE DEF r, s, w, c, a, p, f
<1>7. /\ r.scope = s /\ r.where = w /\ r.context = c
      /\ r.added = a /\ r.phases = p /\ r.failed = f
  BY <1>4, Zenon
<1>8. r \in Records(Len(scope), rooted)
  BY <1>4, <1>5, Zenon DEF Records
<1>9. r.failed => record[b].failed
  BY <1>6, <1>7
<1>10. QED
  BY <1>7, <1>8, <1>9, Zenon DEF r, s, w, c, a, p

LEMMA RemovedAll ==
  ASSUME TypeOK, NEW R, NEW stuck
  PROVE  /\ Stripped(RemovedRecords(R, stuck), R, stuck)
         /\ \A b \in DOMAIN record :
              /\ b \in R => RemovedRecords(R, stuck)[b].phases = KeptPhases(b)
              /\ b \notin R => RemovedRecords(R, stuck)[b] = record[b]
<1> DEFINE rec == RemovedRecords(R, stuck)
<1>1. rec = [b \in 1..Len(record) |->
               IF b \in R THEN RemovedRecord(b, stuck) ELSE record[b]]
  BY Shapes DEF RemovedRecords
<1>2. \A b \in 1..Len(record) :
        /\ b \in R => rec[b] = RemovedRecord(b, stuck)
        /\ b \notin R => rec[b] = record[b]
  BY <1>1
<1>3. \A b \in 1..Len(record) : rec[b] \in Records(Len(scope), rooted)
  BY <1>2, RemovedOne, Shapes
<1>4. rec \in [1..Len(record) -> Records(Len(scope), rooted)]
  BY <1>1, <1>3
<1>5. /\ rec \in Seq(Records(Len(scope), rooted)) /\ Len(rec) = Len(record)
      /\ DOMAIN rec = DOMAIN record
  BY <1>4, SeqOf, Shapes
<1> HIDE DEF rec
<1>6. \A b \in DOMAIN record : b \in R =>
        /\ rec[b].scope = record[b].scope
        /\ rec[b].failed => record[b].failed
        /\ rec[b].where = IF Gone(b, stuck) THEN "dropped" ELSE record[b].where
        /\ rec[b].context = IF b \in stuck THEN record[b].context ELSE None
        /\ rec[b].added = (record[b].added /\ b \in stuck)
        /\ rec[b].phases = KeptPhases(b)
  <2>1. TAKE b \in DOMAIN record
  <2>2. HAVE b \in R
  <2>3. rec[b] = RemovedRecord(b, stuck)
    BY <1>2, <2>2, Shapes
  <2>4. QED
    BY <2>3, RemovedOne
<1>7. \A b \in DOMAIN record : b \notin R => rec[b] = record[b]
  BY <1>2, Shapes
<1>8. Stripped(rec, R, stuck)
  BY <1>5, <1>6, <1>7, Zenon DEF Stripped
<1>9. QED
  BY <1>6, <1>7, <1>8 DEF rec
-----------------------------------------------------------------------------
(* Removals: Unbind, Close, UnbindAll and the stop. *)

(* The scopes of done are closed and nothing else changes about scopes. *)
Closes(done) ==
  /\ scope' \in Seq(Scopes) /\ Len(scope') = Len(scope) /\ DOMAIN scope' = DOMAIN scope
  /\ \A s \in DOMAIN scope :
       /\ scope'[s].subsystem = scope[s].subsystem /\ scope'[s].weak = scope[s].weak
       /\ scope'[s].closed = (scope[s].closed \/ s \in done)

LEMMA NoScopeCloses == ASSUME TypeOK, UNCHANGED scope PROVE Closes({})
<1>1. \A s \in DOMAIN scope : scope[s].closed \in BOOLEAN
  BY Shapes DEF Scopes
<1>2. QED
  BY <1>1, Shapes DEF Closes

LEMMA ScopesClose ==
  ASSUME TypeOK, NEW S, NEW m, CloseScopes(S, m)
  PROVE  Closes(Closable(S, m))
<1> DEFINE done == Closable(S, m)
<1>1. scope' = [s \in 1..Len(scope) |->
                  IF s \in done THEN [scope[s] EXCEPT !.closed = TRUE] ELSE scope[s]]
  BY Shapes DEF CloseScopes
<1> HIDE DEF done
<1>2. \A s \in 1..Len(scope) :
        /\ scope'[s] \in Scopes
        /\ scope'[s].subsystem = scope[s].subsystem /\ scope'[s].weak = scope[s].weak
        /\ scope'[s].closed = (scope[s].closed \/ s \in done)
  <2>1. TAKE s \in 1..Len(scope)
  <2>2. /\ scope[s] \in Scopes
        /\ scope'[s] = IF s \in done THEN [scope[s] EXCEPT !.closed = TRUE] ELSE scope[s]
    BY <1>1, Shapes
  <2>3. QED
    BY <2>2 DEF Scopes
<1>3. scope' \in [1..Len(scope) -> Scopes]
  BY <1>1, <1>2
<1>4. scope' \in Seq(Scopes) /\ Len(scope') = Len(scope) /\ DOMAIN scope' = DOMAIN scope
  BY <1>3, SeqOf, Shapes
<1>5. QED
  BY <1>2, <1>4, Shapes DEF Closes, done

Removing(R, m, done) ==
  /\ R \subseteq DOMAIN record /\ m \in Mishaps(R)
  /\ RemoveContexts(R, m) /\ Stripped(record', R, m.stuck)
  /\ Closes(done)
  /\ \A s \in done : \A b \in RecordsOf({s}) : b \in R /\ Gone(b, m.stuck)
  /\ UNCHANGED <<alive, dead, rooted>>
  /\ session' = "running" => session = "running" /\ lifetimes' = lifetimes

LEMMA RemovalTypes ==
  ASSUME TypeOK, NEW R, NEW m, NEW done, Removing(R, m, done)
  PROVE  /\ scope' \in Seq(Scopes) /\ Len(scope') = Len(scope)
         /\ record' \in Seq(Records(Len(scope'), rooted')) /\ Len(record') = Len(record)
         /\ pool' \subseteq 1..rooted' /\ applied' \subseteq Subsystems \X (1..rooted')
         /\ failures' \in 0..MaxFailures
<1>1. rooted \in Nat /\ pool \subseteq 1..rooted
      /\ applied \subseteq Subsystems \X (1..rooted) /\ failures \in 0..MaxFailures
  BY DEF TypeOK
<1>2. \A b \in InUse : record[b].context \in 1..rooted
  BY <1>1, Shapes DEF InUse, Records, None
<1>3. pool' \subseteq 1..rooted /\ applied' \subseteq applied
  BY <1>1, <1>2 DEF Removing, RemoveContexts, Recycled
<1>4. failures' \in 0..MaxFailures
  BY <1>1 DEF Removing, RemoveContexts, FailIf, Fail
<1>5. /\ scope' \in Seq(Scopes) /\ Len(scope') = Len(scope) /\ rooted' = rooted
      /\ record' \in Seq(Records(Len(scope), rooted)) /\ Len(record') = Len(record)
  BY DEF Removing, Closes, Stripped
<1>6. QED
  BY <1>1, <1>3, <1>4, <1>5

LEMMA RemovalRecords ==
  ASSUME TypeInv, NEW R, NEW m, NEW done, Removing(R, m, done)
  PROVE  RecordsInv'
<1>1. DOMAIN record' = DOMAIN record /\ DOMAIN scope' = DOMAIN scope
  BY DEF Removing, Stripped, Closes
<1>2. SUFFICES ASSUME NEW b \in DOMAIN record
               PROVE  /\ Listed(b)' => record'[b].scope \in Open'
                      /\ record'[b].added => record'[b].context # None
                      /\ record'[b].context # None => Listed(b)'
  BY <1>1 DEF RecordsInv
<1>3. /\ record'[b].scope = record[b].scope /\ record[b].scope \in DOMAIN scope
      /\ b \notin R => /\ record'[b].where = record[b].where
                       /\ record'[b].context = record[b].context
                       /\ record'[b].added = record[b].added
      /\ b \in R =>
           /\ record'[b].where = IF Gone(b, m.stuck) THEN "dropped" ELSE record[b].where
           /\ record'[b].context = IF b \in m.stuck THEN record[b].context ELSE None
           /\ record'[b].added = (record[b].added /\ b \in m.stuck)
  BY Shapes DEF Removing, Stripped, TypeInv, Records
<1>4. /\ Listed(b) => record[b].scope \in Open
      /\ record[b].added => record[b].context # None
      /\ record[b].context # None => Listed(b)
  BY DEF TypeInv, RecordsInv
<1>5. ASSUME Listed(b)' PROVE record'[b].scope \in Open'
  <2>1. Listed(b) /\ ~(b \in R /\ Gone(b, m.stuck))
    BY <1>3, <1>5 DEF Listed
  <2>2. record[b].scope \notin done
    BY <2>1 DEF Removing, RecordsOf
  <2>3. QED
    BY <1>1, <1>3, <1>4, <2>1, <2>2 DEF Removing, Closes, Open
<1>6. b \in R /\ b \in m.stuck => ~Gone(b, m.stuck)
  BY DEF Gone
<1>7. QED
  BY <1>3, <1>4, <1>5, <1>6 DEF Listed

LEMMA RemovalContexts ==
  ASSUME TypeInv, ContextsInv, NEW R, NEW m, NEW done, Removing(R, m, done)
  PROVE  ContextsInv'
<1>1. /\ DOMAIN record' = DOMAIN record /\ DOMAIN scope' = DOMAIN scope /\ alive' = alive
      /\ R \subseteq DOMAIN record /\ m.stuck \subseteq R
      /\ applied' = applied \ Withdrawn(R \ m.stuck)
      /\ pool' \subseteq pool \cup { record[b].context : b \in (R \cap InUse) \ m.stuck }
  <2>1. m.stuck \subseteq R
    BY DEF Removing, Mishaps
  <2>2. applied' = applied \ Withdrawn(R \ m.stuck)
    BY DEF Removing, RemoveContexts
  <2>3. pool' \subseteq pool \cup { record[b].context : b \in (R \cap InUse) \ m.stuck }
    BY DEF Removing, RemoveContexts, Recycled
  <2>4. QED
    BY <2>1, <2>2, <2>3 DEF Removing, Stripped, Closes
<1>2. \A b \in DOMAIN record :
        /\ record'[b].scope = record[b].scope /\ record[b].scope \in DOMAIN scope
        /\ b \in R \ m.stuck => record'[b].context = None
        /\ b \notin R \ m.stuck => /\ record'[b].context = record[b].context
                                   /\ record[b].added => record'[b].added
  BY <1>1, Shapes DEF Removing, Stripped, TypeInv, Records
<1>3. \A b \in InUse' : b \in InUse /\ b \notin R \ m.stuck /\ record'[b].context = record[b].context
  BY <1>1, <1>2 DEF InUse
<1>4. \A b \in InUse' : record'[b].context \notin pool'
  BY <1>1, <1>3 DEF ContextsInv
<1>5. \A b, d \in InUse' : record'[b].context = record'[d].context => b = d
  BY <1>3 DEF ContextsInv
<1>6. \A a \in applied' : a[1] \in alive'
  BY <1>1 DEF ContextsInv
<1>7. ASSUME session' = "running"
      PROVE  \A s \in DOMAIN scope' : scope'[s].weak => lifetimes' \in {"ready", "faulted"}
  BY <1>1, <1>7 DEF Removing, Closes, ContextsInv
<1>8. ASSUME session' = "running", lifetimes' # "faulted", NEW a \in applied'
      PROVE  \E b \in InUse' : Application(b)' = a /\ record'[b].added
  <2>1. session = "running" /\ lifetimes # "faulted" /\ a \in applied
    BY <1>1, <1>8 DEF Removing
  <2>2. PICK b \in InUse : Application(b) = a /\ record[b].added
    BY <2>1 DEF ContextsInv
  <2>3. b \in DOMAIN record /\ record[b].context # None
    BY <2>2 DEF InUse
  <2>4. Held(record[b].scope)
    <3>1. scope[record[b].scope].subsystem = a[1]
      BY <2>2 DEF Application
    <3>2. a[1] \in alive
      BY <2>1 DEF ContextsInv
    <3>3. scope[record[b].scope].weak => lifetimes = "ready"
      BY <1>2, <2>1, <2>3 DEF ContextsInv
    <3>4. QED
      BY <3>1, <3>2, <3>3 DEF Held
  <2>5. b \notin R \ m.stuck
    BY <1>1, <1>8, <2>2, <2>3, <2>4 DEF Withdraws, Withdrawn
  <2>6. b \in InUse' /\ record'[b].added /\ Application(b)' = Application(b)
    BY <1>1, <1>2, <2>2, <2>3, <2>5 DEF InUse, Application, Removing, Closes
  <2>7. QED
    BY <2>2, <2>6
<1>9. QED
  BY <1>4, <1>5, <1>6, <1>7, <1>8 DEF ContextsInv
-----------------------------------------------------------------------------
(* Additions: a Bind that succeeds or fails.                               *)

LEMMA Fetching ==
  ASSUME TypeOK, ContextsInv, NEW f \in Fetched
  PROVE  /\ f.rooted \in Nat /\ f.rooted >= rooted /\ f.context \in 1..f.rooted
         /\ f.pool \subseteq pool /\ f.context \notin f.pool
         /\ \A b \in InUse : record[b].context # f.context
<1>1. rooted \in Nat /\ pool \subseteq 1..rooted
  BY DEF TypeOK
<1>2. \A b \in InUse : record[b].context \in 1..rooted /\ record[b].context \notin pool
  BY <1>1, Shapes DEF InUse, Records, None, ContextsInv
<1>3. CASE f = Fresh({})
  <2>1. f.context = rooted + 1 /\ f.pool = {} /\ f.rooted = rooted + 1
    BY <1>3 DEF Fresh
  <2>2. QED
    BY <1>1, <1>2, <2>1
<1>4. CASE pool # {}
  <2>1. PICK c \in pool : f = IF c \in dead THEN Fresh(pool \ {c})
                              ELSE [context |-> c, pool |-> pool \ {c}, rooted |-> rooted]
    BY <1>4 DEF Fetched
  <2>2. /\ f.pool = pool \ {c}
        /\ \/ f.context = rooted + 1 /\ f.rooted = rooted + 1
           \/ f.context = c /\ f.rooted = rooted
    BY <2>1 DEF Fresh
  <2>3. QED
    BY <1>1, <1>2, <2>2
<1>5. QED
  BY <1>3, <1>4 DEF Fetched

(* A new record holds the context or it does not. *)
Adding(s, f, r) ==
  /\ s \in Open /\ Held(s) /\ f \in Fetched
  /\ r \in Records(Len(scope), rooted') /\ r.scope = s
  /\ record' = Append(record, r)
  /\ UNCHANGED <<session, lifetimes, alive, scope>>
  /\ rooted' \in {rooted, f.rooted}
  /\ \/ /\ r.where = "dropped" /\ ~r.added /\ r.context = None
        /\ \/ pool' = f.pool
           \/ pool' = f.pool \cup {f.context} /\ rooted' = f.rooted
        /\ applied' \subseteq applied
     \/ /\ r.where # "dropped" /\ r.added /\ r.context = f.context
        /\ pool' = f.pool /\ rooted' = f.rooted
        /\ applied' \subseteq applied \cup {<<scope[s].subsystem, f.context>>}

LEMMA NewRecords ==
  ASSUME TypeOK, NEW s \in DOMAIN scope, NEW k \in Nat, NEW c \in 0..k, NEW phases \in SUBSET Phase,
         NEW where \in {"bindings", "orphans", "dropped"}
  PROVE  /\ NewRecord(s, c, where, phases) \in Records(Len(scope), k)
         /\ NewRecord(s, c, where, phases).scope = s
         /\ NewRecord(s, c, where, phases).where = where
         /\ NewRecord(s, c, where, phases).context = c
         /\ NewRecord(s, c, where, phases).added <=> c # None
         /\ NewRecord(s, c, where, phases).phases = phases
         /\ ~NewRecord(s, c, where, phases).failed
<1> DEFINE r == NewRecord(s, c, where, phases)
           a == c # None
<1>1. r = [scope |-> s, where |-> where, context |-> c, added |-> a, phases |-> phases,
           failed |-> FALSE]
  BY DEF NewRecord
<1>2. a \in BOOLEAN /\ s \in 1..Len(scope)
  BY Shapes
<1> HIDE DEF r, a
<1>3. r \in Records(Len(scope), k)
  BY <1>1, <1>2, Zenon DEF Records
<1>4. /\ r.scope = s /\ r.where = where /\ r.context = c
      /\ r.added = a /\ r.phases = phases /\ r.failed = FALSE
  BY <1>1, Zenon
<1>5. QED
  BY <1>3, <1>4, Zenon DEF r, a

LEMMA AdditionShape ==
  ASSUME TypeOK, ContextsInv, NEW s, NEW f, NEW r, Adding(s, f, r)
  PROVE  /\ rooted' \in Nat /\ rooted' >= rooted
         /\ record' \in Seq(Records(Len(scope), rooted')) /\ Len(record') = Len(record) + 1
         /\ DOMAIN record' = DOMAIN record \cup {Len(record) + 1}
         /\ record'[Len(record) + 1] = r
         /\ \A b \in DOMAIN record : record'[b] = record[b]
         /\ Len(record) + 1 \notin DOMAIN record
<1>1. rooted \in Nat /\ Len(scope) \in Nat
  BY Shapes DEF TypeOK
<1>2. rooted' \in Nat /\ rooted' >= rooted
  BY <1>1, Fetching DEF Adding
<1>3. record \in Seq(Records(Len(scope), rooted'))
  BY <1>1, <1>2, Shapes, Widened
<1>4. r \in Records(Len(scope), rooted') /\ record' = Append(record, r)
  BY DEF Adding
<1>5. QED
  BY <1>2, <1>3, <1>4, Appended

LEMMA AdditionTypes ==
  ASSUME TypeOK, ContextsInv, NEW s, NEW f, NEW r, Adding(s, f, r)
  PROVE  pool' \subseteq 1..rooted' /\ applied' \subseteq Subsystems \X (1..rooted')
<1>1. /\ rooted \in Nat /\ pool \subseteq 1..rooted /\ applied \subseteq Subsystems \X (1..rooted)
      /\ rooted' \in Nat /\ rooted' >= rooted
  BY AdditionShape DEF TypeOK
<1>2. f.pool \subseteq pool /\ f.context \in 1..f.rooted
  BY Fetching DEF Adding
<1>3. pool' \subseteq 1..rooted'
  <2>1. pool \subseteq 1..rooted'
    BY <1>1
  <2>2. pool' \subseteq pool \/ (pool' \subseteq pool \cup {f.context} /\ rooted' = f.rooted)
    BY <1>2 DEF Adding
  <2>3. QED
    BY <1>2, <2>1, <2>2
<1>4. scope[s].subsystem \in Subsystems
  BY Shapes DEF Adding, Open, Scopes
<1>5. applied' \subseteq applied \cup {<<scope[s].subsystem, f.context>>}
      /\ (applied' \subseteq applied \/ rooted' = f.rooted)
  BY DEF Adding
<1>6. applied \subseteq Subsystems \X (1..rooted')
  BY <1>1
<1>7. QED
  BY <1>2, <1>3, <1>4, <1>5, <1>6

LEMMA AdditionRecords ==
  ASSUME TypeInv, ContextsInv, NEW s, NEW f, NEW r, Adding(s, f, r)
  PROVE  RecordsInv'
<1> USE DEF TypeInv
<1>1. SUFFICES ASSUME NEW b \in DOMAIN record'
               PROVE  /\ Listed(b)' => record'[b].scope \in Open'
                      /\ record'[b].added => record'[b].context # None
                      /\ record'[b].context # None => Listed(b)'
  BY DEF RecordsInv
<1>2. CASE b = Len(record) + 1
  <2>1. record'[b] = r
    BY <1>2, AdditionShape
  <2>2. r.added => r.context # None
    BY Fetching DEF Adding, None
  <2>3. r.context # None => r.where # "dropped"
    BY DEF Adding
  <2>4. r.scope \in Open'
    BY DEF Adding, Open
  <2>5. QED
    BY <2>1, <2>2, <2>3, <2>4 DEF Listed
<1>3. CASE b \in DOMAIN record
  BY <1>3, AdditionShape DEF RecordsInv, Listed, Open, Adding
<1>4. QED
  BY <1>1, <1>2, <1>3, AdditionShape

LEMMA AdditionContexts ==
  ASSUME TypeInv, ContextsInv, NEW s, NEW f, NEW r, Adding(s, f, r)
  PROVE  ContextsInv'
<1> USE DEF TypeInv
<1>0. PICK n : n = Len(record) + 1
  OBVIOUS
<1>1. /\ DOMAIN record' = DOMAIN record \cup {n} /\ record'[n] = r /\ n \notin DOMAIN record
      /\ \A b \in DOMAIN record : record'[b] = record[b]
  BY <1>0, AdditionShape
<1>2. /\ f.pool \subseteq pool /\ f.context \notin f.pool
      /\ \A b \in InUse : record[b].context # f.context
  BY Fetching DEF Adding
<1>3. pool' \subseteq pool \cup {f.context}
  BY <1>2 DEF Adding
<1>4. \A b \in InUse' : b = n \/ (b \in InUse /\ record'[b] = record[b])
  BY <1>1 DEF InUse
<1>5. n \in InUse' => /\ record'[n].context = f.context /\ f.context \notin pool'
  BY <1>1, <1>2 DEF InUse, Adding
<1>6. \A b \in InUse' : record'[b].context \notin pool'
  BY <1>2, <1>3, <1>4, <1>5 DEF ContextsInv
<1>7. \A b, d \in InUse' : record'[b].context = record'[d].context => b = d
  BY <1>2, <1>4, <1>5 DEF ContextsInv
<1>8. \A a \in applied' : a[1] \in alive'
  BY DEF Adding, ContextsInv, Held
<1>9. session' = "running" =>
        \A q \in DOMAIN scope' : scope'[q].weak => lifetimes' \in {"ready", "faulted"}
  BY DEF Adding, ContextsInv
<1>10. ASSUME session' = "running", lifetimes' # "faulted", NEW a \in applied'
       PROVE  \E b \in InUse' : Application(b)' = a /\ record'[b].added
  <2>1. CASE a \in applied
    <3>1. PICK b \in InUse : Application(b) = a /\ record[b].added
      BY <1>10, <2>1 DEF ContextsInv, Adding
    <3>2. b \in InUse' /\ Application(b)' = a /\ record'[b].added
      BY <1>1, <3>1 DEF InUse, Application, Adding
    <3>3. QED
      BY <3>2
  <2>2. CASE a \notin applied
    <3>1. /\ a = <<scope[s].subsystem, f.context>>
          /\ r.added /\ r.context = f.context /\ r.scope = s
      BY <2>2 DEF Adding
    <3>2. r.context # None
      BY <3>1, Fetching DEF Adding, None
    <3>3. n \in InUse' /\ Application(n)' = a /\ record'[n].added
      BY <1>1, <3>1, <3>2 DEF InUse, Application, Adding
    <3>4. QED
      BY <3>3
  <2>3. QED
    BY <2>1, <2>2
<1>11. QED
  BY <1>6, <1>7, <1>8, <1>9, <1>10 DEF ContextsInv
-----------------------------------------------------------------------------
(* Handles under additions and removals.                                   *)

LEMMA AdditionHandles ==
  ASSUME TypeInv, ContextsInv, HandlesInv, NEW s, NEW f, NEW r, Adding(s, f, r), Running,
         NEW H, H \subseteq {Len(record) + 1} \X r.phases,
         H # {} => r.where # "dropped" /\ ~r.failed,
         subscribed' = subscribed \cup H, callbacks' = callbacks \cup H,
         UNCHANGED <<targets, calling>>
  PROVE  HandlesInv'
<1>0. PICK n : n = Len(record) + 1
  OBVIOUS
<1>1. /\ DOMAIN record' = DOMAIN record \cup {n} /\ record'[n] = r /\ n \notin DOMAIN record
      /\ \A b \in DOMAIN record : record'[b] = record[b]
  BY <1>0, AdditionShape DEF TypeInv
<1>2. Open' = Open /\ Running' /\ session' = session
  BY DEF Adding, Open, Running
<1>3. \A h \in H : h[1] = n /\ h[2] \in r.phases
  BY <1>0
<1>4. \A h \in subscribed' \cup callbacks' :
        h[1] \in RecordsOf(Open)' /\ h[2] \in record'[h[1]].phases
  <2>1. TAKE h \in subscribed' \cup callbacks'
  <2>2. CASE h \in H
    BY <1>1, <1>2, <1>3, <2>2 DEF RecordsOf, Listed, Adding
  <2>3. CASE h \in subscribed \cup callbacks
    BY <1>1, <1>2, <2>3 DEF RecordsOf, Listed, HandlesInv
  <2>4. QED
    BY <2>2, <2>3
<1>5. \A h \in callbacks' : h[2] = "Triggered" => ~record'[h[1]].failed
  <2>1. TAKE h \in callbacks'
  <2>2. CASE h \in H
    BY <1>1, <1>3, <2>2
  <2>3. CASE h \in callbacks
    <3>1. h[1] \in DOMAIN record
      BY <2>3 DEF HandlesInv, RecordsOf
    <3>2. QED
      BY <1>1, <2>3, <3>1 DEF HandlesInv
  <2>4. QED
    BY <2>2, <2>3
<1>6. QED
  BY <1>2, <1>4, <1>5 DEF HandlesInv

LEMMA RemovalHandles ==
  ASSUME TypeInv, HandlesInv, NEW R, NEW m, NEW done, Removing(R, m, done),
         done \subseteq Open,
         \A b \in DOMAIN record :
           record'[b].phases = IF b \in R THEN KeptPhases(b) ELSE record[b].phases,
         subscribed' \subseteq subscribed \ (Unbound(R) \cup HandlesOf(done)),
         callbacks' = callbacks \ (Unbound(R) \cup HandlesOf(done)),
         Running' => Running /\ targets' = targets \ done,
         ~Running' => subscribed' = {}, UNCHANGED calling
  PROVE  HandlesInv'
<1>1. DOMAIN record' = DOMAIN record /\ DOMAIN scope' = DOMAIN scope
  BY DEF Removing, Stripped, Closes
<1>2. Open' = Open \ done
  BY <1>1 DEF Removing, Closes, Open
<1>3. ASSUME NEW h \in subscribed' \cup callbacks'
      PROVE  /\ h[1] \in RecordsOf(Open)' /\ h[2] \in record'[h[1]].phases
             /\ h[2] = "Triggered" /\ h \in callbacks' => ~record'[h[1]].failed
  <2>1. PICK b : b = h[1]
    OBVIOUS
  <2>2. /\ h \in Handle /\ h \notin Unbound(R) /\ h \notin HandlesOf(done)
        /\ h \in subscribed \cup callbacks
    BY <1>3 DEF TypeInv, TypeOK
  <2>3. b \in DOMAIN record /\ Listed(b) /\ record[b].scope \in Open /\ h[2] \in record[b].phases
    BY <2>1, <2>2 DEF HandlesInv, RecordsOf
  <2>4. record[b].scope \notin done
    BY <2>1, <2>2, <2>3 DEF HandlesOf
  <2>5. h \in callbacks' => (h[2] = "Triggered" => ~record[b].failed)
    BY <2>1 DEF HandlesInv
  <2>6. record'[b].scope = record[b].scope /\ (record'[b].failed => record[b].failed)
    BY <2>3 DEF Removing, Stripped
  <2>7. record'[b].where = record[b].where /\ h[2] \in record'[b].phases
    <3>1. CASE b \notin R
      BY <2>3, <3>1 DEF Removing, Stripped
    <3>2. CASE b \in R
      <4>1. h = <<b, h[2]>> /\ h \notin subscribed
        BY <2>1, <2>2, <2>3, <3>2 DEF Unbound, Handle
      <4>2. h[2] \in KeptPhases(b)
        BY <2>1, <2>2, <2>3, <4>1 DEF KeptPhases, HandlesInv
      <4>3. ~Gone(b, m.stuck)
        BY <4>2 DEF Gone
      <4>4. QED
        BY <2>3, <3>2, <4>2, <4>3 DEF Removing, Stripped
    <3>3. QED
      BY <3>1, <3>2
  <2>8. b \in RecordsOf(Open)'
    BY <1>1, <1>2, <2>3, <2>4, <2>6, <2>7 DEF RecordsOf, Listed
  <2>9. QED
    BY <2>1, <2>5, <2>6, <2>7, <2>8
<1>4. (Running' => targets' = Open') /\ (~Running' => subscribed' = {})
  BY <1>2 DEF HandlesInv
<1>5. QED
  BY <1>3, <1>4 DEF HandlesInv

-----------------------------------------------------------------------------
(* The binding calls. *)

LEMMA BoundPhases == ASSUME NEW s PROVE Phases(s) \subseteq Phase
  BY DEF Phases, Phase

LEMMA Bound ==
  ASSUME TypeInv, ContextsInv, HandlesInv, NEW s, NEW f, NEW r, Adding(s, f, r),
         Bindable(s), NEW H, H \subseteq {Len(record) + 1} \X r.phases,
         H # {} => r.where # "dropped" /\ ~r.failed,
         subscribed' = subscribed \cup H, callbacks' = callbacks \cup H,
         FailIf(TRUE) \/ UNCHANGED failures,
         UNCHANGED <<dead, targets, calling, late>>
  PROVE  (TypeInv /\ ContextsInv /\ HandlesInv)'
<1>1. ContextsInv' /\ RecordsInv'
  BY AdditionContexts, AdditionRecords
<1>2. HandlesInv'
  BY AdditionHandles DEF Bindable, Running
<1>3. TypeOK'
  <2> USE DEF TypeInv
  <2>1. /\ rooted' \in Nat /\ rooted' >= rooted
        /\ record' \in Seq(Records(Len(scope), rooted')) /\ Len(record') = Len(record) + 1
        /\ pool' \subseteq 1..rooted' /\ applied' \subseteq Subsystems \X (1..rooted')
    BY AdditionShape, AdditionTypes
  <2>2. Len(record') <= MaxBindings /\ Len(record) + 1 \in 1..MaxBindings
    BY <2>1, Shapes DEF Bindable
  <2>3. r.phases \subseteq Phase
    BY DEF Adding, Records
  <2>4. H \subseteq Handle
    BY <2>2, <2>3 DEF Handle, Phase
  <2>5. failures' \in 0..MaxFailures
    BY DEF TypeOK, FailIf, Fail
  <2>6. dead' \subseteq 1..rooted'
    BY <2>1 DEF TypeOK
  <2>7. UNCHANGED <<session, lifetimes, alive, scope>>
    BY DEF Adding
  <2>8. record' \in Seq([scope : DOMAIN scope', where : {"bindings", "orphans", "dropped"},
                     context : 0..rooted', added : BOOLEAN,
                     phases : SUBSET ({"Triggered"} \cup Observers), failed : BOOLEAN])
    BY <2>1, <2>7, Shapes DEF Records, Phase
  <2>9. QED
    BY <2>1, <2>2, <2>4, <2>5, <2>6, <2>7, <2>8 DEF TypeOK
<1>4. QED
  BY <1>1, <1>2, <1>3 DEF TypeInv
(* Together they are inductive. *)
HelperInv == TypeInv /\ ContextsInv /\ HandlesInv

LEMMA Fetchable ==
  ASSUME HelperInv, NEW s, Bindable(s), NEW f \in Fetched
  PROVE  /\ s \in DOMAIN scope /\ s \in Open /\ Held(s) /\ session = "running"
         /\ rooted \in Nat /\ f.rooted \in Nat /\ 0 \in 0..f.rooted /\ 0 \in 0..rooted
         /\ f.context \in 0..f.rooted /\ f.context # None
<1>1. f.rooted \in Nat /\ f.context \in 1..f.rooted
  BY Fetching DEF HelperInv, TypeInv
<1>2. QED
  BY <1>1 DEF HelperInv, TypeInv, TypeOK, Bindable, Open, None

LEMMA Unlisted ==
  ASSUME HelperInv, NEW s \in Open, NEW k \in Nat
  PROVE  /\ Nothing(s) \in Records(Len(scope), k) /\ Nothing(s).scope = s
         /\ Nothing(s).where = "dropped" /\ ~Nothing(s).added /\ Nothing(s).context = None
<1>1. 0 \in 0..k /\ {} \in SUBSET Phase /\ s \in DOMAIN scope
  BY DEF Open
<1>2. QED
  BY <1>1, NewRecords DEF Nothing, HelperInv, TypeInv, None

LEMMA NothingBound ==
  ASSUME HelperInv, NEW s, NEW f, NEW r, Adding(s, f, r), Bindable(s), Fail,
         UNCHANGED <<dead, native, callbacks, calling, late>>
  PROVE  HelperInv'
<1>1. PICK H : H = {}
  OBVIOUS
<1>2. /\ H \subseteq {Len(record) + 1} \X r.phases
      /\ subscribed' = subscribed \cup H /\ callbacks' = callbacks \cup H
      /\ FailIf(TRUE)
  BY <1>1 DEF native, FailIf
<1>3. QED
  BY <1>1, <1>2, Bound DEF native, HelperInv

LEMMA BindKeeps ==
  ASSUME HelperInv, BindSucceeds \/ BindAbandons \/ BindUndone \/ BindNotAdded
  PROVE  HelperInv'
<1> USE DEF HelperInv
<1>1. CASE BindSucceeds
  <2>1. PICK s \in Open, f \in Fetched :
          /\ Bindable(s)
          /\ LET handles == { <<Len(record) + 1, p>> : p \in Phases(s) }
             IN subscribed' = subscribed \cup handles /\ callbacks' = callbacks \cup handles
          /\ record' = Append(record, NewRecord(s, f.context, "bindings", Phases(s)))
          /\ pool' = f.pool /\ rooted' = f.rooted
          /\ applied' = applied \cup {<<scope[s].subsystem, f.context>>}
          /\ UNCHANGED <<session, lifetimes, alive, dead, scope, targets, calling, failures, late>>
    BY <1>1 DEF BindSucceeds
  <2> DEFINE r == NewRecord(s, f.context, "bindings", Phases(s))
             H == { <<Len(record) + 1, p>> : p \in Phases(s) }
  <2>2. /\ r \in Records(Len(scope), f.rooted) /\ r.scope = s /\ r.where = "bindings"
        /\ r.context = f.context /\ r.added /\ r.phases = Phases(s) /\ ~r.failed
    BY <2>1, Fetchable, BoundPhases, NewRecords DEF TypeInv
  <2>3. record' = Append(record, r) /\ subscribed' = subscribed \cup H
        /\ callbacks' = callbacks \cup H /\ H \subseteq {Len(record) + 1} \X Phases(s)
    BY <2>1
  <2> HIDE DEF r, H
  <2>4. Adding(s, f, r)
    BY <2>1, <2>2, <2>3, Fetchable DEF Adding
  <2>5. QED
    BY <2>1, <2>2, <2>3, <2>4, Bound
<1>2. CASE BindAbandons
  <2>1. PICK s \in Open, f \in Fetched :
          /\ Bindable(s) /\ Fail
          /\ record' = Append(record, Nothing(s))
          /\ pool' = f.pool /\ rooted' \in {rooted, f.rooted}
          /\ UNCHANGED <<session, lifetimes, engine, scope, native, callbacks, calling, late>>
    BY <1>2 DEF BindAbandons
  <2>2. rooted' \in Nat
    BY <2>1, Fetchable
  <2>3. Adding(s, f, Nothing(s))
    BY <2>1, <2>2, Fetchable, Unlisted DEF Adding, engine
  <2>4. QED
    BY <2>1, <2>3, NothingBound DEF engine, native
<1>3. CASE BindUndone
  <2>1. PICK s \in Open, f \in Fetched, spoiled \in BOOLEAN :
          /\ Bindable(s) /\ Fail
          /\ record' = Append(record, Nothing(s))
          /\ pool' = IF spoiled THEN f.pool ELSE f.pool \cup {f.context}
          /\ rooted' = f.rooted
          /\ UNCHANGED <<session, lifetimes, engine, scope, native, callbacks, calling, late>>
    BY <1>3 DEF BindUndone
  <2>2. Adding(s, f, Nothing(s))
    BY <2>1, Fetchable, Unlisted DEF Adding, engine
  <2>3. QED
    BY <2>1, <2>2, NothingBound DEF engine, native
<1>4. CASE BindNotAdded
  <2>1. PICK s \in Open, f \in Fetched, reached \in BOOLEAN, stuck \in BOOLEAN,
             spoiled \in BOOLEAN :
          /\ Bindable(s)
          /\ Fail
          /\ IF stuck
             THEN /\ record' = Append(record, NewRecord(s, f.context, "orphans", {}))
                  /\ pool' = f.pool
                  /\ applied' = IF reached
                                THEN applied \cup {<<scope[s].subsystem, f.context>>}
                                ELSE applied
             ELSE /\ record' = Append(record, Nothing(s))
                  /\ pool' = IF spoiled THEN f.pool ELSE f.pool \cup {f.context}
                  /\ applied' = applied \ {<<scope[s].subsystem, f.context>>}
          /\ rooted' = f.rooted
          /\ UNCHANGED <<session, lifetimes, alive, dead, scope, native, callbacks, calling, late>>
    BY <1>4 DEF BindNotAdded
  <2>2. CASE stuck
    <3> DEFINE r == NewRecord(s, f.context, "orphans", {})
    <3>1. /\ r \in Records(Len(scope), f.rooted) /\ r.scope = s /\ r.where = "orphans"
          /\ r.context = f.context /\ r.added
      BY <2>1, Fetchable, NewRecords DEF TypeInv
    <3>2. record' = Append(record, r) /\ pool' = f.pool
          /\ applied' \subseteq applied \cup {<<scope[s].subsystem, f.context>>}
      BY <2>1, <2>2
    <3> HIDE DEF r
    <3>3. Adding(s, f, r)
      BY <2>1, <3>1, <3>2, Fetchable DEF Adding
    <3>4. QED
      BY <2>1, <3>3, NothingBound DEF native
  <2>3. CASE ~stuck
    <3>1. Adding(s, f, Nothing(s))
      BY <2>1, <2>3, Fetchable, Unlisted DEF Adding
    <3>2. QED
      BY <2>1, <3>1, NothingBound DEF native
  <2>4. QED
    BY <2>2, <2>3
<1>5. QED
  BY <1>1, <1>2, <1>3, <1>4

-----------------------------------------------------------------------------
(* The cleanups. *)

(* A cleanup leaves well-typed state once its handles and targets are. *)
LEMMA Cleaned ==
  ASSUME HelperInv, NEW R, NEW m, NEW done, Removing(R, m, done), HandlesInv',
         session' \in {"running", "closed"}, lifetimes' = lifetimes,
         subscribed' \subseteq subscribed, callbacks' \subseteq callbacks,
         targets' \subseteq targets, calling' \in {calling, Idle}, late' = late
  PROVE  HelperInv'
<1> USE DEF HelperInv, TypeInv
<1>1. ContextsInv' /\ RecordsInv'
  BY RemovalContexts, RemovalRecords
<1>2. /\ scope' \in Seq(Scopes) /\ Len(scope') = Len(scope)
      /\ record' \in Seq(Records(Len(scope'), rooted')) /\ Len(record') = Len(record)
      /\ pool' \subseteq 1..rooted' /\ applied' \subseteq Subsystems \X (1..rooted')
      /\ failures' \in 0..MaxFailures
  BY RemovalTypes
<1>3. record' \in Seq([scope : DOMAIN scope', where : {"bindings", "orphans", "dropped"},
                     context : 0..rooted', added : BOOLEAN,
                     phases : SUBSET ({"Triggered"} \cup Observers), failed : BOOLEAN])
      /\ DOMAIN scope' = DOMAIN scope
  <2>1. DOMAIN scope' = 1..Len(scope') /\ DOMAIN scope = 1..Len(scope)
    BY <1>2, Shapes
  <2>2. QED
    BY <1>2, <2>1 DEF Records, Phase
<1>4. UNCHANGED <<alive, dead, rooted>>
  BY DEF Removing
<1>5. TypeOK'
  BY <1>2, <1>3, <1>4 DEF TypeOK, Scopes
<1>6. QED
  BY <1>1, <1>5

LEMMA CleanupKeeps ==
  ASSUME HelperInv, Unbind \/ Close \/ UnbindAll \/ StopCloses
  PROVE  HelperInv'
<1> USE DEF HelperInv, TypeInv
<1>1. CASE Unbind
  <2>1. PICK b \in RecordsOf(Open) : \E m \in Mishaps({b}) :
          /\ session = "running" /\ record[b].where = "bindings"
          /\ record' = RemovedRecords({b}, m.stuck)
          /\ RemoveContexts({b}, m)
          /\ subscribed' = subscribed \ Unbound({b})
          /\ callbacks' = callbacks \ Unbound({b})
          /\ UNCHANGED <<session, lifetimes, alive, dead, scope, rooted, targets, calling, late>>
    BY <1>1 DEF Unbind
  <2>2. PICK m \in Mishaps({b}) :
          /\ session = "running" /\ record[b].where = "bindings"
          /\ record' = RemovedRecords({b}, m.stuck)
          /\ RemoveContexts({b}, m)
          /\ subscribed' = subscribed \ Unbound({b})
          /\ callbacks' = callbacks \ Unbound({b})
          /\ UNCHANGED <<session, lifetimes, alive, dead, scope, rooted, targets, calling, late>>
    BY <2>1
  <2>3. /\ Stripped(record', {b}, m.stuck)
        /\ \A d \in DOMAIN record :
             record'[d].phases = IF d \in {b} THEN KeptPhases(d) ELSE record[d].phases
    BY <2>2, RemovedAll
  <2>4. Removing({b}, m, {})
    BY <2>2, <2>3, NoScopeCloses DEF Removing, RecordsOf
  <2>5. HandlesOf({}) = {}
    BY DEF HandlesOf
  <2>6. HandlesInv'
    BY <2>2, <2>3, <2>4, <2>5, RemovalHandles DEF Running
  <2>7. QED
    BY <2>2, <2>4, <2>6, Cleaned
<1>2. CASE Close
  <2>1. PICK s \in Open : \E m \in Mishaps(RecordsOf({s})) :
          /\ session = "running"
          /\ CloseScopes({s}, m)
          /\ record' = RemovedRecords(RecordsOf({s}), m.stuck)
          /\ targets' = targets \ Closable({s}, m)
          /\ subscribed' = subscribed \ (Unbound(RecordsOf({s})) \cup HandlesOf(Closable({s}, m)))
          /\ callbacks' = callbacks \ (Unbound(RecordsOf({s})) \cup HandlesOf(Closable({s}, m)))
          /\ UNCHANGED <<session, lifetimes, alive, dead, rooted, calling, late>>
    BY <1>2 DEF Close
  <2>2. PICK m \in Mishaps(RecordsOf({s})) :
          /\ session = "running"
          /\ CloseScopes({s}, m)
          /\ record' = RemovedRecords(RecordsOf({s}), m.stuck)
          /\ targets' = targets \ Closable({s}, m)
          /\ subscribed' = subscribed \ (Unbound(RecordsOf({s})) \cup HandlesOf(Closable({s}, m)))
          /\ callbacks' = callbacks \ (Unbound(RecordsOf({s})) \cup HandlesOf(Closable({s}, m)))
          /\ UNCHANGED <<session, lifetimes, alive, dead, rooted, calling, late>>
    BY <2>1
  <2> DEFINE R == RecordsOf({s})
             done == Closable({s}, m)
  <2>3. /\ Stripped(record', R, m.stuck)
        /\ \A d \in DOMAIN record :
             record'[d].phases = IF d \in R THEN KeptPhases(d) ELSE record[d].phases
    BY <2>2, RemovedAll
  <2>4. Closes(done) /\ RemoveContexts(R, m) /\ R \subseteq DOMAIN record
    BY <2>2, ScopesClose DEF CloseScopes, RecordsOf
  <2>5. done \subseteq {s} /\ \A q \in done : \A b \in RecordsOf({q}) : b \in R /\ Gone(b, m.stuck)
    BY DEF Closable
  <2>6. Removing(R, m, done)
    BY <2>2, <2>3, <2>4, <2>5 DEF Removing
  <2>7. HandlesInv'
    <3>1. done \subseteq Open
      BY <2>5
    <3>2. /\ subscribed' \subseteq subscribed \ (Unbound(R) \cup HandlesOf(done))
          /\ callbacks' = callbacks \ (Unbound(R) \cup HandlesOf(done))
          /\ targets' = targets \ done /\ Running /\ Running' /\ UNCHANGED calling
      BY <2>2 DEF Running
    <3> HIDE DEF R, done
    <3>3. QED
      BY <2>3, <2>6, <3>1, <3>2, RemovalHandles
  <2>8. QED
    BY <2>2, <2>6, <2>7, Cleaned
<1>3. ASSUME NEW m \in Mishaps(RecordsOf(Open)), CloseScopes(Open, m),
             Stripped(record', RecordsOf(Open), m.stuck), UNCHANGED <<alive, dead, rooted>>,
             session' = "running" => session = "running" /\ lifetimes' = lifetimes
      PROVE  Removing(RecordsOf(Open), m, Closable(Open, m))
  <2> DEFINE R == RecordsOf(Open)
             done == Closable(Open, m)
  <2>1. Closes(done) /\ RemoveContexts(R, m) /\ R \subseteq DOMAIN record
    BY <1>3, ScopesClose DEF CloseScopes, RecordsOf
  <2>2. \A q \in done : \A b \in RecordsOf({q}) : b \in R /\ Gone(b, m.stuck)
    BY DEF Closable, RecordsOf
  <2>3. QED
    BY <1>3, <2>1, <2>2 DEF Removing
<1>4. CASE UnbindAll
  <2>1. PICK m \in Mishaps(RecordsOf(Open)) :
          LET whole == Closable(Open, m) = Open
              left == RemovedRecords(RecordsOf(Open), m.stuck)
          IN /\ session = "running"
             /\ CloseScopes(Open, m)
             /\ record' = [b \in DOMAIN record |->
                  IF ~whole /\ left[b].where # "dropped"
                  THEN [left[b] EXCEPT !.phases = {}] ELSE left[b]]
             /\ targets' = IF whole THEN {} ELSE targets \ Closable(Open, m)
             /\ subscribed' = {} /\ callbacks' = {}
             /\ UNCHANGED <<session, lifetimes, alive, dead, rooted, calling, late>>
    BY <1>4 DEF UnbindAll
  <2> DEFINE R == RecordsOf(Open)
             done == Closable(Open, m)
             left == RemovedRecords(R, m.stuck)
  <2>2. Stripped(left, R, m.stuck)
    BY RemovedAll
  <2>3. record' = [b \in DOMAIN record |->
          IF ~(done = Open) /\ left[b].where # "dropped"
          THEN [left[b] EXCEPT !.phases = {}] ELSE left[b]]
    BY <2>1
  <2> HIDE DEF left
  <2>4. \A b \in DOMAIN record :
          /\ left[b] \in Records(Len(scope), rooted)
          /\ record'[b] = left[b] \/ record'[b] = [left[b] EXCEPT !.phases = {}]
    <3>1. left \in Seq(Records(Len(scope), rooted)) /\ DOMAIN left = DOMAIN record
      BY <2>2 DEF Stripped
    <3>2. QED
      BY <2>3, <3>1
  <2>5. \A b \in DOMAIN record :
          /\ record'[b] \in Records(Len(scope), rooted)
          /\ record'[b].scope = left[b].scope /\ record'[b].where = left[b].where
          /\ record'[b].context = left[b].context /\ record'[b].added = left[b].added
          /\ record'[b].failed = left[b].failed
    <3>1. TAKE b \in DOMAIN record
    <3>2. left[b] \in Records(Len(scope), rooted)
      BY <2>4
    <3>3. CASE record'[b] = left[b]
      BY <3>2, <3>3
    <3>4. CASE record'[b] = [left[b] EXCEPT !.phases = {}]
      BY <3>2, <3>4 DEF Records
    <3>5. QED
      BY <2>4, <3>3, <3>4
  <2>6. record' \in [1..Len(record) -> Records(Len(scope), rooted)]
    BY <2>3, <2>5, Shapes
  <2>7. Stripped(record', R, m.stuck)
    <3>1. /\ record' \in Seq(Records(Len(scope), rooted)) /\ Len(record') = Len(record)
          /\ DOMAIN record' = DOMAIN record
      BY <2>6, SeqOf, Shapes
    <3>2. QED
      BY <2>2, <2>5, <3>1 DEF Stripped
  <2>8. Removing(R, m, done)
    BY <1>3, <2>1, <2>7
  <2>9. Open' = Open \ done
    BY <2>8 DEF Removing, Closes, Open
  <2>10. targets = Open /\ targets' = Open'
    BY <2>1, <2>9 DEF HandlesInv, Running
  <2>11. HandlesInv'
    BY <2>1, <2>10 DEF HandlesInv, Running
  <2>12. QED
    BY <2>1, <2>8, <2>9, <2>10, <2>11, Cleaned
<1>5. CASE StopCloses
  <2>1. PICK m \in Mishaps(RecordsOf(Open)) :
          /\ session = "stopping"
          /\ CloseScopes(Open, m)
          /\ record' = RemovedRecords(RecordsOf(Open), m.stuck)
          /\ session' = "closed"
          /\ targets' = {} /\ subscribed' = {}
          /\ callbacks' =
               callbacks \ (Unbound(RecordsOf(Open)) \cup HandlesOf(Closable(Open, m)))
          /\ UNCHANGED <<lifetimes, alive, dead, rooted, calling, late>>
    BY <1>5 DEF StopCloses
  <2> DEFINE R == RecordsOf(Open)
             done == Closable(Open, m)
  <2>2. /\ Stripped(record', R, m.stuck)
        /\ \A d \in DOMAIN record :
             record'[d].phases = IF d \in R THEN KeptPhases(d) ELSE record[d].phases
    BY <2>1, RemovedAll
  <2>3. Removing(R, m, done)
    BY <1>3, <2>1, <2>2
  <2>4. HandlesInv'
    <3>1. done \subseteq Open
      BY DEF Closable
    <3>2. /\ subscribed' \subseteq subscribed \ (Unbound(R) \cup HandlesOf(done))
          /\ callbacks' = callbacks \ (Unbound(R) \cup HandlesOf(done))
          /\ ~Running' /\ subscribed' = {} /\ UNCHANGED calling
      BY <2>1 DEF Running
    <3> HIDE DEF R, done
    <3>3. QED
      BY <2>2, <2>3, <3>1, <3>2, RemovalHandles
  <2>5. QED
    BY <2>1, <2>3, <2>4, Cleaned
<1>6. QED
  BY <1>1, <1>2, <1>4, <1>5
-----------------------------------------------------------------------------
(* The other steps.                                                        *)

LEMMA OpenInputKeeps == ASSUME HelperInv, OpenInput PROVE HelperInv'
<1> USE DEF HelperInv, TypeInv
<1>1. PICK u \in alive, debug \in BOOLEAN, weak \in BOOLEAN :
        /\ weak => lifetimes = "ready"
        /\ FailIf(lifetimes = "ready" /\ ~weak)
        /\ scope' = Append(scope, [subsystem |-> u, weak |-> weak, debug |-> debug,
                                   closed |-> FALSE])
  BY DEF OpenInput
<1> DEFINE e == [subsystem |-> u, weak |-> weak, debug |-> debug, closed |-> FALSE]
<1>2. /\ session = "running" /\ Len(scope) < MaxScopes /\ targets' = targets \cup {Len(scope) + 1}
      /\ UNCHANGED <<session, lifetimes, engine, record, pool, rooted, subscribed, callbacks,
                     calling, late>>
  BY DEF OpenInput
<1>3. PICK n : n = Len(scope) + 1
  OBVIOUS
<1>4. e \in Scopes /\ e.subsystem = u /\ e.weak = weak /\ e.closed = FALSE
  <2>1. u \in Subsystems
    BY DEF TypeOK
  <2>2. QED
    BY <2>1, Zenon DEF Scopes
<1>5. scope' = Append(scope, e)
  BY <1>1
<1> HIDE DEF e
<1>6. /\ scope' \in Seq(Scopes) /\ Len(scope') = Len(scope) + 1
      /\ DOMAIN scope' = DOMAIN scope \cup {n} /\ n \notin DOMAIN scope /\ scope'[n] = e
      /\ \A s \in DOMAIN scope : scope'[s] = scope[s]
  BY <1>3, <1>4, <1>5, Shapes, Appended
<1>7. Open' = Open \cup {n}
  BY <1>4, <1>6 DEF Open
<1>8. \A b \in DOMAIN record : record[b].scope \in DOMAIN scope
  BY Shapes DEF Records
<1>9. RecordsInv'
  BY <1>2, <1>7 DEF RecordsInv, Listed
<1>10. HandlesInv'
  BY <1>2, <1>3, <1>7 DEF HandlesInv, Running, RecordsOf, Listed
<1>11. ContextsInv'
  <2>1. InUse' = InUse /\ UNCHANGED <<applied, alive, pool, record, session, lifetimes>>
    BY <1>2 DEF InUse, engine
  <2>2. \A b \in InUse : Application(b)' = Application(b)
    BY <1>6, <1>8, <2>1 DEF InUse, Application
  <2>3. \A s \in DOMAIN scope' : scope'[s].weak => lifetimes \in {"ready", "faulted"}
    BY <1>1, <1>2, <1>4, <1>6 DEF ContextsInv
  <2>4. (session = "running" /\ lifetimes # "faulted") =>
           \A a \in applied : \E b \in InUse : Application(b)' = a /\ record[b].added
    BY <2>2 DEF ContextsInv
  <2>5. QED
    BY <2>1, <2>3, <2>4 DEF ContextsInv
<1>12. TypeOK'
  <2>1. Len(scope') <= MaxScopes /\ targets' \subseteq DOMAIN scope'
    BY <1>2, <1>3, <1>6, Shapes DEF TypeOK
  <2>2. failures' \in 0..MaxFailures
    BY <1>1 DEF TypeOK, FailIf, Fail
  <2>3. record \in Seq(Records(Len(scope'), rooted))
    <3>1. /\ Len(scope) \in Nat /\ Len(scope') \in Nat /\ Len(scope) <= Len(scope')
          /\ rooted \in Nat /\ rooted <= rooted
      BY <1>6, Shapes DEF TypeOK
    <3>2. record \in Seq(Records(Len(scope), rooted))
      BY Shapes
    <3>3. QED
      BY <3>1, <3>2, Widened
  <2>4. record' \in Seq([scope : DOMAIN scope', where : {"bindings", "orphans", "dropped"},
                     context : 0..rooted', added : BOOLEAN,
                     phases : SUBSET ({"Triggered"} \cup Observers), failed : BOOLEAN])
    <3>1. scope' \in Seq(Scopes)
      BY <1>6
    <3>2. DOMAIN scope' = 1..Len(scope')
      BY <3>1
    <3>3. QED
      BY <1>2, <2>3, <3>2 DEF Records, Phase
  <2>5. QED
    BY <1>2, <1>6, <2>1, <2>2, <2>4 DEF TypeOK, Scopes, engine
<1>13. QED
  BY <1>9, <1>10, <1>11, <1>12

LEMMA RefreshKeeps == ASSUME HelperInv, Refresh PROVE HelperInv'
<1> USE DEF HelperInv, TypeInv
<1>1. PICK s \in Open :
        /\ session = "running" /\ Held(s)
        /\ \E thrown \in SUBSET { b \in RecordsOf({s}) : record[b].where = "bindings" /\ record[b].added } :
             /\ applied' = applied \cup { Application(b) :
                  b \in { b \in RecordsOf({s}) : record[b].where = "bindings" /\ record[b].added } \ thrown }
             /\ FailIf(thrown # {})
        /\ UNCHANGED <<session, lifetimes, alive, dead, owned, native, callbacks, calling, late>>
  BY DEF Refresh
<1>2. applied \subseteq applied' /\ failures' \in 0..MaxFailures
  BY <1>1 DEF TypeOK, FailIf, Fail
<1>3. \A a \in applied' \ applied :
        \E b \in InUse : a = Application(b) /\ record[b].added /\ record[b].scope = s
  BY <1>1 DEF RecordsOf, RecordsInv, InUse
<1>4. /\ UNCHANGED <<session, lifetimes, alive, dead, scope, record, pool, rooted, targets,
                     subscribed, callbacks, calling, late>>
  BY <1>1 DEF owned, native
<1>5. \A a \in applied' \ applied : a \in Subsystems \X (1..rooted) /\ a[1] \in alive
  <2>1. TAKE a \in applied' \ applied
  <2>2. PICK b \in InUse : a = Application(b) /\ record[b].scope = s
    BY <1>3
  <2>3. record[b].context \in 1..rooted
    <3>1. b \in DOMAIN record /\ record[b].context # 0
      BY <2>2 DEF InUse, None
    <3>2. record[b] \in Records(Len(scope), rooted) /\ rooted \in Nat
      BY <3>1, Shapes DEF TypeOK
    <3>3. record[b].context \in 0..rooted
      BY <3>2, Zenon DEF Records
    <3>4. QED
      BY <3>1, <3>2, <3>3
  <2>4. scope[s].subsystem \in alive /\ alive \subseteq Subsystems
    BY <1>1 DEF Held, TypeOK
  <2>5. QED
    BY <2>2, <2>3, <2>4 DEF Application
<1>6. TypeOK'
  BY <1>2, <1>4, <1>5 DEF TypeOK
<1>7. RecordsInv' /\ HandlesInv'
  BY <1>4 DEF RecordsInv, HandlesInv, Listed, Open, Running, RecordsOf
<1>8. ContextsInv'
  <2>1. InUse' = InUse /\ \A b \in InUse : Application(b)' = Application(b)
    BY <1>4 DEF InUse, Application
  <2>2. \A a \in applied' : a[1] \in alive'
    BY <1>4, <1>5 DEF ContextsInv
  <2>3. (session' = "running" /\ lifetimes' # "faulted") =>
           \A a \in applied' : \E b \in InUse : Application(b)' = a /\ record'[b].added
    BY <1>3, <1>4, <2>1 DEF ContextsInv
  <2>4. QED
    BY <1>4, <2>1, <2>2, <2>3 DEF ContextsInv
<1>9. QED
  BY <1>6, <1>7, <1>8

LEMMA StopKeeps == ASSUME HelperInv, StopBegins \/ StopAbandons PROVE HelperInv'
<1> USE DEF HelperInv, TypeInv
<1>1. /\ UNCHANGED <<alive, dead, applied, scope, record, pool, rooted, failures, late>>
      /\ session' # "running" /\ session' \in {"running", "stopping", "closed", "abandoned"}
      /\ lifetimes' \in {"ready", "absent", "faulted", "stopped"}
  BY DEF StopBegins, StopAbandons, engine, owned, TypeOK
<1>2. targets' \subseteq targets /\ subscribed' \subseteq subscribed /\ callbacks' \subseteq callbacks
      /\ calling' \in {calling, Idle}
  BY DEF StopBegins, StopAbandons, native
<1>3. TypeOK' /\ RecordsInv'
  BY <1>1, <1>2 DEF TypeOK, RecordsInv, Listed, Open
<1>4. ContextsInv'
  BY <1>1 DEF ContextsInv, InUse
<1>5. HandlesInv'
  <2>1. CASE StopBegins
    BY <1>1, <2>1 DEF StopBegins, native, HandlesInv, Running, RecordsOf, Open, Listed
  <2>2. CASE StopAbandons
    BY <1>1, <2>2 DEF StopAbandons, HandlesInv, Running, RecordsOf, Open, Listed
  <2>3. QED
    BY <2>1, <2>2
<1>6. QED
  BY <1>3, <1>4, <1>5

LEMMA OneFieldSet ==
  ASSUME NEW n, NEW k, NEW q \in Records(n, k), NEW r, r = [q EXCEPT !.failed = TRUE]
  PROVE  /\ r \in Records(n, k) /\ r.scope = q.scope /\ r.where = q.where
         /\ r.context = q.context /\ r.added = q.added /\ r.phases = q.phases
<1>1. r \in Records(n, k)
  BY Zenon DEF Records
<1>2. r.scope = q.scope /\ r.where = q.where /\ r.context = q.context /\ r.phases = q.phases
  BY DEF Records
<1>3. r.added = q.added
  BY Zenon DEF Records
<1>4. QED
  BY <1>1, <1>2, <1>3

(* No callback is heard that should be over. *)
LEMMA HeardInTime ==
  ASSUME HelperInv, NEW h \in Handle, Dispatched(h), Hears(h)
  PROVE  ~Over(h) /\ h \in callbacks /\ h[1] \in DOMAIN record /\ late' = late
<1>1. calling # Idle /\ calling.handle = h
  BY DEF Dispatched, Idle
<1>2. h[2] = "Triggered" /\ h \in callbacks
  BY <1>1 DEF HelperInv, HandlesInv, Hears
<1>3. h[1] \in RecordsOf(Open) /\ h[2] \in record[h[1]].phases /\ ~record[h[1]].failed
  BY <1>2 DEF HelperInv, HandlesInv
<1>4. ~Over(h)
  BY <1>3 DEF Over
<1>5. QED
  BY <1>2, <1>3, <1>4 DEF Hears, RecordsOf, HelperInv, TypeInv, TypeOK

LEMMA DeliverKeeps == ASSUME HelperInv, Deliver PROVE HelperInv' /\ late' = late
<1> USE DEF HelperInv, TypeInv
<1>1. CASE CheckEvent
  <2>1. PICK h \in subscribed : h[2] = "Triggered" /\ calling' = [at |-> "checked", handle |-> h]
    BY <1>1 DEF CheckEvent
  <2>2. UNCHANGED <<session, lifetimes, alive, dead, applied, scope, record, pool, rooted, targets,
                    subscribed, callbacks, failures, late>>
    BY <1>1 DEF CheckEvent, engine, owned, native
  <2>3. calling' \in [at : {"checked", "failed"}, handle : Handle] /\ calling'.handle[2] = "Triggered"
    BY <2>1 DEF TypeOK
  <2>4. TypeOK'
    BY <2>2, <2>3 DEF TypeOK
  <2>5. (RecordsInv /\ HandlesInv)'
    BY <2>2, <2>3 DEF RecordsInv, HandlesInv, Running, RecordsOf, Open, Listed
  <2>6. ContextsInv'
    BY <2>2 DEF ContextsInv, InUse, Application
  <2>7. QED
    BY <2>2, <2>4, <2>5, <2>6
<1>2. CASE Dispatch
  <2>1. /\ calling' = Idle /\ late' = late
        /\ UNCHANGED <<session, lifetimes, alive, dead, applied, scope, record, pool, rooted,
                       targets, subscribed, callbacks, failures>>
    BY <1>2, HeardInTime DEF Dispatch, engine, owned, native
  <2>2. TypeOK'
    BY <2>1 DEF TypeOK
  <2>3. (RecordsInv /\ HandlesInv)'
    BY <2>1 DEF RecordsInv, HandlesInv, Running, RecordsOf, Open, Listed
  <2>4. ContextsInv'
    BY <2>1 DEF ContextsInv, InUse, Application
  <2>5. QED
    BY <2>1, <2>2, <2>3, <2>4
<1>3. CASE CallbackFails
  <2>1. PICK h \in Handle :
          /\ Dispatched(h) /\ Hears(h)
          /\ record' = [record EXCEPT ![h[1]].failed = TRUE]
          /\ callbacks' = callbacks \ {h}
          /\ calling' = [at |-> "failed", handle |-> h]
    BY <1>3 DEF CallbackFails
  <2>2. UNCHANGED <<session, lifetimes, alive, dead, applied, scope, pool, rooted, targets,
                    subscribed, failures>>
    BY <1>3 DEF CallbackFails, engine, native
  <2>3. late' = late /\ h[1] \in DOMAIN record /\ h[2] = "Triggered"
    BY <2>1, HeardInTime DEF HandlesInv, Dispatched, Idle
  <2>4. /\ record' \in Seq(Records(Len(scope), rooted)) /\ Len(record') = Len(record)
        /\ DOMAIN record' = DOMAIN record
        /\ \A b \in DOMAIN record :
             /\ record'[b].scope = record[b].scope /\ record'[b].where = record[b].where
             /\ record'[b].context = record[b].context /\ record'[b].added = record[b].added
             /\ record'[b].phases = record[b].phases
             /\ b # h[1] => record'[b].failed = record[b].failed
    <3>1. \A b \in DOMAIN record :
            record'[b] = IF b = h[1] THEN [record[b] EXCEPT !.failed = TRUE] ELSE record[b]
      BY <2>1, <2>3, Shapes
    <3>2. ASSUME NEW b \in DOMAIN record
          PROVE  /\ record'[b] \in Records(Len(scope), rooted)
                 /\ record'[b].scope = record[b].scope /\ record'[b].where = record[b].where
                 /\ record'[b].context = record[b].context
                 /\ record'[b].added = record[b].added
                 /\ record'[b].phases = record[b].phases
                 /\ b # h[1] => record'[b].failed = record[b].failed
      <4>1. record[b] \in Records(Len(scope), rooted)
        BY Shapes
      <4>2. CASE b = h[1]
        <5>1. record'[b] = [record[b] EXCEPT !.failed = TRUE]
          BY <3>1, <4>2
        <5>2. PICK r : r = record'[b]
          OBVIOUS
        <5>3. /\ r \in Records(Len(scope), rooted)
              /\ r.scope = record[b].scope /\ r.where = record[b].where
              /\ r.context = record[b].context /\ r.added = record[b].added
              /\ r.phases = record[b].phases
          BY <4>1, <5>1, <5>2, OneFieldSet
        <5>4. QED
          BY <4>2, <5>2, <5>3
      <4>3. CASE b # h[1]
        BY <3>1, <4>1, <4>3
      <4>4. QED
        BY <4>2, <4>3
    <3>3. DOMAIN record' = 1..Len(record) /\ record' = [b \in 1..Len(record) |-> record'[b]]
      BY <2>1, Shapes
    <3>4. record' \in [1..Len(record) -> Records(Len(scope), rooted)]
      BY <3>2, <3>3, Shapes
    <3>5. QED
      BY <3>2, <3>4, SeqOf, Shapes
  <2>5. calling' \in [at : {"checked", "failed"}, handle : Handle] /\ calling'.handle[2] = "Triggered"
    BY <2>1, <2>3
  <2>6. TypeOK'
    <3>1. record' \in Seq([scope : DOMAIN scope', where : {"bindings", "orphans", "dropped"},
                     context : 0..rooted', added : BOOLEAN,
                     phases : SUBSET ({"Triggered"} \cup Observers), failed : BOOLEAN])
      BY <2>2, <2>4, Shapes DEF Records, Phase
    <3>2. QED
      BY <2>1, <2>2, <2>3, <2>4, <2>5, <3>1 DEF TypeOK
  <2>7. RecordsInv' /\ Open' = Open
    BY <2>2, <2>4 DEF RecordsInv, Open, Listed
  <2>8. \A g \in callbacks' : g[2] = "Triggered" => ~record'[g[1]].failed
    <3>1. TAKE g \in callbacks'
    <3>2. HAVE g[2] = "Triggered"
    <3>3. g \in callbacks /\ g # h /\ g \in Handle /\ g[1] \in DOMAIN record
      BY <2>1 DEF HandlesInv, RecordsOf, TypeOK
    <3>4. g[1] # h[1]
      BY <2>3, <3>2, <3>3 DEF Handle
    <3>5. QED
      BY <2>4, <3>2, <3>3, <3>4 DEF HandlesInv
  <2>9. HandlesInv'
    <3>1. RecordsOf(Open)' = RecordsOf(Open)
      BY <2>4, <2>7 DEF RecordsOf, Listed
    <3>2. \A g \in subscribed' \cup callbacks' :
            g[1] \in RecordsOf(Open)' /\ g[2] \in record'[g[1]].phases
      BY <2>1, <2>2, <2>4, <3>1 DEF HandlesInv, RecordsOf
    <3>3. Running' = Running /\ callbacks' \subseteq callbacks
      BY <2>1, <2>2 DEF Running
    <3>4. QED
      BY <2>2, <2>5, <2>7, <2>8, <3>2, <3>3 DEF HandlesInv
  <2>10. ContextsInv'
    <3>1. InUse' = InUse
      BY <2>4 DEF InUse
    <3>2. \A b \in InUse : /\ Application(b)' = Application(b)
                           /\ record'[b].context = record[b].context
                           /\ record'[b].added = record[b].added
      BY <2>2, <2>4 DEF InUse, Application
    <3>3. QED
      BY <2>2, <3>1, <3>2 DEF ContextsInv
  <2>11. QED
    BY <2>3, <2>6, <2>7, <2>9, <2>10
<1>4. CASE Deactivate
  <2>1. /\ calling' = Idle /\ subscribed' \subseteq subscribed
        /\ UNCHANGED <<session, lifetimes, alive, dead, applied, scope, record, pool, rooted,
                       targets, callbacks, failures, late>>
    BY <1>4 DEF Deactivate, engine, owned
  <2>2. TypeOK'
    BY <2>1 DEF TypeOK
  <2>3. (RecordsInv /\ HandlesInv)'
    BY <2>1 DEF RecordsInv, HandlesInv, Running, RecordsOf, Open, Listed
  <2>4. ContextsInv'
    BY <2>1 DEF ContextsInv, InUse, Application
  <2>5. QED
    BY <2>1, <2>2, <2>3, <2>4
<1>5. QED
  BY <1>1, <1>2, <1>3, <1>4 DEF Deliver

LEMMA EngineKeeps == ASSUME HelperInv, Engine PROVE HelperInv'
<1> USE DEF HelperInv, TypeInv
<1>1. /\ UNCHANGED <<session, scope, record, pool, rooted, targets, callbacks, calling, late>>
      /\ subscribed' \subseteq subscribed /\ applied' \subseteq applied
  BY DEF Engine, QueueThrows, ClearMappings, SubsystemDies, ContextDies, LifetimesFault,
     engine, owned, native
<1>2. /\ alive' \subseteq alive /\ \A a \in applied' : a[1] \in alive'
      /\ lifetimes' = lifetimes \/ lifetimes' = "faulted"
  BY DEF Engine, QueueThrows, ClearMappings, SubsystemDies, ContextDies, LifetimesFault,
     engine, ContextsInv
<1>3. dead' \subseteq 1..rooted /\ failures' \in 0..MaxFailures
  <2>1. dead' = dead \/ \E c \in 1..rooted : dead' = dead \cup {c}
    BY DEF Engine, QueueThrows, ClearMappings, SubsystemDies, ContextDies, LifetimesFault, engine
  <2>2. Fail \/ UNCHANGED failures
    BY DEF Engine, QueueThrows, ClearMappings, SubsystemDies, ContextDies, LifetimesFault
  <2>3. dead' \subseteq 1..rooted
    BY <2>1 DEF TypeOK
  <2>4. failures' \in 0..MaxFailures
    BY <2>2 DEF TypeOK, Fail
  <2>5. QED
    BY <2>3, <2>4
<1>4. TypeOK'
  BY <1>1, <1>2, <1>3 DEF TypeOK
<1>5. (RecordsInv /\ HandlesInv)'
  BY <1>1 DEF RecordsInv, HandlesInv, Running, RecordsOf, Open, Listed
<1>6. ContextsInv'
  BY <1>1, <1>2 DEF ContextsInv, InUse, Application
<1>7. QED
  BY <1>4, <1>5, <1>6

-----------------------------------------------------------------------------
(* The theorems.                                                           *)

LEMMA NextHelperInv == ASSUME HelperInv, [Next]_vars PROVE HelperInv'
<1>1. CASE Methods
  BY <1>1, OpenInputKeeps, BindKeeps, RefreshKeeps, CleanupKeeps DEF Methods
<1>2. CASE Stop
  BY <1>2, StopKeeps, CleanupKeeps DEF Stop
<1>3. CASE Deliver
  BY <1>3, DeliverKeeps
<1>4. CASE Engine
  BY <1>4, EngineKeeps
<1>5. CASE UNCHANGED vars
  BY <1>5 DEF vars, engine, owned, native, HelperInv, TypeInv, TypeOK, RecordsInv, HandlesInv,
     ContextsInv, Listed, Open, Running, RecordsOf, InUse, Application
<1>6. QED
  BY <1>1, <1>2, <1>3, <1>4, <1>5 DEF Next

LEMMA InitHelperInv == ASSUME Init PROVE HelperInv
<1>1. TypeOK
  <2>1. /\ scope = <<>> /\ record = <<>> /\ lifetimes \in {"ready", "absent"}
        /\ Len(scope) = 0 /\ Len(record) = 0
    BY DEF Init
  <2>2. \A S : <<>> \in Seq(S)
    OBVIOUS
  <2>3. MaxScopes \in Nat /\ MaxBindings \in Nat /\ MaxFailures \in Nat
    OBVIOUS
  <2>4. Len(scope) <= MaxScopes /\ Len(record) <= MaxBindings /\ failures \in 0..MaxFailures
    BY <2>1, <2>3 DEF Init
  <2>5. calling \in {Idle} \cup [at : {"checked", "failed"}, handle : Handle]
    BY DEF Init
  <2>6. QED
    BY <2>1, <2>2, <2>4, <2>5 DEF Init, TypeOK
<1>2. RecordsInv /\ HandlesInv /\ ContextsInv
  BY DEF Init, RecordsInv, HandlesInv, ContextsInv, Open, Running, InUse, Idle
<1>3. QED
  BY <1>1, <1>2 DEF HelperInv, TypeInv

(* The types, the contexts and the handles in one inductive invariant: who  *)
(* owns a context decides what a step may do to a handle, and the reverse.  *)
THEOREM HelperInvariance == Spec => []HelperInv
  BY InitHelperInv, NextHelperInv, PTL DEF Spec

(* Every variable keeps its type. *)
THEOREM TypeCorrect == Spec => []TypeOK
<1>1. HelperInv => TypeOK
  BY DEF HelperInv, TypeInv
<1>2. QED
  BY <1>1, HelperInvariance, PTL

(* Whatever fails halfway, a context has one holder, and a running session finds
   every private context on a subsystem again in an open scope's record. *)
THEOREM ContextsStayOwned == Spec => []ContextsOwned
<1>1. HelperInv => ContextsOwned
  <2> SUFFICES ASSUME HelperInv PROVE ContextsOwned
    OBVIOUS
  <2> USE DEF HelperInv, TypeInv
  <2>1. \A b \in InUse : Listed(b) /\ record[b].context \notin pool
    BY DEF RecordsInv, ContextsInv, InUse
  <2>2. \A b, d \in InUse : record[b].context = record[d].context => b = d
    BY DEF ContextsInv
  <2>3. ASSUME session = "running", lifetimes # "faulted", NEW a \in applied
        PROVE  \E b \in InUse : /\ Application(b) = a /\ record[b].added
                                /\ record[b].scope \in Open
    <3>1. PICK b \in InUse : Application(b) = a /\ record[b].added
      BY <2>3 DEF ContextsInv
    <3>2. record[b].scope \in Open
      BY <2>1, <3>1 DEF RecordsInv, InUse
    <3>3. QED
      BY <3>1, <3>2
  <2>4. QED
    BY <2>1, <2>2, <2>3 DEF ContextsOwned
<1>2. QED
  BY <1>1, HelperInvariance, PTL

(* While the session runs its targets are those of its open scopes, and no
   handle and no callback outlives the record it belongs to. *)
THEOREM HandlesStayOwned == Spec => []HandlesOwned
<1>1. HelperInv => HandlesOwned
  BY DEF HelperInv, HandlesInv, HandlesOwned, Running
<1>2. QED
  BY <1>1, HelperInvariance, PTL

(* A callback whose record Unbind, Close, UnbindAll or a stop's cleanup removed,
   or that has failed, is not heard again, even if the event loop had already
   found its subscription active.  Of a callback that a stop only deactivates
   it says nothing. *)
THEOREM SilenceLasts == Spec => []SilencedStaysSilent
<1>1. Init => SilencedStaysSilent
  BY DEF Init, SilencedStaysSilent
<1>2. HelperInv /\ SilencedStaysSilent /\ [Next]_vars => SilencedStaysSilent'
  <2> SUFFICES ASSUME HelperInv, ~late, [Next]_vars PROVE ~late'
    BY DEF SilencedStaysSilent
  <2>1. CASE Deliver
    BY <2>1, DeliverKeeps
  <2>2. CASE Methods
    BY <2>2 DEF Methods, OpenInput, BindSucceeds, BindAbandons, BindUndone, BindNotAdded, Unbind,
       Refresh, Close, UnbindAll
  <2>3. CASE Stop \/ Engine
    BY <2>3 DEF Stop, StopBegins, StopCloses, StopAbandons, Engine, QueueThrows, ClearMappings,
       SubsystemDies, ContextDies, LifetimesFault
  <2>4. QED
    BY <2>1, <2>2, <2>3 DEF Next, vars
<1>3. QED
  BY <1>1, <1>2, HelperInvariance, PTL DEF Spec
=============================================================================
