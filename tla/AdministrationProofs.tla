------------------------- MODULE AdministrationProofs --------------------------
(***************************************************************************)
(* Theorems about the two parts of the administration, for every value of  *)
(* their constants: RuntimeSettings on the server, and AdminConsole, with  *)
(* the drawings of its Charts, in the browser.                             *)
(***************************************************************************)
EXTENDS AdminConsole, RuntimeSettings, FiniteSetTheorems, WellFoundedInduction,
        TLAPS

-----------------------------------------------------------------------------
(* RuntimeSettings: the inductive invariant *)

\* Every entry of a table or of a copy of it was committed.
Durable(e) == \A k \in Keys : e[k] # Absent => e[k] \in committed[k]

\* A value travels from the table to the cache by two roads: the copy that the
\* cleanup loop holds between its SELECT and its assignment, and the request
\* between its commit and its own.  All that is on the way was committed too,
\* the value a request found in place, and will not write again, included.
OnTheWay ==
    /\ Durable(round.rows)
    /\ \A a \in Admins :
          LET p == patch[a]
          IN  /\ p.pc = "commit" /\ p.seen # Absent =>
                    p.seen \in committed[p.key]
              /\ p.pc = "cache" => p.todo[p.key] \in committed[p.key]

SettingsInv == SettingsTypeOK /\ Durable(stored) /\ Durable(cache) /\ OnTheWay

-----------------------------------------------------------------------------
(* Payloads *)

\* A payload has some keys, each with a value.
LEMMA PayloadFacts ==
    ASSUME NEW p \in Payloads
    PROVE  /\ DOMAIN p # {}
           /\ DOMAIN p \subseteq Keys
           /\ \A k \in DOMAIN p : p[k] \in Values
<1>1. PICK S \in (SUBSET Keys) \ {{}} : p \in [S -> Values]
  BY DEF Payloads
<1>2. QED
  BY <1>1

\* What is left of a payload after one of its items is a payload, unless
\* nothing is left.
LEMMA RestIsPayload ==
    ASSUME NEW p \in Payloads, NEW k \in DOMAIN p,
           NEW rest, rest = Restrict(p, DOMAIN p \ {k}), DOMAIN rest # {}
    PROVE  rest \in Payloads
<1>1. /\ DOMAIN rest = DOMAIN p \ {k}
      /\ \A x \in DOMAIN p \ {k} : rest[x] = p[x]
  BY DEF Restrict
<1>2. DOMAIN rest \in (SUBSET Keys) \ {{}}
  BY <1>1, PayloadFacts
<1>3. rest \in [DOMAIN rest -> Values]
  BY <1>1, PayloadFacts DEF Restrict
<1>4. QED
  BY <1>2, <1>3 DEF Payloads

\* No value a client sends stands for "no row".
LEMMA ItemIsPresent ==
    ASSUME SettingsTypeOK, NEW a \in Admins, patch[a].pc \in {"commit", "cache"}
    PROVE  /\ patch[a].key \in Keys
           /\ patch[a].todo[patch[a].key] \in Values
           /\ patch[a].todo[patch[a].key] # Absent
BY PayloadFacts, ValuesAssumption DEF SettingsTypeOK

-----------------------------------------------------------------------------
(* The steps of a request *)

\* A request that begins, reads or ends leaves the table, the cache and the
\* loop alone, and takes nothing on the way that was not committed.
LEMMA SendPatchKeeps ==
    ASSUME SettingsInv, NEW a \in Admins, SendPatch(a)
    PROVE  SettingsInv'
<1>1. PICK p \in Payloads :
         patch' = [patch EXCEPT ![a] = [Idle EXCEPT !.pc = "get", !.todo = p]]
  BY DEF SendPatch
<1>2. SettingsTypeOK'
  <2> DEFINE new == [Idle EXCEPT !.pc = "get", !.todo = p]
  <2>1. /\ new \in [pc   : {"idle", "get", "commit", "cache"},
                   todo : Payloads \cup {<<>>},
                   key  : Keys, seen : Values \cup {Absent}]
        /\ new.pc = "get" /\ new.todo \in Payloads
    BY KeysAssumption DEF Idle
  <2> HIDE DEF new
  <2>2. QED
    BY <1>1, <2>1, CountAssumption
    DEF SettingsInv, SettingsTypeOK, SendPatch, new
<1>3. OnTheWay'
  BY <1>1 DEF SettingsInv, SettingsTypeOK, OnTheWay, Durable, SendPatch, Idle
<1>4. Durable(stored)' /\ Durable(cache)'
  BY DEF SettingsInv, Durable, SendPatch
<1>5. QED
  BY <1>2, <1>3, <1>4 DEF SettingsInv

LEMMA SetGetKeeps ==
    ASSUME SettingsInv, NEW a \in Admins, SetGet(a)
    PROVE  SettingsInv'
<1>1. PICK k \in DOMAIN patch[a].todo :
         patch' = [patch EXCEPT ![a].pc = "commit", ![a].key = k,
                                ![a].seen = stored[k]]
  BY DEF SetGet
<1>2. patch[a].todo \in Payloads /\ k \in Keys
  BY <1>1, PayloadFacts DEF SettingsInv, SettingsTypeOK, SetGet
<1>3. SettingsTypeOK'
  <2> DEFINE new == patch'[a]
  <2>1. patch' = [patch EXCEPT ![a] = new]
    BY <1>1 DEF SettingsInv, SettingsTypeOK
  <2>2. /\ new.pc = "commit" /\ new.key = k
        /\ new.todo = patch[a].todo /\ new.seen = stored[k]
    BY <1>1 DEF SettingsInv, SettingsTypeOK
  <2>3. new \in [pc   : {"idle", "get", "commit", "cache"},
                todo : Payloads \cup {<<>>},
                key  : Keys, seen : Values \cup {Absent}]
    <3>1. new = [patch[a] EXCEPT !.pc = "commit", !.key = k, !.seen = stored[k]]
      BY <1>1 DEF SettingsInv, SettingsTypeOK
    <3>2. /\ patch[a] \in [pc   : {"idle", "get", "commit", "cache"},
                           todo : Payloads \cup {<<>>},
                           key  : Keys, seen : Values \cup {Absent}]
          /\ stored[k] \in Values \cup {Absent}
      BY <1>2 DEF SettingsInv, SettingsTypeOK, Entries
    <3> HIDE DEF new
    <3>3. QED
      BY <1>2, <3>1, <3>2
  <2>4. ASSUME NEW b \in Admins
        PROVE  /\ patch'[b].pc # "idle" => patch'[b].todo \in Payloads
               /\ patch'[b].pc \in {"commit", "cache"} =>
                     patch'[b].key \in DOMAIN patch'[b].todo
    <3>1. CASE b = a
      BY <1>2, <2>2, <3>1
    <3>2. CASE b # a
      BY <1>1, <3>2 DEF SettingsInv, SettingsTypeOK
    <3>3. QED
      BY <3>1, <3>2
  <2> HIDE DEF new
  <2>5. QED
    BY <2>1, <2>3, <2>4 DEF SettingsInv, SettingsTypeOK, SetGet
<1>4. OnTheWay'
  BY <1>1, <1>2 DEF SettingsInv, SettingsTypeOK, OnTheWay, Durable, SetGet
<1>5. Durable(stored)' /\ Durable(cache)'
  BY DEF SettingsInv, Durable, SetGet
<1>6. QED
  BY <1>3, <1>4, <1>5 DEF SettingsInv

\* The commit is what makes a value durable.  A request that writes nothing
\* either ends, or found its own value in the table, where a commit had put it.
LEMMA SetCommitKeeps ==
    ASSUME SettingsInv, NEW a \in Admins, SetCommit(a)
    PROVE  SettingsInv'
<1> DEFINE k == patch[a].key
           v == patch[a].todo[k]
<1>1. k \in Keys /\ v \in Values /\ v # Absent
  BY ItemIsPresent DEF SettingsInv, SetCommit
<1>2. /\ stored' \in Entries /\ committed' \in [Keys -> SUBSET Values]
      /\ \A x \in Keys : committed[x] \subseteq committed'[x]
  BY <1>1 DEF SettingsInv, SettingsTypeOK, SetCommit, Entries
<1>3. SettingsTypeOK'
  BY <1>2, KeysAssumption DEF SettingsInv, SettingsTypeOK, SetCommit, Idle
<1>4. Durable(stored)'
  BY <1>1 DEF SettingsInv, SettingsTypeOK, Durable, SetCommit, Entries
<1>5. Durable(cache)' /\ Durable(round.rows)'
  BY <1>2 DEF SettingsInv, OnTheWay, Durable, SetCommit
<1>6. ASSUME ~ Collides(a) PROVE v \in committed'[k]
  <2>1. CASE Emits(a)
    BY <1>1, <1>6, <2>1 DEF SettingsInv, SettingsTypeOK, SetCommit
  <2>2. CASE ~ Emits(a)
    <3>1. v = patch[a].seen
      BY <2>2 DEF Emits
    <3>2. v \in committed[k]
      BY <1>1, <3>1 DEF SettingsInv, OnTheWay, SetCommit
    <3>3. QED
      BY <1>1, <1>2, <3>2
  <2>3. QED
    BY <2>1, <2>2
<1>7. ASSUME NEW b \in Admins
      PROVE  /\ patch'[b].pc = "commit" /\ patch'[b].seen # Absent
                => patch'[b].seen \in committed'[patch'[b].key]
             /\ patch'[b].pc = "cache"
                => patch'[b].todo[patch'[b].key] \in committed'[patch'[b].key]
  <2>1. CASE b # a
    <3>1. patch'[b] = patch[b] /\ patch[b].key \in Keys
      BY <2>1 DEF SettingsInv, SettingsTypeOK, SetCommit
    <3>2. QED
      BY <1>2, <3>1 DEF SettingsInv, OnTheWay
  <2>2. CASE b = a /\ Collides(a)
    BY <2>2 DEF SettingsInv, SettingsTypeOK, SetCommit, Idle
  <2>3. CASE b = a /\ ~ Collides(a)
    <3>1. patch'[a] = [patch[a] EXCEPT !.pc = "cache"]
      BY <2>3 DEF SettingsInv, SettingsTypeOK, SetCommit
    <3>2. /\ patch'[a].pc = "cache"
          /\ patch'[a].key = k /\ patch'[a].todo = patch[a].todo
      BY <3>1 DEF SettingsInv, SettingsTypeOK
    <3>3. QED
      BY <1>6, <2>3, <3>2
  <2>4. QED
    BY <2>1, <2>2, <2>3
<1>8. OnTheWay'
  BY <1>5, <1>7 DEF OnTheWay, Durable
<1>9. QED
  BY <1>3, <1>4, <1>5, <1>8 DEF SettingsInv

LEMMA SetCacheKeeps ==
    ASSUME SettingsInv, NEW a \in Admins, SetCache(a)
    PROVE  SettingsInv'
<1> DEFINE k    == patch[a].key
           rest == Restrict(patch[a].todo, DOMAIN patch[a].todo \ {k})
<1>1. /\ k \in Keys /\ k \in DOMAIN patch[a].todo
      /\ patch[a].todo[k] \in Values /\ patch[a].todo \in Payloads
  BY ItemIsPresent DEF SettingsInv, SettingsTypeOK, SetCache
<1>2. patch'[a] = IF DOMAIN rest = {} THEN Idle
                  ELSE [patch[a] EXCEPT !.pc = "get", !.todo = rest]
  BY DEF SettingsInv, SettingsTypeOK, SetCache
<1>3. DOMAIN rest # {} => rest \in Payloads
  BY <1>1, RestIsPayload
<1>4. patch' = [patch EXCEPT ![a] = patch'[a]]
  BY DEF SettingsInv, SettingsTypeOK, SetCache
<1>5. /\ patch'[a] \in [pc   : {"idle", "get", "commit", "cache"},
                       todo : Payloads \cup {<<>>},
                       key  : Keys, seen : Values \cup {Absent}]
      /\ patch'[a].pc # "idle" => patch'[a].todo \in Payloads
      /\ patch'[a].pc \notin {"commit", "cache"}
  <2>1. CASE DOMAIN rest = {}
    BY <1>2, <2>1, KeysAssumption DEF Idle
  <2>2. CASE DOMAIN rest # {}
    <3> HIDE DEF rest
    <3>1. QED
      BY <1>2, <1>3, <2>2 DEF SettingsInv, SettingsTypeOK
  <2>3. QED
    BY <2>1, <2>2
<1>6. SettingsTypeOK'
  BY <1>1, <1>4, <1>5 DEF SettingsInv, SettingsTypeOK, SetCache, Entries
<1>7. Durable(stored)' /\ Durable(cache)'
  BY <1>1 DEF SettingsInv, SettingsTypeOK, Durable, OnTheWay, SetCache, Entries
<1>8. OnTheWay'
  BY <1>4, <1>5 DEF SettingsInv, SettingsTypeOK, Durable, OnTheWay, SetCache
<1>9. QED
  BY <1>6, <1>7, <1>8 DEF SettingsInv

-----------------------------------------------------------------------------
(* Every other step copies a table that is durable to where it is read. *)

LEMMA RoundStepKeeps ==
    ASSUME SettingsInv, RoundStep
    PROVE  SettingsInv'
<1>1. CASE RefreshRead
  BY <1>1 DEF SettingsInv, SettingsTypeOK, Durable, OnTheWay, RefreshRead
<1>2. CASE RefreshFill
  BY <1>2 DEF SettingsInv, SettingsTypeOK, Durable, OnTheWay, RefreshFill
<1>3. CASE ExpireStep
  BY <1>3
  DEF SettingsInv, SettingsTypeOK, Durable, OnTheWay, ExpireStep, ReadTtl
<1>4. CASE OrphansStep
  BY <1>4
  DEF SettingsInv, SettingsTypeOK, Durable, OnTheWay, OrphansStep, ReadTtl
<1>5. CASE GuestsStep
  BY <1>5 DEF SettingsInv, SettingsTypeOK, Durable, OnTheWay, GuestsStep
<1>6. QED
  BY <1>1, <1>2, <1>3, <1>4, <1>5 DEF RoundStep

LEMMA RestartKeeps ==
    ASSUME SettingsInv, Restart
    PROVE  SettingsInv'
<1>1. SettingsTypeOK'
  BY KeysAssumption, CountAssumption
  DEF SettingsInv, SettingsTypeOK, Restart, Idle
<1>2. Durable(stored)' /\ Durable(cache)' /\ OnTheWay'
  BY DEF SettingsInv, Durable, OnTheWay, Restart, Idle
<1>3. QED
  BY <1>1, <1>2 DEF SettingsInv

-----------------------------------------------------------------------------
\* The service never reads a setting from its cache that is not, or was not,
\* committed to the table, however the requests, the refresh of cleanup_loop
\* and the restarts are interleaved (runtime_settings.py: set_setting commits
\* before it assigns; refresh_cache assigns what it selected).
THEOREM CacheIsSoundHolds == SettingsSpec => []CacheIsSound
<1>1. SettingsInit => SettingsInv
  BY KeysAssumption, CountAssumption
  DEF SettingsInit, SettingsInv, SettingsTypeOK, Durable, OnTheWay, Entries,
      Idle
<1>2. SettingsInv /\ [SettingsNext]_settingsVars => SettingsInv'
  <2> SUFFICES ASSUME SettingsInv, [SettingsNext]_settingsVars
               PROVE  SettingsInv'
    OBVIOUS
  <2>1. ASSUME NEW a \in Admins, SendPatch(a) \/ AdminStep(a)
        PROVE  SettingsInv'
    BY <2>1, SendPatchKeeps, SetGetKeeps, SetCommitKeeps, SetCacheKeeps
    DEF AdminStep
  <2>2. CASE RoundStep
    BY <2>2, RoundStepKeeps
  <2>3. CASE Restart
    BY <2>3, RestartKeeps
  <2>4. CASE UNCHANGED settingsVars
    BY <2>4 DEF SettingsInv, SettingsTypeOK, Durable, OnTheWay, settingsVars
  <2>5. QED
    BY <2>1, <2>2, <2>3, <2>4 DEF SettingsNext
<1>3. SettingsInv => CacheIsSound
  BY DEF SettingsInv, CacheIsSound, CacheWasStored, Durable
<1>4. QED
  BY <1>1, <1>2, <1>3, PTL DEF SettingsSpec

-----------------------------------------------------------------------------
(* Charts: numbers and induction *)

\* Every non-empty set of natural numbers has a least element.  The relation
\* that is well-founded is a set here, which the provers can instantiate.
LEMMA LeastNumber ==
    ASSUME NEW S, S \subseteq Nat, S # {}
    PROVE  \E x \in S : \A y \in S : x <= y
<1> DEFINE Less == {p \in Nat \X Nat : p[1] < p[2]}
<1>1. IsWellFoundedOn(Less, Nat)
  BY NatLessThanWellFounded DEF OpToRel
<1>2. \A x, y \in Nat : <<y, x>> \in Less <=> y < x
  OBVIOUS
<1> HIDE DEF Less
<1>3. \E x \in S : \A y \in S : ~ (<<y, x>> \in Less)
  BY <1>1, WFMin
<1>4. PICK x \in S : \A y \in S : ~ (<<y, x>> \in Less)
  BY <1>3
<1>5. \A y \in S : ~ (y < x)
  BY <1>2, <1>4
<1>6. \A y \in S : x <= y
  BY <1>5
<1>7. QED
  BY <1>6

\* Induction, for the set of the numbers that have a property.
LEMMA Induction ==
    ASSUME NEW S, 0 \in S, \A n \in Nat : n \in S => n + 1 \in S
    PROVE  \A n \in Nat : n \in S
<1> SUFFICES ASSUME Nat \ S # {} PROVE FALSE
  OBVIOUS
<1>1. \E x \in Nat \ S : \A y \in Nat \ S : x <= y
  BY LeastNumber
<1>2. PICK x \in Nat \ S : \A y \in Nat \ S : x <= y
  BY <1>1
<1>3. x - 1 \in Nat /\ x - 1 \in S
  BY <1>2
<1>4. QED
  BY <1>2, <1>3

\* A non-empty set of the first numbers has a greatest element.
LEMMA MaxFacts ==
    ASSUME NEW k \in Nat, NEW t \in SUBSET (1..k), t # {}
    PROVE  Max(t) \in t /\ \A y \in t : y <= Max(t)
<1> DEFINE D == {k - y : y \in t}
<1>1. D \subseteq Nat /\ D # {}
  <2>1. \A y \in t : k - y \in Nat
    OBVIOUS
  <2>2. QED
    BY <2>1
<1> HIDE DEF D
<1>2. \E d \in D : \A e \in D : d <= e
  BY <1>1, LeastNumber
<1>3. PICK x \in t : \A y \in t : k - x <= k - y
  BY <1>2 DEF D
<1>4. \A y \in t : x >= y
  BY <1>3
<1>5. QED
  BY <1>3, <1>4 DEF Max

-----------------------------------------------------------------------------
(* The fold over a series *)

\* The equation of the fold that Lines is, for the points of s as far as the
\* n-th: the last point is drawn last.
Folds(h, s, n) ==
    h = [t \in SUBSET (1..n) |->
            IF t = {} THEN Pen ELSE DrawPoint(s, h[t \ {Max(t)}], Max(t))]

\* The equation has a solution, point by point.
LEMMA FoldExists ==
    ASSUME NEW s, NEW n \in Nat
    PROVE  \E h : Folds(h, s, n)
<1> DEFINE S == {k \in Nat : \E h : Folds(h, s, k)}
<1>1. 0 \in S
  <2> DEFINE h == [t \in SUBSET (1..0) |-> Pen]
  <2>1. \A t \in SUBSET (1..0) : t = {}
    OBVIOUS
  <2>2. h = [t \in SUBSET (1..0) |->
                IF t = {} THEN Pen ELSE DrawPoint(s, h[t \ {Max(t)}], Max(t))]
    BY <2>1
  <2>3. Folds(h, s, 0)
    BY <2>2 DEF Folds
  <2> HIDE DEF h
  <2>4. QED
    BY <2>3
<1>2. ASSUME NEW k \in Nat, k \in S PROVE k + 1 \in S
  <2>1. PICK h : Folds(h, s, k)
    BY <1>2
  <2> DEFINE g == [t \in SUBSET (1..(k + 1)) |->
                      IF k + 1 \in t THEN DrawPoint(s, h[t \ {k + 1}], k + 1)
                      ELSE h[t]]
  <2>2. \A t \in SUBSET (1..(k + 1)) : k + 1 \notin t =>
            t \in SUBSET (1..k) /\ g[t] = h[t]
    OBVIOUS
  <2>3. ASSUME NEW t \in SUBSET (1..(k + 1))
        PROVE  g[t] = IF t = {} THEN Pen
                      ELSE DrawPoint(s, g[t \ {Max(t)}], Max(t))
    <3>1. CASE k + 1 \in t
      <4>1. k + 1 \in Nat /\ t # {}
        BY <3>1
      <4>2. Max(t) = k + 1
        <5>1. Max(t) \in t /\ \A y \in t : y <= Max(t)
          BY <4>1, MaxFacts
        <5>2. Max(t) \in 1..(k + 1) /\ k + 1 <= Max(t)
          BY <3>1, <5>1
        <5>3. QED
          BY <5>2
      <4>3. g[t \ {k + 1}] = h[t \ {k + 1}]
        BY <2>2
      <4>4. QED
        BY <3>1, <4>2, <4>3
    <3>2. CASE k + 1 \notin t
      <4>1. t \in SUBSET (1..k) /\ g[t] = h[t]
        BY <2>2, <3>2
      <4>2. h[t] = IF t = {} THEN Pen
                   ELSE DrawPoint(s, h[t \ {Max(t)}], Max(t))
        BY <2>1, <4>1 DEF Folds
      <4>3. g[t \ {Max(t)}] = h[t \ {Max(t)}]
        BY <2>2, <3>2
      <4>4. QED
        BY <4>1, <4>2, <4>3
    <3>3. QED
      BY <3>1, <3>2
  <2>4. g = [t \in SUBSET (1..(k + 1)) |-> g[t]]
    OBVIOUS
  <2> HIDE DEF g
  <2>5. Folds(g, s, k + 1)
    BY <2>3, <2>4 DEF Folds
  <2>6. QED
    BY <2>5
<1> HIDE DEF S
<1>3. \A k \in Nat : k \in S
  BY <1>1, <1>2, Induction
<1>4. QED
  BY <1>3 DEF S

\* Where the pen is, and what it has drawn, after the first n points.
Drawn(s, n) == (CHOOSE h : Folds(h, s, Len(s)))[1..n]

LEMMA LinesAreDrawn ==
    ASSUME NEW V, NEW s \in Seq(V)
    PROVE  Lines(s) = Drawn(s, Len(s)).lines
<1> DEFINE points == [i \in DOMAIN s |-> i]
<1> DEFINE fold == CHOOSE h :
              h = [t \in SUBSET DOMAIN points |->
                      IF t = {} THEN Pen
                      ELSE DrawPoint(s, h[t \ {Max(t)}], points[Max(t)])]
<1>1. Lines(s) = fold[DOMAIN points].lines
  BY DEF Lines, FoldLeft, MapThenFoldSet
<1>2. DOMAIN points = 1..Len(s) /\ Len(s) \in Nat
  OBVIOUS
<1>3. \A t \in SUBSET (1..Len(s)) : t # {} => points[Max(t)] = Max(t)
  BY <1>2, MaxFacts
<1> HIDE DEF points
<1>4. ASSUME NEW h
      PROVE  [t \in SUBSET DOMAIN points |->
                 IF t = {} THEN Pen
                 ELSE DrawPoint(s, h[t \ {Max(t)}], points[Max(t)])]
             = [t \in SUBSET (1..Len(s)) |->
                   IF t = {} THEN Pen ELSE DrawPoint(s, h[t \ {Max(t)}], Max(t))]
  BY <1>2, <1>3
<1>5. fold = CHOOSE h : Folds(h, s, Len(s))
  BY <1>4 DEF Folds
<1> HIDE DEF fold
<1>6. QED
  BY <1>1, <1>2, <1>5 DEF Drawn

LEMMA DrawnFacts ==
    ASSUME NEW V, NEW s \in Seq(V)
    PROVE  /\ Drawn(s, 0) = Pen
           /\ \A n \in 1..Len(s) :
                 Drawn(s, n) = DrawPoint(s, Drawn(s, n - 1), n)
<1> DEFINE h == CHOOSE h : Folds(h, s, Len(s))
<1>1. Folds(h, s, Len(s))
  BY FoldExists
<1> HIDE DEF h
<1>2. Len(s) \in Nat
  OBVIOUS
<1>3. \A t \in SUBSET (1..Len(s)) :
          h[t] = IF t = {} THEN Pen ELSE DrawPoint(s, h[t \ {Max(t)}], Max(t))
  BY <1>1 DEF Folds
<1>4. h[1..0] = Pen
  <2>1. 1..0 = {}
    OBVIOUS
  <2>2. QED
    BY <1>3, <2>1
<1>5. ASSUME NEW n \in 1..Len(s)
      PROVE  h[1..n] = DrawPoint(s, h[1..(n - 1)], n)
  <2>1. 1..n \in SUBSET (1..Len(s)) /\ n \in 1..n
    BY <1>2
  <2>2. Max(1..n) \in 1..n /\ \A y \in 1..n : y <= Max(1..n)
    BY <1>2, <2>1, MaxFacts
  <2>3. Max(1..n) = n
    BY <2>2
  <2>4. (1..n) \ {n} = 1..(n - 1)
    OBVIOUS
  <2>5. QED
    BY <1>3, <2>1, <2>3, <2>4
<1>6. QED
  BY <1>4, <1>5 DEF Drawn, h

\* What has been drawn after the first n points: the neighbours among them that
\* were both recorded; the pen draws when it is on the last one.
Joined(s, n) == {l \in (Sampled(s) \cap 1..n) \X (Sampled(s) \cap 1..n) :
                    l[2] = l[1] + 1}

PenOK(s, n, pen) ==
    /\ pen \in [drawing : BOOLEAN, at : Nat, lines : SUBSET (Nat \X Nat)]
    /\ pen.drawing <=> n \in Sampled(s)
    /\ pen.drawing => pen.at = n
    /\ pen.lines = Joined(s, n)

LEMMA PointIsDrawn ==
    ASSUME NEW V, NEW s \in Seq(V), NEW n \in Nat, n + 1 \in 1..Len(s),
           NEW pen, PenOK(s, n, pen)
    PROVE  PenOK(s, n + 1, DrawPoint(s, pen, n + 1))
<1> DEFINE next == DrawPoint(s, pen, n + 1)
<1>1. \A i : i \in Sampled(s) <=> i \in 1..Len(s) /\ s[i] # Null
  BY DEF Sampled
<1>2. CASE s[n + 1] = Null
  <2>1. next = [pen EXCEPT !.drawing = FALSE]
    BY <1>2 DEF DrawPoint
  <2>2. /\ next \in [drawing : BOOLEAN, at : Nat, lines : SUBSET (Nat \X Nat)]
        /\ next.drawing = FALSE /\ next.lines = pen.lines
    BY <2>1 DEF PenOK
  <2>3. n + 1 \notin Sampled(s)
    BY <1>1, <1>2
  <2>4. Sampled(s) \cap 1..(n + 1) = Sampled(s) \cap 1..n
    BY <2>3
  <2>5. Joined(s, n + 1) = Joined(s, n)
    BY <2>4 DEF Joined
  <2> HIDE DEF next
  <2>6. PenOK(s, n + 1, next)
    BY <2>2, <2>3, <2>5 DEF PenOK
  <2>7. QED
    BY <2>6 DEF next
<1>3. CASE s[n + 1] # Null
  <2> DEFINE line == IF pen.drawing THEN {<<pen.at, n + 1>>} ELSE {}
  <2>1. next = [drawing |-> TRUE, at |-> n + 1, lines |-> pen.lines \cup line]
    BY <1>3 DEF DrawPoint
  <2>2. n + 1 \in Sampled(s)
    BY <1>1, <1>3
  <2>3. line = {l \in {<<n, n + 1>>} : n \in Sampled(s)}
    BY DEF PenOK
  <2>4. line \subseteq Nat \X Nat
    BY <2>3
  <2> HIDE DEF line
  <2>5. Joined(s, n + 1) = Joined(s, n) \cup line
    <3>1. ASSUME NEW l \in Joined(s, n + 1) PROVE l \in Joined(s, n) \cup line
      <4>1. PICK i \in Sampled(s) \cap 1..(n + 1),
                 k \in Sampled(s) \cap 1..(n + 1) : l = <<i, k>> /\ k = i + 1
        BY <3>1 DEF Joined
      <4>2. CASE k = n + 1
        BY <2>3, <4>1, <4>2
      <4>3. CASE k # n + 1
        BY <4>1, <4>3 DEF Joined
      <4>4. QED
        BY <4>2, <4>3
    <3>2. ASSUME NEW l \in Joined(s, n) PROVE l \in Joined(s, n + 1)
      BY <3>2 DEF Joined
    <3>3. ASSUME NEW l \in line PROVE l \in Joined(s, n + 1)
      <4>1. l = <<n, n + 1>> /\ n \in Sampled(s)
        BY <2>3, <3>3
      <4>2. n \in 1..(n + 1) /\ n + 1 \in 1..(n + 1)
        BY <1>1, <4>1
      <4>3. QED
        BY <2>2, <4>1, <4>2 DEF Joined
    <3>4. QED
      BY <3>1, <3>2, <3>3
  <2>6. /\ next \in [drawing : BOOLEAN, at : Nat, lines : SUBSET (Nat \X Nat)]
        /\ next.drawing = TRUE /\ next.at = n + 1
        /\ next.lines = pen.lines \cup line
    <3> DEFINE all == pen.lines \cup line
    <3>1. pen.lines \in SUBSET (Nat \X Nat)
      BY DEF PenOK
    <3>2. all \in SUBSET (Nat \X Nat) /\ n + 1 \in Nat
      BY <2>4, <3>1
    <3>3. next = [drawing |-> TRUE, at |-> n + 1, lines |-> all]
      BY <2>1
    <3> HIDE DEF all, next
    <3>4. /\ next \in [drawing : BOOLEAN, at : Nat, lines : SUBSET (Nat \X Nat)]
          /\ next.drawing = TRUE /\ next.at = n + 1 /\ next.lines = all
      BY <3>2, <3>3
    <3>5. QED
      BY <3>4 DEF all
  <2> HIDE DEF next
  <2>7. PenOK(s, n + 1, next)
    BY <2>2, <2>5, <2>6 DEF PenOK
  <2>8. QED
    BY <2>7 DEF next
<1>4. QED
  BY <1>2, <1>3

\* A curve joins the neighbours that were both recorded, and no others.
LEMMA LinesJoinNeighbours ==
    ASSUME NEW V, NEW s \in Seq(V)
    PROVE  Lines(s) = {l \in Sampled(s) \X Sampled(s) : l[2] = l[1] + 1}
<1> DEFINE S == {n \in Nat : n <= Len(s) => PenOK(s, n, Drawn(s, n))}
<1>1. 0 \in S
  <2>1. Drawn(s, 0) = Pen
    BY DrawnFacts
  <2>2. 0 \notin Sampled(s) /\ Joined(s, 0) = {}
    BY DEF Joined, Sampled
  <2>3. PenOK(s, 0, Pen)
    BY <2>2 DEF PenOK, Pen
  <2>4. QED
    BY <2>1, <2>3
<1>2. ASSUME NEW n \in Nat, n \in S PROVE n + 1 \in S
  <2> SUFFICES ASSUME n + 1 <= Len(s)
               PROVE  PenOK(s, n + 1, Drawn(s, n + 1))
    OBVIOUS
  <2>1. PenOK(s, n, Drawn(s, n))
    BY <1>2
  <2>2. n + 1 \in 1..Len(s) /\ (n + 1) - 1 = n
    OBVIOUS
  <2>3. Drawn(s, n + 1) = DrawPoint(s, Drawn(s, n), n + 1)
    BY <2>2, DrawnFacts
  <2>4. PenOK(s, n + 1, DrawPoint(s, Drawn(s, n), n + 1))
    BY <2>1, <2>2, PointIsDrawn
  <2>5. QED
    BY <2>3, <2>4
<1> HIDE DEF S
<1>3. \A n \in Nat : n \in S
  BY <1>1, <1>2, Induction
<1>4. PenOK(s, Len(s), Drawn(s, Len(s)))
  BY <1>3 DEF S
<1>5. Lines(s) = Joined(s, Len(s))
  BY <1>4, LinesAreDrawn DEF PenOK
<1>6. Sampled(s) \cap 1..Len(s) = Sampled(s)
  BY DEF Sampled
<1>7. QED
  BY <1>5, <1>6 DEF Joined


-----------------------------------------------------------------------------
(* The scales of the drawings *)

\* What was recorded is a set of numbers.
LEMMA LevelsAreNumbers ==
    ASSUME NEW s \in Seq(Nat \cup {Null})
    PROVE  /\ Levels(s) \subseteq Nat
           /\ \A i \in Sampled(s) : s[i] \in Levels(s)
BY DEF Levels, Sampled

LEMMA LowestFacts ==
    ASSUME NEW s \in Seq(Nat \cup {Null}), Sampled(s) # {}
    PROVE  Lowest(s) \in Levels(s) /\ \A u \in Levels(s) : Lowest(s) <= u
<1>1. Levels(s) \subseteq Nat /\ Levels(s) # {}
  BY LevelsAreNumbers
<1>2. \E v \in Levels(s) : \A u \in Levels(s) : v <= u
  BY <1>1, LeastNumber
<1>3. QED
  BY <1>2 DEF Lowest

\* A series is finite: among its first points, one is the highest.
LEMMA HighestFacts ==
    ASSUME NEW s \in Seq(Nat \cup {Null}), Sampled(s) # {}
    PROVE  Highest(s) \in Levels(s) /\ \A u \in Levels(s) : u <= Highest(s)
<1> DEFINE first(n) == Sampled(s) \cap 1..n
           S == {n \in Nat : first(n) # {} =>
                    \E j \in first(n) : \A i \in first(n) : s[i] <= s[j]}
<1>1. \A i \in Sampled(s) : i \in 1..Len(s) /\ s[i] \in Nat
  BY DEF Sampled
<1>2. 0 \in S
  BY <1>1
<1>3. ASSUME NEW n \in Nat, n \in S PROVE n + 1 \in S
  <2>1. \A i : i \in first(n + 1) <=>
                 i \in first(n) \/ (i = n + 1 /\ i \in Sampled(s))
    BY <1>1
  <2>2. \A i \in first(n + 1) : s[i] \in Nat
    BY <1>1
  <2>3. CASE n + 1 \notin Sampled(s)
    <3>1. first(n + 1) = first(n)
      BY <2>1, <2>3
    <3>2. QED
      BY <1>3, <3>1
  <2>4. CASE n + 1 \in Sampled(s) /\ first(n) = {}
    <3>1. first(n + 1) = {n + 1}
      BY <2>1, <2>4
    <3> HIDE DEF first
    <3>2. \A i \in first(n + 1) : s[i] <= s[n + 1]
      BY <2>2, <3>1
    <3>3. QED
      BY <3>1, <3>2
  <2>5. CASE n + 1 \in Sampled(s) /\ first(n) # {}
    <3>1. PICK j \in first(n) : \A i \in first(n) : s[i] <= s[j]
      BY <1>3, <2>5
    <3>2. j \in first(n + 1) /\ n + 1 \in first(n + 1)
      BY <2>1, <2>5
    <3> HIDE DEF first
    <3>3. CASE s[n + 1] <= s[j]
      <4>1. \A i \in first(n + 1) : s[i] <= s[j]
        BY <2>1, <3>1, <3>3
      <4>2. QED
        BY <3>2, <4>1
    <3>4. CASE ~ (s[n + 1] <= s[j])
      <4>1. \A i \in first(n + 1) : s[i] <= s[n + 1]
        BY <2>1, <2>2, <3>1, <3>2, <3>4
      <4>2. QED
        BY <3>2, <4>1
    <3>5. QED
      BY <3>3, <3>4
  <2>6. QED
    BY <2>3, <2>4, <2>5
<1> HIDE DEF S
<1>4. \A n \in Nat : n \in S
  BY <1>2, <1>3, Induction
<1>5. first(Len(s)) = Sampled(s) /\ Len(s) \in Nat
  BY <1>1
<1> HIDE DEF first
<1>6. PICK j \in Sampled(s) : \A i \in Sampled(s) : s[i] <= s[j]
  BY <1>4, <1>5 DEF S
<1>7. s[j] \in Levels(s) /\ \A u \in Levels(s) : u <= s[j]
  BY <1>6 DEF Levels
<1>8. QED
  BY <1>7 DEF Highest

\* A part of a whole is drawn inside, whatever the unit.
LEMMA PartFits ==
    ASSUME NEW a \in Nat, NEW b \in Nat, a <= b, b > 0, NEW unit \in Nat
    PROVE  (a * unit) \div b \in 0..unit
<1> DEFINE q == (a * unit) \div b
<1>1. a * unit \in Nat /\ a * unit <= b * unit
  OBVIOUS
<1>2. q \in Int /\ b * q <= a * unit /\ a * unit < b * (q + 1)
  BY <1>1
<1> HIDE DEF q
<1>3. q >= 0
  BY <1>1, <1>2
<1>4. q <= unit
  BY <1>1, <1>2
<1>5. QED
  BY <1>2, <1>3, <1>4 DEF q

\* LineChart: every point lies between the lowest and the highest one.
LEMMA HeightFits ==
    ASSUME NEW s \in Seq(Nat \cup {Null}), NEW i \in Sampled(s)
    PROVE  Height(s, i) \in 0..PlotHeight
<1>1. /\ Lowest(s) \in Nat /\ Highest(s) \in Nat /\ s[i] \in Nat
      /\ Lowest(s) <= s[i] /\ s[i] <= Highest(s)
  BY LevelsAreNumbers, LowestFacts, HighestFacts
<1>2. /\ s[i] - Lowest(s) \in Nat /\ Span(s) \in Nat
      /\ s[i] - Lowest(s) <= Span(s) /\ Span(s) > 0
  BY <1>1 DEF Span
<1>3. PlotHeight \in Nat
  BY DEF PlotHeight
<1>4. QED
  BY <1>2, <1>3, PartFits DEF Height

\* BarChart: the scale is not zero, and no bar is higher.
LEMMA BarFits ==
    ASSUME NEW s \in Seq(Nat \cup {Null}), NEW i \in Sampled(s)
    PROVE  Bar(s, i) \in 0..100
<1> DEFINE t == Append(s, 1)
<1>1. /\ t \in Seq(Nat \cup {Null}) /\ Len(t) = Len(s) + 1
      /\ t[Len(s) + 1] = 1 /\ t[i] = s[i] /\ i \in 1..Len(s)
  BY DEF Sampled, Null
<1>2. i \in Sampled(t) /\ Len(s) + 1 \in Sampled(t)
  BY <1>1 DEF Sampled, Null
<1> HIDE DEF t
<1>3. /\ t[i] \in Levels(t) /\ t[Len(s) + 1] \in Levels(t)
      /\ Levels(t) \subseteq Nat
  BY <1>1, <1>2, LevelsAreNumbers
<1>4. Highest(t) \in Levels(t) /\ \A u \in Levels(t) : u <= Highest(t)
  BY <1>1, <1>2, HighestFacts
<1>5. /\ s[i] \in Nat /\ Highest(t) \in Nat
      /\ s[i] <= Highest(t) /\ Highest(t) > 0
  BY <1>1, <1>3, <1>4
<1>6. (s[i] * 100) \div Highest(t) \in 0..100
  BY <1>5, PartFits
<1>7. QED
  BY <1>6 DEF Bar, Scale, t

\* Gauge: never more than full.
LEMMA GaugeFits ==
    ASSUME NEW percent \in Int
    PROVE  Gauge(percent) \in 0..100
<1> DEFINE least == Max({0, percent})
<1>1. least = IF percent > 0 THEN percent ELSE 0
  BY DEF Max
<1>2. least \in Int /\ least >= 0
  BY <1>1
<1> HIDE DEF least
<1>3. Min({100, least}) = IF least < 100 THEN least ELSE 100
  BY <1>2 DEF Min
<1>4. QED
  BY <1>2, <1>3 DEF Gauge, least

-----------------------------------------------------------------------------
\* The drawings of the live pages are true to their data, for every series of
\* recorded numbers and of gaps, of any length (AdminWidgets.tsx: LineChart
\* lifts its pen at a null; its span, and the scale of BarChart, are never zero;
\* Gauge clamps what it is given).
THEOREM ChartsAreTrueHolds == Spec => []ChartsAreTrue
<1>1. BrokenAtGaps
  BY HistoriesAssumption, LinesJoinNeighbours DEF BrokenAtGaps
<1>2. AllFit
  <2> SUFFICES ASSUME NEW s \in Histories, NEW i \in Sampled(s)
               PROVE  /\ Height(s, i) \in 0..PlotHeight /\ Bar(s, i) \in 0..100
                      /\ Gauge(50 * s[i]) \in 0..100
    BY DEF AllFit
  <2>1. s \in Seq(Nat \cup {Null})
    BY HistoriesAssumption
  <2>2. s[i] \in Nat
    BY <2>1, LevelsAreNumbers
  <2>3. 50 * s[i] \in Int
    BY <2>2
  <2>4. QED
    BY <2>1, <2>3, HeightFits, BarFits, GaugeFits
<1>3. ChartsAreTrue
  BY <1>1, <1>2 DEF ChartsAreTrue
<1>4. QED
  BY <1>3, PTL DEF Spec

-----------------------------------------------------------------------------
(* AdminConsole: the inductive invariant *)

Pages == LivePages \cup {"users", "logs"}

Screens ==
    [page : Pages, err : BOOLEAN, snap : Nat, range : Ranges,
     hist : {"none"} \cup Ranges, busy : BOOLEAN, shown : Rows, temp : BOOLEAN,
     filter : Filters, entries : {"none"} \cup Filters]

Kinds == Reads \cup Fields \cup {"reset", "delete", "action"}
Args  ==
    {""} \cup Ranges \cup Filters \cup UNION {FieldValues[f] : f \in Fields}

\* A request asks for what its answer may put on the page or into the account;
\* no page waits for a read that is not its own.
Requests ==
    {c \in [kind : Kinds, arg : Args, st : {"sent", "ok", "no"}, at : Nat,
            row : Rows, own : BOOLEAN] :
        /\ c.own \/ c.kind \notin Reads
        /\ c.kind = "history" => c.arg \in Ranges
        /\ c.kind = "journal" => c.arg \in Filters
        /\ c.kind \in Fields => c.arg \in FieldValues[c.kind]}

\* No request holds numbers that are still to be measured, and the mounted page
\* waits for the history of no other range than its own.
Asked(cs, n, range) ==
    \A c \in cs : /\ c \in Requests /\ c.at <= n
                  /\ c.own /\ c.kind = "history" => c.arg = range

\* The actions that the mounted page has ordered: one if its buttons are
\* disabled, none if they are not.
Ordered(cs) == {c \in cs : c.own /\ c.kind = "action"}

Buttons(cs, busy) ==
    IF busy THEN \E c \in cs : Ordered(cs) = {c} ELSE Ordered(cs) = {}

ConsoleInv ==
    /\ TypeOK
    /\ ui \in Screens
    /\ stream \in [st : {"closed", "open", "down", "dead"}, wire : Nat]
    /\ Asked(calls, now, ui.range)
    /\ Buttons(calls, ui.busy)

-----------------------------------------------------------------------------
(* Rows and requests *)

LEMMA FieldFacts ==
    /\ FieldValues["status"] = {"active", "suspended"}
    /\ FieldValues["quota"] = {"default", "own"}
    /\ Rows = [there : BOOLEAN, status : {"active", "suspended"},
               quota : {"default", "own"}]
    /\ NoRow \in Rows /\ NoRow.there = FALSE
BY DEF FieldValues, Rows, NoRow

\* A row of which one field is set is a row, and of the same account.
LEMMA RowIsSet ==
    ASSUME NEW r \in Rows, NEW f \in Fields, NEW v \in FieldValues[f]
    PROVE  /\ [r EXCEPT ![f] = v] \in Rows
           /\ [r EXCEPT ![f] = v][f] = v
           /\ [r EXCEPT ![f] = v].there = r.there
<1>1. CASE f = "status"
  BY <1>1, FieldFacts
<1>2. CASE f = "quota"
  BY <1>2, FieldFacts
<1>3. QED
  BY <1>1, <1>2 DEF Fields

\* What a page sends is a request.
LEMMA AskIsRequest ==
    ASSUME NEW k \in Kinds, NEW a \in Args,
           k = "history" => a \in Ranges,
           k = "journal" => a \in Filters,
           k \in Fields => a \in FieldValues[k]
    PROVE  /\ Ask(k, a) \in Requests
           /\ Ask(k, a).kind = k /\ Ask(k, a).arg = a
           /\ Ask(k, a).at = 0 /\ Ask(k, a).own = TRUE
BY FieldFacts DEF Ask, Requests

\* The requests of the pages, one by one.
LEMMA AsksAreRequests ==
    /\ Ask("live", "") \in Requests /\ Reload \in Requests
    /\ Ask("action", "") \in Requests
    /\ Ask("reset", "") \in Requests /\ Ask("delete", "") \in Requests
    /\ \A r \in Ranges : Ask("history", r) \in Requests
    /\ \A f \in Filters : Ask("journal", f) \in Requests
    /\ \A f \in Fields : \A v \in FieldValues[f] : Ask(f, v) \in Requests
<1>1. \A k \in Reads \cup {"reset", "delete", "action"} :
          k \in Kinds /\ k \notin Fields
  BY DEF Kinds, Reads, Fields
<1>2. "" \in Args /\ Ranges \subseteq Args /\ Filters \subseteq Args
  BY DEF Args
<1>3. \A k \in {"live", "users", "action", "reset", "delete"} :
          Ask(k, "") \in Requests
  BY <1>1, <1>2, AskIsRequest DEF Reads
<1>4. \A r \in Ranges : Ask("history", r) \in Requests
  BY <1>1, <1>2, AskIsRequest DEF Reads
<1>5. \A f \in Filters : Ask("journal", f) \in Requests
  BY <1>1, <1>2, AskIsRequest DEF Reads
<1>6. ASSUME NEW f \in Fields, NEW v \in FieldValues[f]
      PROVE  Ask(f, v) \in Requests
  <2>1. f \in Kinds /\ v \in Args /\ f \notin {"history", "journal"}
    BY DEF Kinds, Args, Fields
  <2>2. QED
    BY <2>1, AskIsRequest
<1>7. QED
  BY <1>3, <1>4, <1>5, <1>6 DEF Reload

\* An order is still one when its page is gone.
LEMMA OrphanIsRequest ==
    ASSUME NEW c \in Requests, c.kind \notin Reads,
           NEW d, d = [c EXCEPT !.own = FALSE]
    PROVE  /\ d \in Requests /\ d.at = c.at
           /\ d.kind = c.kind /\ d.own = FALSE
BY DEF Requests

-----------------------------------------------------------------------------
(* Calls that come and go *)

\* A request that is neither an action nor a history of another range may be
\* replaced by others of that sort.
LEMMA CallsReplaced ==
    ASSUME NEW cs, NEW n \in Nat, NEW range, NEW busy \in BOOLEAN,
           Asked(cs, n, range), Buttons(cs, busy),
           NEW gone, ~ (gone.own /\ gone.kind = "action"),
           NEW more, Asked(more, n, range), Ordered(more) = {}
    PROVE  /\ Asked((cs \ {gone}) \cup more, n, range)
           /\ Buttons((cs \ {gone}) \cup more, busy)
<1> DEFINE new == (cs \ {gone}) \cup more
<1>1. Asked(new, n, range)
  BY DEF Asked
<1>2. Ordered(new) = Ordered(cs)
  BY DEF Ordered
<1>3. Ordered(cs) \subseteq new
  BY <1>2 DEF Ordered
<1> HIDE DEF new
<1>4. Buttons(new, busy)
  BY <1>2, <1>3 DEF Buttons
<1>5. QED
  BY <1>1, <1>4 DEF new

LEMMA CallsAdded ==
    ASSUME NEW cs, NEW n \in Nat, NEW range, NEW busy \in BOOLEAN,
           Asked(cs, n, range), Buttons(cs, busy),
           NEW c \in Requests, c.at <= n, c.kind # "action",
           c.kind = "history" => c.arg = range
    PROVE  /\ Asked(cs \cup {c}, n, range)
           /\ Buttons(cs \cup {c}, busy)
<1>1. Asked(cs \cup {c}, n, range)
  BY DEF Asked
<1>2. Ordered(cs \cup {c}) = Ordered(cs)
  BY DEF Ordered
<1>3. QED
  BY <1>1, <1>2 DEF Buttons

\* The screen with one of its fields set.
LEMMA ScreenFacts ==
    ASSUME NEW u \in Screens
    PROVE  /\ \A n \in Nat : [u EXCEPT !.snap = n] \in Screens
           /\ \A n \in Nat : [u EXCEPT !.snap = n, !.err = FALSE] \in Screens
           /\ \A r \in Ranges : /\ [u EXCEPT !.range = r] \in Screens
                                /\ [u EXCEPT !.hist = r] \in Screens
           /\ \A b \in BOOLEAN : /\ [u EXCEPT !.busy = b] \in Screens
                                 /\ [u EXCEPT !.temp = b] \in Screens
                                 /\ [u EXCEPT !.err = b] \in Screens
           /\ \A r \in Rows : [u EXCEPT !.shown = r] \in Screens
           /\ \A f \in Filters :
                 /\ [u EXCEPT !.filter = f] \in Screens
                 /\ [u EXCEPT !.entries = f, !.err = FALSE] \in Screens
BY DEF Screens

-----------------------------------------------------------------------------
(* The steps of the console *)

\* What TypeOK says of the requests follows from what they are.
LEMMA InvFollows ==
    ASSUME (now \in 1..MaxNow /\ row \in Rows)',
           ui' \in Screens, ui'.snap <= now',
           stream' \in [st : {"closed", "open", "down", "dead"}, wire : Nat],
           stream'.wire <= now',
           stream'.st = "closed" <=> ui'.page \notin LivePages,
           Asked(calls', now', ui'.range), Buttons(calls', ui'.busy)
    PROVE  ConsoleInv'
<1>1. \A c \in calls' : c.own \/ c.kind \notin Reads
  BY DEF Asked, Requests
<1>2. ui'.snap \in 0..now' /\ stream'.wire \in 0..now'
  BY DEF Screens
<1>3. TypeOK'
  BY <1>1, <1>2 DEF TypeOK, Screens, Pages
<1>4. QED
  BY <1>3 DEF ConsoleInv

\* What a page asks for when it is mounted.
LEMMA AskedAlone ==
    ASSUME NEW c, c \in Requests, c.at = 0, c.kind # "action", NEW range,
           c.kind = "history" => c.arg = range
    PROVE  Asked({c}, 0, range) /\ Ordered({c}) = {}
BY DEF Asked, Ordered

\* A page that is mounted waits for what it reads alone; the orders of the
\* former one are nobody's, and all buttons are enabled again.
LEMMA MountKeeps ==
    ASSUME ConsoleInv, NEW p \in Pages, NEW asks, Mount(p, asks),
           Asked(asks, 0, "day"), Ordered(asks) = {},
           UNCHANGED <<now, row>>
    PROVE  ConsoleInv'
<1>1. now \in Nat /\ now >= 1
  BY DEF ConsoleInv, TypeOK
<1>2. /\ ui' \in Screens
      /\ stream' \in [st : {"closed", "open", "down", "dead"}, wire : Nat]
  BY FieldFacts DEF Mount, Blank, Screens, Ranges, Filters
<1>3. \A c \in Orders : c \in Requests /\ c.at <= now /\ c.own = FALSE
  <2> SUFFICES ASSUME NEW d \in calls, d.kind \notin Reads, NEW c,
                      c = [d EXCEPT !.own = FALSE]
               PROVE  c \in Requests /\ c.at <= now /\ c.own = FALSE
    BY DEF Orders
  <2>1. d \in Requests /\ d.at <= now
    BY DEF ConsoleInv, Asked
  <2>2. c \in Requests /\ c.at = d.at /\ c.own = FALSE
    BY <2>1, OrphanIsRequest
  <2>3. QED
    BY <2>1, <2>2
<1>4. \A c \in asks : c \in Requests /\ c.at <= now
  <2>1. \A c \in asks : c \in Requests /\ c.at <= 0
    BY DEF Asked
  <2>2. \A c \in Requests : c.at \in Nat
    BY DEF Requests
  <2>3. QED
    BY <1>1, <2>1, <2>2
<1>5. Asked(calls', now', ui'.range)
  BY <1>3, <1>4 DEF Asked, Mount, Blank
<1>6. Ordered(calls') = {}
  BY <1>3 DEF Ordered, Mount
<1>7. Buttons(calls', ui'.busy)
  BY <1>6 DEF Buttons, Mount, Blank
<1>8. TypeOK'
  <2>1. /\ ui'.page = p /\ ui'.snap = 0 /\ ui'.shown = NoRow
        /\ ui'.hist = "none" /\ ui'.entries = "none"
    BY DEF Mount, Blank
  <2>2. /\ stream'.st = (IF p \in LivePages THEN "open" ELSE "closed")
        /\ stream'.wire = 0
    BY DEF Mount
  <2>3. \A c \in calls' : c.own \/ c.kind \notin Reads
    BY <1>5 DEF Asked, Requests
  <2>4. QED
    BY <1>1, <2>1, <2>2, <2>3, FieldFacts DEF ConsoleInv, TypeOK, Pages
<1>9. QED
  BY <1>2, <1>5, <1>7, <1>8 DEF ConsoleInv

LEMMA GoKeeps ==
    ASSUME ConsoleInv, Go
    PROVE  ConsoleInv'
<1> DEFINE live == Ask("live", "")
           day  == Ask("history", "day")
           logs == Ask("journal", "all")
<1>1. /\ live \in Requests /\ day \in Requests /\ logs \in Requests
      /\ Reload \in Requests
  BY AsksAreRequests DEF Ranges, Filters
<1>2. /\ live.at = 0 /\ day.at = 0 /\ logs.at = 0 /\ Reload.at = 0
      /\ live.kind = "live" /\ day.kind = "history" /\ logs.kind = "journal"
      /\ Reload.kind = "users" /\ day.arg = "day"
  BY DEF Ask, Reload
<1>3. \A p \in {"overview", "system", "users", "logs"} : p \in Pages
  BY DEF Pages, LivePages
<1>4. UNCHANGED <<now, row>>
  BY DEF Go
<1>5. CASE MountOverview
  <2>1. Mount("overview", {live})
    BY <1>5 DEF MountOverview
  <2> HIDE DEF live
  <2>2. Asked({live}, 0, "day") /\ Ordered({live}) = {}
    BY <1>1, <1>2, AskedAlone
  <2>3. QED
    BY <1>3, <1>4, <2>1, <2>2, MountKeeps
<1>6. CASE MountSystem
  <2> DEFINE asks == {live, day}
  <2>1. Mount("system", asks)
    BY <1>6 DEF MountSystem
  <2> HIDE DEF live, day
  <2>2. /\ Asked({live}, 0, "day") /\ Ordered({live}) = {}
        /\ Asked({day}, 0, "day") /\ Ordered({day}) = {}
    BY <1>1, <1>2, AskedAlone
  <2>3. Asked(asks, 0, "day") /\ Ordered(asks) = {}
    BY <2>2 DEF Asked, Ordered
  <2> HIDE DEF asks
  <2>4. QED
    BY <1>3, <1>4, <2>1, <2>3, MountKeeps
<1>7. CASE MountUsers
  <2>1. Asked({Reload}, 0, "day") /\ Ordered({Reload}) = {}
    BY <1>1, <1>2, AskedAlone
  <2>2. QED
    BY <1>3, <1>4, <1>7, <2>1, MountKeeps DEF MountUsers
<1>8. CASE MountLogs
  <2>1. Mount("logs", {logs})
    BY <1>8 DEF MountLogs
  <2> HIDE DEF logs
  <2>2. Asked({logs}, 0, "day") /\ Ordered({logs}) = {}
    BY <1>1, <1>2, AskedAlone
  <2>3. QED
    BY <1>3, <1>4, <2>1, <2>2, MountKeeps
<1>9. QED
  BY <1>5, <1>6, <1>7, <1>8 DEF Go

\* The histories of the former range are forgotten with its effect.
LEMMA ChooseRangeKeeps ==
    ASSUME ConsoleInv, NEW r \in Ranges, ChooseRange(r)
    PROVE  ConsoleInv'
<1> DEFINE c == Ask("history", r)
           rest == {d \in calls : d.kind # "history"}
<1>1. /\ c \in Requests /\ c.at = 0 /\ c.kind = "history" /\ c.arg = r
  BY AsksAreRequests DEF Ask
<1>2. now \in Nat /\ now >= 1 /\ ui \in Screens /\ ui.busy \in BOOLEAN
  BY DEF ConsoleInv, TypeOK, Screens
<1>3. /\ ui' \in Screens /\ ui'.range = r /\ ui'.busy = ui.busy
      /\ ui'.page = ui.page /\ ui'.snap = ui.snap
  <2>1. ui' = [ui EXCEPT !.range = r]
    BY DEF ChooseRange
  <2>2. QED
    BY <1>2, <2>1, ScreenFacts DEF Screens
<1>4. calls' = rest \cup {c}
  BY DEF ChooseRange
<1> HIDE DEF c
<1>5. Asked(rest, now, r)
  BY DEF ConsoleInv, Asked
<1>6. Ordered(rest) = Ordered(calls)
  BY DEF Ordered
<1>7. Buttons(rest, ui.busy)
  BY <1>6 DEF ConsoleInv, Buttons, Ordered
<1> HIDE DEF rest
<1>8. Asked(rest \cup {c}, now, r) /\ Buttons(rest \cup {c}, ui.busy)
  BY <1>1, <1>2, <1>5, <1>7, CallsAdded
<1>9. /\ (now \in 1..MaxNow /\ row \in Rows)' /\ ui'.snap <= now'
      /\ stream' \in [st : {"closed", "open", "down", "dead"}, wire : Nat]
      /\ stream'.wire <= now'
      /\ stream'.st = "closed" <=> ui'.page \notin LivePages
  BY <1>3 DEF ConsoleInv, TypeOK, ChooseRange
<1>10. Asked(calls', now', ui'.range) /\ Buttons(calls', ui'.busy)
  BY <1>3, <1>4, <1>8 DEF ChooseRange
<1>11. QED
  BY <1>3, <1>9, <1>10, InvFollows

\* A step of the page or of the server, while the stream is silent.
LEMMA StepKeeps ==
    ASSUME ConsoleInv, UNCHANGED <<now, stream>>, row' \in Rows,
           ui' \in Screens, ui'.page = ui.page, ui'.snap <= now,
           Asked(calls', now, ui'.range), Buttons(calls', ui'.busy)
    PROVE  ConsoleInv'
<1>1. /\ (now \in 1..MaxNow /\ row \in Rows)' /\ ui'.snap <= now'
      /\ stream' \in [st : {"closed", "open", "down", "dead"}, wire : Nat]
      /\ stream'.wire <= now'
      /\ stream'.st = "closed" <=> ui'.page \notin LivePages
  BY DEF ConsoleInv, TypeOK
<1>2. Asked(calls', now', ui'.range)
  OBVIOUS
<1>3. QED
  BY <1>1, <1>2, InvFollows

\* What every state has, for the steps below.
LEMMA InvFacts ==
    ASSUME ConsoleInv
    PROVE  /\ now \in Nat /\ now >= 1 /\ row \in Rows
           /\ ui \in Screens /\ ui.snap <= now /\ ui.busy \in BOOLEAN
           /\ ui.range \in Ranges
           /\ Asked(calls, now, ui.range) /\ Buttons(calls, ui.busy)
BY DEF ConsoleInv, TypeOK, Screens

LEMMA PollKeeps ==
    ASSUME ConsoleInv, Poll
    PROVE  ConsoleInv'
<1> DEFINE c == Ask("history", ui.range)
<1>1. /\ c \in Requests /\ c.at = 0 /\ c.kind = "history" /\ c.arg = ui.range
  BY InvFacts, AsksAreRequests DEF Ask
<1>2. calls' = calls \cup {c}
  BY DEF Poll
<1> HIDE DEF c
<1>3. Asked(calls \cup {c}, now, ui.range) /\ Buttons(calls \cup {c}, ui.busy)
  BY <1>1, InvFacts, CallsAdded
<1>4. QED
  BY <1>2, <1>3, InvFacts, StepKeeps DEF Poll

\* The buttons were enabled, so that the new action is the only one.
LEMMA RunActionKeeps ==
    ASSUME ConsoleInv, RunAction
    PROVE  ConsoleInv'
<1> DEFINE c == Ask("action", "")
<1>1. /\ c \in Requests /\ c.at = 0 /\ c.kind = "action" /\ c.own = TRUE
  BY AsksAreRequests DEF Ask
<1>2. calls' = calls \cup {c}
  BY DEF RunAction, Send
<1>3. ui' = [ui EXCEPT !.busy = TRUE]
  BY DEF RunAction
<1>4. /\ ui' \in Screens /\ ui'.busy = TRUE /\ ui'.page = ui.page
      /\ ui'.snap = ui.snap /\ ui'.range = ui.range
  BY <1>3, InvFacts, ScreenFacts DEF Screens
<1> HIDE DEF c
<1>5. Asked(calls \cup {c}, now, ui.range)
  BY <1>1, InvFacts DEF Asked
<1>6. Ordered(calls) = {}
  BY InvFacts DEF RunAction, Buttons
<1>7. Ordered(calls \cup {c}) = {c}
  BY <1>1, <1>6 DEF Ordered
<1>8. Buttons(calls \cup {c}, TRUE)
  BY <1>7 DEF Buttons
<1>9. QED
  BY <1>2, <1>4, <1>5, <1>8, InvFacts, StepKeeps DEF RunAction

LEMMA ClickRowKeeps ==
    ASSUME ConsoleInv, ClickRow
    PROVE  ConsoleInv'
<1>1. PICK c : /\ calls' = calls \cup {c} /\ c \in Requests /\ c.at = 0
               /\ c.kind \in Fields \cup {"reset", "delete"}
  <2> DEFINE other == CHOOSE s \in FieldValues.status : s # ui.shown.status
  <2>1. other \in FieldValues["status"]
    BY FieldFacts
  <2>2. /\ Ask("status", other) \in Requests
        /\ \A q \in FieldValues["quota"] : Ask("quota", q) \in Requests
        /\ Ask("reset", "") \in Requests /\ Ask("delete", "") \in Requests
    BY <2>1, AsksAreRequests DEF Fields
  <2> HIDE DEF other
  <2>3. \E k \in {"status", "quota", "reset", "delete"} : \E a :
            calls' = calls \cup {Ask(k, a)} /\ Ask(k, a) \in Requests
    <3>1. CASE Send(Ask("status", other))
      BY <2>2, <3>1 DEF Send
    <3>2. CASE \E q \in FieldValues["quota"] : Send(Ask("quota", q))
      BY <2>2, <3>2 DEF Send
    <3>3. CASE Send(Ask("reset", ""))
      BY <2>2, <3>3 DEF Send
    <3>4. CASE Send(Ask("delete", ""))
      BY <2>2, <3>4 DEF Send
    <3>5. QED
      BY <3>1, <3>2, <3>3, <3>4 DEF ClickRow, other
  <2>4. PICK k \in {"status", "quota", "reset", "delete"} : \E a :
            calls' = calls \cup {Ask(k, a)} /\ Ask(k, a) \in Requests
    BY <2>3
  <2>5. PICK a : calls' = calls \cup {Ask(k, a)} /\ Ask(k, a) \in Requests
    BY <2>4
  <2>6. Ask(k, a).at = 0 /\ Ask(k, a).kind = k
    BY DEF Ask
  <2>7. QED
    BY <2>5, <2>6 DEF Fields
<1>2. c.kind \notin {"action", "history"}
  BY <1>1 DEF Fields
<1>3. Asked(calls \cup {c}, now, ui.range) /\ Buttons(calls \cup {c}, ui.busy)
  BY <1>1, <1>2, InvFacts, CallsAdded
<1>4. QED
  BY <1>1, <1>3, InvFacts, StepKeeps DEF ClickRow

LEMMA ChooseFilterKeeps ==
    ASSUME ConsoleInv, NEW f \in Filters, ChooseFilter(f)
    PROVE  ConsoleInv'
<1> DEFINE c == Ask("journal", f)
<1>1. c \in Requests /\ c.at = 0 /\ c.kind = "journal"
  BY AsksAreRequests DEF Ask
<1>2. calls' = calls \cup {c} /\ ui' = [ui EXCEPT !.filter = f]
  BY DEF ChooseFilter, Send
<1>3. /\ ui' \in Screens /\ ui'.busy = ui.busy /\ ui'.page = ui.page
      /\ ui'.snap = ui.snap /\ ui'.range = ui.range
  BY <1>2, InvFacts, ScreenFacts DEF Screens
<1> HIDE DEF c
<1>4. Asked(calls \cup {c}, now, ui.range) /\ Buttons(calls \cup {c}, ui.busy)
  BY <1>1, InvFacts, CallsAdded
<1>5. QED
  BY <1>2, <1>3, <1>4, InvFacts, StepKeeps DEF ChooseFilter

LEMMA CloseTempKeeps ==
    ASSUME ConsoleInv, CloseTemp
    PROVE  ConsoleInv'
<1>1. /\ ui' \in Screens /\ ui'.busy = ui.busy /\ ui'.page = ui.page
      /\ ui'.snap = ui.snap /\ ui'.range = ui.range
  <2>1. ui' = [ui EXCEPT !.temp = FALSE]
    BY DEF CloseTemp
  <2>2. ui' \in Screens
    <3>1. \A b \in BOOLEAN : [ui EXCEPT !.temp = b] \in Screens
      BY InvFacts, ScreenFacts
    <3>2. QED
      BY <2>1, <3>1
  <2>3. QED
    BY <2>1, <2>2, InvFacts DEF Screens
<1>2. QED
  BY <1>1, InvFacts, StepKeeps DEF CloseTemp

LEMMA OtherAdminKeeps ==
    ASSUME ConsoleInv, OtherAdmin
    PROVE  ConsoleInv'
<1>1. row' \in Rows
  <2>1. PICK f \in Fields :
            \E v \in FieldValues[f] : row' = [row EXCEPT ![f] = v]
    BY DEF OtherAdmin
  <2>2. PICK v \in FieldValues[f] : row' = [row EXCEPT ![f] = v]
    BY <2>1
  <2>3. QED
    BY <2>2, InvFacts, RowIsSet
<1>2. QED
  BY <1>1, InvFacts, StepKeeps DEF OtherAdmin

-----------------------------------------------------------------------------
(* Requests served and answered *)

\* A request that is served asks for the same thing: an action is still the one
\* that the page has ordered.
LEMMA CallServed ==
    ASSUME ConsoleInv, NEW c \in calls, NEW d \in Requests, d.at <= now,
           d.kind = c.kind, d.arg = c.arg, d.own = c.own
    PROVE  LET cs == (calls \ {c}) \cup {d}
           IN  Asked(cs, now, ui.range) /\ Buttons(cs, ui.busy)
<1> DEFINE cs == (calls \ {c}) \cup {d}
<1>1. Asked(cs, now, ui.range)
  BY InvFacts DEF Asked
<1>2. CASE ~ (c.own /\ c.kind = "action")
  <2>1. Asked({d}, now, ui.range) /\ Ordered({d}) = {}
    BY <1>1, <1>2 DEF Asked, Ordered
  <2>2. QED
    BY <1>2, <2>1, InvFacts, CallsReplaced
<1>3. CASE c.own /\ c.kind = "action"
  <2>1. c \in Ordered(calls) /\ ui.busy
    BY <1>3, InvFacts DEF Ordered, Buttons
  <2>2. Ordered(calls) = {c}
    BY <2>1, InvFacts DEF Buttons
  <2>3. Ordered(cs) = {d}
    BY <1>3, <2>2 DEF Ordered
  <2>4. d \in cs
    OBVIOUS
  <2> HIDE DEF cs
  <2>5. Buttons(cs, ui.busy)
    BY <2>1, <2>3, <2>4 DEF Buttons
  <2>6. QED
    BY <1>1, <2>5 DEF cs
<1>4. QED
  BY <1>2, <1>3

LEMMA ServeKeeps ==
    ASSUME ConsoleInv, NEW c \in calls, Serve(c)
    PROVE  ConsoleInv'
<1>1. c \in Requests /\ c.at <= now /\ c.at \in Nat
  BY InvFacts DEF Asked, Requests
<1>2. \E d \in Requests :
          /\ calls' = (calls \ {c}) \cup {d} /\ d.at <= now
          /\ d.kind = c.kind /\ d.arg = c.arg /\ d.own = c.own
  <2>1. CASE ServeRead(c)
    <3> DEFINE st == IF c.kind = "reset" /\ ~row.there THEN "no" ELSE "ok"
               at == IF c.kind = "live" THEN now ELSE 0
               r  == IF c.kind = "users" THEN row ELSE NoRow
               d  == [c EXCEPT !.st = st, !.at = at, !.row = r]
    <3>1. st \in {"ok", "no"} /\ at \in Nat /\ at <= now /\ r \in Rows
      BY InvFacts, FieldFacts
    <3>2. calls' = (calls \ {c}) \cup {d}
      BY <2>1 DEF ServeRead, Replace
    <3>3. d = [c EXCEPT !.st = st, !.at = at, !.row = r]
      OBVIOUS
    <3> HIDE DEF st, at, r, d
    <3>4. /\ d \in Requests /\ d.at = at
          /\ d.kind = c.kind /\ d.arg = c.arg /\ d.own = c.own
      BY <1>1, <3>1, <3>3 DEF Requests
    <3>5. QED
      BY <3>1, <3>2, <3>4
  <2>2. CASE ServeEdit(c) \/ ServeDelete(c)
    <3> DEFINE st == IF row.there THEN "ok" ELSE "no"
               d  == [c EXCEPT !.st = st]
    <3>1. st \in {"ok", "no"}
      OBVIOUS
    <3>2. calls' = (calls \ {c}) \cup {d}
      BY <2>2 DEF ServeEdit, ServeDelete, Replace
    <3>3. d = [c EXCEPT !.st = st]
      OBVIOUS
    <3> HIDE DEF st, d
    <3>4. /\ d \in Requests /\ d.at = c.at
          /\ d.kind = c.kind /\ d.arg = c.arg /\ d.own = c.own
      BY <1>1, <3>1, <3>3 DEF Requests
    <3>5. QED
      BY <1>1, <3>2, <3>4
  <2>3. QED
    BY <2>1, <2>2 DEF Serve
<1>3. PICK d \in Requests :
          /\ calls' = (calls \ {c}) \cup {d} /\ d.at <= now
          /\ d.kind = c.kind /\ d.arg = c.arg /\ d.own = c.own
  BY <1>2
<1>4. Asked(calls', now, ui.range) /\ Buttons(calls', ui.busy)
  BY <1>3, CallServed
<1>5. row' \in Rows
  <2>1. CASE ServeRead(c)
    BY <2>1, InvFacts DEF ServeRead
  <2>2. CASE ServeEdit(c)
    <3>1. c.kind \in Fields /\ c.arg \in FieldValues[c.kind]
      BY <1>1, <2>2 DEF ServeEdit, Requests
    <3>2. row' = row \/ row' = [row EXCEPT ![c.kind] = c.arg]
      BY <2>2 DEF ServeEdit
    <3>3. QED
      BY <3>1, <3>2, InvFacts, RowIsSet
  <2>3. CASE ServeDelete(c)
    BY <2>3, InvFacts, FieldFacts DEF ServeDelete
  <2>4. QED
    BY <2>1, <2>2, <2>3 DEF Serve
<1>6. QED
  BY <1>4, <1>5, InvFacts, StepKeeps DEF Serve

\* An answer that leaves the range and the buttons as they are, and is no action
\* of the page.
LEMMA TurnsKeeps ==
    ASSUME ConsoleInv, NEW c \in calls, ~ (c.own /\ c.kind = "action"),
           NEW u \in Screens, u.page = ui.page, u.snap <= now,
           u.range = ui.range, u.busy = ui.busy,
           NEW more, Asked(more, now, ui.range), Ordered(more) = {},
           Turns(c, u, more)
    PROVE  ConsoleInv'
<1>1. /\ ui' = u /\ calls' = (calls \ {c}) \cup more
      /\ UNCHANGED <<now, row, stream>>
  BY DEF Turns, Replace
<1>2. /\ Asked((calls \ {c}) \cup more, now, ui.range)
      /\ Buttons((calls \ {c}) \cup more, ui.busy)
  BY InvFacts, CallsReplaced
<1>3. QED
  BY <1>1, <1>2, InvFacts, StepKeeps

\* The action that ends is the one for which the buttons were disabled.
LEMMA ActionEndedKeeps ==
    ASSUME ConsoleInv, NEW c \in calls, c.own, ActionEnded(c)
    PROVE  ConsoleInv'
<1>1. /\ ui' = [ui EXCEPT !.busy = FALSE] /\ calls' = calls \ {c}
      /\ UNCHANGED <<now, row, stream>> /\ c.kind = "action"
  BY DEF ActionEnded, Landed, Turns, Replace
<1>2. ui' \in Screens
  <2>1. \A b \in BOOLEAN : [ui EXCEPT !.busy = b] \in Screens
    BY InvFacts, ScreenFacts
  <2>2. QED
    BY <1>1, <2>1
<1>3. /\ ui'.busy = FALSE /\ ui'.page = ui.page
      /\ ui'.snap = ui.snap /\ ui'.range = ui.range
  BY <1>1, InvFacts DEF Screens
<1>4. c \in Ordered(calls)
  BY <1>1 DEF Ordered
<1>5. Ordered(calls) = {c}
  BY <1>4, InvFacts DEF Buttons
<1>6. Ordered(calls') = {}
  BY <1>1, <1>5 DEF Ordered
<1>7. Buttons(calls', ui'.busy)
  BY <1>3, <1>6 DEF Buttons
<1>8. Asked(calls', now, ui'.range)
  BY <1>1, <1>3, InvFacts DEF Asked
<1>9. QED
  BY <1>1, <1>2, <1>3, <1>7, <1>8, InvFacts, StepKeeps

LEMMA AnswerKeeps ==
    ASSUME ConsoleInv, NEW c \in calls, Answer(c)
    PROVE  ConsoleInv'
<1>1. c \in Requests /\ c.at <= now /\ c.at \in Nat /\ c.row \in Rows
  BY InvFacts DEF Asked, Requests
<1>2. /\ Asked({}, now, ui.range) /\ Ordered({}) = {}
      /\ Asked({Reload}, now, ui.range) /\ Ordered({Reload}) = {}
  <2>1. Reload \in Requests /\ Reload.at = 0 /\ Reload.kind = "users"
    BY AsksAreRequests DEF Reload, Ask
  <2>2. QED
    BY <2>1, InvFacts DEF Asked, Ordered
<1>3. ui \in Screens /\ now \in Nat
  BY InvFacts
<1>4. CASE LiveAnswered(c)
  <2> DEFINE u == [ui EXCEPT !.snap = c.at]
  <2>1. Turns(c, u, {}) /\ c.kind # "action"
    BY <1>4 DEF LiveAnswered, Landed
  <2>2. u \in Screens
    BY <1>1, <1>3, ScreenFacts
  <2>3. /\ u.page = ui.page /\ u.snap <= now
        /\ u.range = ui.range /\ u.busy = ui.busy
    BY <1>1, <1>3 DEF Screens
  <2> HIDE DEF u
  <2>4. QED
    BY <1>2, <2>1, <2>2, <2>3, TurnsKeeps
<1>5. CASE c.own /\ HistoryAnswered(c)
  <2> DEFINE u == [ui EXCEPT !.hist = c.arg]
  <2>1. Turns(c, u, {}) /\ c.kind # "action" /\ c.arg \in Ranges
    BY <1>1, <1>5 DEF HistoryAnswered, Landed, Requests
  <2>2. u \in Screens
    BY <1>3, <2>1, ScreenFacts
  <2>3. /\ u.page = ui.page /\ u.snap <= now
        /\ u.range = ui.range /\ u.busy = ui.busy
    BY <1>3, InvFacts DEF Screens
  <2> HIDE DEF u
  <2>4. QED
    BY <1>2, <2>1, <2>2, <2>3, TurnsKeeps
<1>6. CASE UsersAnswered(c)
  <2> DEFINE u == [ui EXCEPT !.shown = c.row]
  <2>1. Turns(c, u, {}) /\ c.kind # "action"
    BY <1>6 DEF UsersAnswered
  <2>2. u \in Screens
    BY <1>1, <1>3, ScreenFacts
  <2>3. /\ u.page = ui.page /\ u.snap <= now
        /\ u.range = ui.range /\ u.busy = ui.busy
    BY <1>3, InvFacts DEF Screens
  <2> HIDE DEF u
  <2>4. QED
    BY <1>2, <2>1, <2>2, <2>3, TurnsKeeps
<1>7. CASE JournalAnswered(c)
  <2> DEFINE u == [ui EXCEPT !.entries = c.arg, !.err = FALSE]
  <2>1. Turns(c, u, {}) /\ c.kind # "action" /\ c.arg \in Filters
    BY <1>1, <1>7 DEF JournalAnswered, Landed, Requests
  <2>2. u \in Screens
    BY <1>3, <2>1, ScreenFacts
  <2>3. /\ u.page = ui.page /\ u.snap <= now
        /\ u.range = ui.range /\ u.busy = ui.busy
    BY <1>3, InvFacts DEF Screens
  <2> HIDE DEF u
  <2>4. QED
    BY <1>2, <2>1, <2>2, <2>3, TurnsKeeps
<1>8. CASE EditAnswered(c)
  <2>1. Turns(c, ui, {Reload}) /\ c.kind # "action"
    BY <1>8 DEF EditAnswered, Landed, Fields
  <2>2. QED
    BY <1>2, <2>1, InvFacts, TurnsKeeps
<1>9. CASE ResetAnswered(c)
  <2> DEFINE u == [ui EXCEPT !.temp = TRUE]
  <2>1. Turns(c, u, {}) /\ c.kind # "action"
    BY <1>9 DEF ResetAnswered, Landed
  <2>2. \A b \in BOOLEAN : [ui EXCEPT !.temp = b] \in Screens
    BY <1>3, ScreenFacts
  <2>3. u \in Screens
    BY <2>2
  <2>4. /\ u.page = ui.page /\ u.snap <= now
        /\ u.range = ui.range /\ u.busy = ui.busy
    BY <1>3, InvFacts DEF Screens
  <2> HIDE DEF u
  <2>5. QED
    BY <1>2, <2>1, <2>3, <2>4, TurnsKeeps
<1>10. CASE c.own /\ ActionEnded(c)
  BY <1>10, ActionEndedKeeps
<1>11. CASE Failed(c)
  <2> DEFINE u == IF c.kind = "history" THEN ui ELSE [ui EXCEPT !.err = TRUE]
  <2>1. Turns(c, u, {}) /\ c.kind # "action"
    BY <1>11 DEF Failed, Landed
  <2>2. \A b \in BOOLEAN : [ui EXCEPT !.err = b] \in Screens
    BY <1>3, ScreenFacts
  <2>3. u \in Screens
    BY <1>3, <2>2
  <2>4. /\ u.page = ui.page /\ u.snap <= now
        /\ u.range = ui.range /\ u.busy = ui.busy
    BY <1>3, InvFacts DEF Screens
  <2> HIDE DEF u
  <2>5. QED
    BY <1>2, <2>1, <2>3, <2>4, TurnsKeeps
<1>12. CASE ~c.own /\ Ignored(c)
  <2>1. Turns(c, ui, {})
    BY <1>12 DEF Ignored, Landed
  <2>2. QED
    BY <1>2, <1>12, <2>1, InvFacts, TurnsKeeps
<1>13. QED
  BY <1>4, <1>5, <1>6, <1>7, <1>8, <1>9, <1>10, <1>11, <1>12 DEF Answer

-----------------------------------------------------------------------------
(* The stream and the clock of the server *)

LEMMA StreamKeeps ==
    ASSUME ConsoleInv, StreamSends \/ StreamArrives \/ StreamBreaks \/ Reconnect
    PROVE  ConsoleInv'
<1>1. UNCHANGED <<now, row, calls>>
  BY DEF StreamSends, StreamArrives, StreamBreaks, Reconnect
<1>2. /\ stream \in [st : {"closed", "open", "down", "dead"}, wire : Nat]
      /\ stream.wire <= now
      /\ stream.st = "closed" <=> ui.page \notin LivePages
  BY DEF ConsoleInv, TypeOK
<1>3. /\ ui' \in Screens /\ ui'.page = ui.page /\ ui'.snap <= now
      /\ ui'.range = ui.range /\ ui'.busy = ui.busy
  <2>1. CASE StreamArrives
    <3>1. ui' = [ui EXCEPT !.snap = stream.wire, !.err = FALSE]
      BY <2>1 DEF StreamArrives
    <3>2. ui' \in Screens
      BY <1>2, <3>1, InvFacts, ScreenFacts
    <3>3. QED
      BY <1>2, <3>1, <3>2, InvFacts DEF Screens
  <2>2. CASE StreamSends \/ StreamBreaks \/ Reconnect
    BY <2>2, InvFacts DEF StreamSends, StreamBreaks, Reconnect
  <2>3. QED
    BY <2>1, <2>2
<1>4. /\ stream' \in [st : {"closed", "open", "down", "dead"}, wire : Nat]
      /\ stream'.wire <= now
      /\ stream'.st = "closed" <=> stream.st = "closed"
  <2>1. CASE StreamSends
    BY <1>2, <2>1, InvFacts DEF StreamSends
  <2>2. CASE StreamArrives
    BY <1>2, <2>2, InvFacts DEF StreamArrives
  <2>3. CASE StreamBreaks
    BY <1>2, <2>3, InvFacts DEF StreamBreaks
  <2>4. CASE Reconnect
    BY <1>2, <2>4, InvFacts DEF Reconnect
  <2>5. QED
    BY <2>1, <2>2, <2>3, <2>4
<1>5. (now \in 1..MaxNow /\ row \in Rows)'
  BY <1>1 DEF ConsoleInv, TypeOK
<1>6. Asked(calls', now', ui'.range) /\ Buttons(calls', ui'.busy)
  BY <1>1, <1>3, InvFacts
<1>7. QED
  BY <1>1, <1>2, <1>3, <1>4, <1>5, <1>6, InvFollows

LEMMA MeasureKeeps ==
    ASSUME ConsoleInv, Measure
    PROVE  ConsoleInv'
<1>1. now' = now + 1 /\ now' \in 1..MaxNow
  BY ConsoleBounds, InvFacts DEF ConsoleInv, TypeOK, Measure
<1>2. \A c \in calls : c \in Requests /\ c.at \in Nat /\ c.at <= now'
  BY <1>1, InvFacts DEF Asked, Requests
<1>3. Asked(calls', now', ui'.range)
  BY <1>2, InvFacts DEF Asked, Measure
<1>4. /\ ui' = ui /\ row' = row /\ stream' = stream
      /\ stream.wire <= now' /\ ui.snap <= now'
  BY <1>1 DEF ConsoleInv, TypeOK, Screens, Measure
<1>5. QED
  BY <1>1, <1>3, <1>4, InvFacts, InvFollows DEF ConsoleInv, TypeOK, Measure

-----------------------------------------------------------------------------
(* The theorems *)

LEMMA InitIsSound == Init => ConsoleInv
<1> SUFFICES ASSUME Init PROVE ConsoleInv
  OBVIOUS
<1> DEFINE c == Ask("live", "")
<1>1. c \in Requests /\ c.at = 0 /\ c.own = TRUE /\ c.kind = "live"
  BY AsksAreRequests DEF Ask
<1>2. calls = {c}
  BY DEF Init
<1> HIDE DEF c
<1>3. now = 1 /\ row \in Rows /\ stream = [st |-> "open", wire |-> 0]
  BY DEF Init
<1>4. Asked(calls, now, ui.range) /\ Ordered(calls) = {}
  BY <1>1, <1>2, <1>3 DEF Asked, Ordered
<1>5. /\ ui \in Screens /\ ui.page = "overview" /\ ui.snap = 0
      /\ ui.busy = FALSE /\ ui.shown \in Rows
      /\ ui.hist = "none" /\ ui.entries = "none"
  BY FieldFacts
  DEF Init, Blank, Screens, Pages, LivePages, Ranges, Filters
<1>6. Buttons(calls, ui.busy)
  BY <1>4, <1>5 DEF Buttons
<1>7. TypeOK
  BY <1>1, <1>2, <1>3, <1>5, ConsoleBounds DEF TypeOK, LivePages
<1>8. QED
  BY <1>3, <1>4, <1>5, <1>6, <1>7 DEF ConsoleInv

LEMMA StutterKeeps ==
    ASSUME ConsoleInv, UNCHANGED vars
    PROVE  ConsoleInv'
BY DEF ConsoleInv, TypeOK, vars

LEMMA ConsoleInvHolds == Spec => []ConsoleInv
<1>1. ConsoleInv /\ [Next]_vars => ConsoleInv'
  <2> SUFFICES ASSUME ConsoleInv, [Next]_vars
               PROVE  ConsoleInv'
    OBVIOUS
  <2>1. CASE Go \/ RunAction \/ Poll \/ ClickRow \/ CloseTemp \/ OtherAdmin
    BY <2>1, GoKeeps, RunActionKeeps, PollKeeps, ClickRowKeeps, CloseTempKeeps,
       OtherAdminKeeps
  <2>2. CASE \E r \in Ranges : ChooseRange(r)
    BY <2>2, ChooseRangeKeeps
  <2>3. CASE \E f \in Filters : ChooseFilter(f)
    BY <2>3, ChooseFilterKeeps
  <2>4. CASE \E c \in calls : Serve(c) \/ Answer(c)
    BY <2>4, ServeKeeps, AnswerKeeps
  <2>5. CASE Measure
    BY <2>5, MeasureKeeps
  <2>6. CASE StreamSends \/ StreamArrives \/ StreamBreaks \/ Reconnect
    BY <2>6, StreamKeeps
  <2>7. CASE UNCHANGED vars
    BY <2>7, StutterKeeps
  <2>8. QED
    BY <2>1, <2>2, <2>3, <2>4, <2>5, <2>6, <2>7 DEF Next
<1>2. QED
  BY <1>1, InitIsSound, PTL DEF Spec

\* The three buttons of the system page are disabled exactly while the action
\* it ordered is in flight, and there is one; every page, request and stream is
\* in a state of the program (AdminSystemPage.tsx: runAction sets busy before it
\* waits and clears it in its finally; adminApi.ts).
THEOREM ConsoleHasItsCallsHolds == Spec => []ConsoleHasItsCalls
<1>1. ConsoleInv => ConsoleHasItsCalls
  <2> SUFFICES ASSUME ConsoleInv PROVE BusyHasCall
    BY DEF ConsoleInv, ConsoleHasItsCalls
  <2> DEFINE mine == {c \in calls : c.own /\ c.kind = "action"}
  <2>1. mine = Ordered(calls)
    BY DEF Ordered
  <2> HIDE DEF mine
  <2>2. CASE ui.busy
    <3>1. PICK c \in calls : mine = {c}
      BY <2>1, <2>2, InvFacts DEF Buttons
    <3>2. Cardinality({c}) = 1
      BY FS_Singleton
    <3>3. QED
      BY <2>2, <3>1, <3>2 DEF BusyHasCall, mine
  <2>3. CASE ~ui.busy
    <3>1. mine = {}
      BY <2>1, <2>3, InvFacts DEF Buttons
    <3>2. Cardinality({}) = 0
      BY FS_EmptySet
    <3>3. QED
      BY <2>3, <3>1, <3>2 DEF BusyHasCall, mine
  <2>4. QED
    BY <2>2, <2>3
<1>2. QED
  BY <1>1, ConsoleInvHolds, PTL

\* Once a range is chosen, no answer for the other one replaces the curves
\* (AdminSystemPage.tsx: the cleanup of the effect of range sets cancelled,
\* which its answers are compared with).
THEOREM HistoryFollowsRangeHolds == Spec => HistoryFollowsRange
<1>1. ConsoleInv /\ [Next]_vars =>
          (ui'.hist # ui.hist => ui'.hist \in {"none", ui'.range})
  <2> SUFFICES ASSUME ConsoleInv, [Next]_vars, ui'.hist # ui.hist
               PROVE  ui'.hist \in {"none", ui'.range}
    OBVIOUS
  <2>1. ui \in Screens
    BY InvFacts
  <2>2. CASE Go
    <3>1. PICK p \in {"overview", "system", "users", "logs"} : ui' = Blank(p)
      BY <2>2
      DEF Go, MountOverview, MountSystem, MountUsers, MountLogs, Mount
    <3>2. Blank(p).hist = "none"
      BY DEF Blank
    <3>3. QED
      BY <3>1, <3>2
  <2>3. CASE \E c \in calls : Answer(c)
    <3>1. PICK c \in calls : Answer(c)
      BY <2>3
    <3>2. c.own /\ HistoryAnswered(c)
      BY <2>1, <3>1
      DEF Answer, Landed, Turns, LiveAnswered, UsersAnswered, JournalAnswered,
          EditAnswered, ResetAnswered, ActionEnded, Failed, Ignored, Screens
    <3>3. ui' = [ui EXCEPT !.hist = c.arg] /\ c.kind = "history"
      BY <3>2 DEF HistoryAnswered, Landed, Turns
    <3>4. c.arg = ui.range
      BY <3>2, <3>3, InvFacts DEF Asked
    <3>5. QED
      BY <2>1, <3>3, <3>4 DEF Screens
  <2>4. CASE \/ RunAction \/ Poll \/ ClickRow \/ CloseTemp \/ OtherAdmin
             \/ \E r \in Ranges : ChooseRange(r)
             \/ \E f \in Filters : ChooseFilter(f)
             \/ \E c \in calls : Serve(c)
             \/ Measure \/ StreamSends \/ StreamArrives \/ StreamBreaks
             \/ Reconnect
    <3>1. ui'.hist = ui.hist
      BY <2>1, <2>4
      DEF RunAction, Poll, ClickRow, CloseTemp, OtherAdmin, ChooseRange,
          ChooseFilter, Serve, Measure, StreamSends, StreamArrives,
          StreamBreaks, Reconnect, Screens
    <3>2. QED
      BY <3>1
  <2>5. CASE UNCHANGED vars
    BY <2>5 DEF vars
  <2>6. QED
    BY <2>2, <2>3, <2>4, <2>5 DEF Next
<1>2. QED
  BY <1>1, ConsoleInvHolds, PTL DEF HistoryFollowsRange, Spec

-----------------------------------------------------------------------------
(* AdminConsole: the list of users *)

Edits == {c \in calls : c.own /\ c.kind \in Fields \cup {"delete"}}

\* The page will read the account as it is: after an edit, after a list that is
\* still to be read, or from one that says so.
Coming == Edits # {} \/ Reload \in calls \/ \E d \in Lists : d.row = row

\* On the page of the users, a list that is not late, shown or on its way, is
\* the account as it is, unless such a one will come.
ListInv ==
    ui.page = "users" =>
        /\ stream.wire = 0
        /\ \A c \in calls : c.own => c.kind # "journal"
        /\ ~ ui.err => /\ \A c \in Lists \ late : c.row = row \/ Coming
                       /\ missed \/ ui.shown = row \/ Coming

LEMMA ReloadFacts ==
    Reload.own = TRUE /\ Reload.kind = "users" /\ Reload.st = "sent"
BY DEF Reload, Ask

\* One request is replaced by another that is neither a list nor an edit of the
\* page, and was none.
LEMMA OtherCalls ==
    ASSUME NEW c \in calls, NEW more, calls' = (calls \ {c}) \cup more,
           \A d \in more \cup {c} :
              d.own => d.kind \notin Fields \cup {"users", "delete"}
    PROVE  Lists' = Lists /\ Edits' = Edits /\ c # Reload
<1>1. \A e : e \in Lists' <=> e \in Lists
  BY DEF Lists
<1>2. \A e : e \in Edits' <=> e \in Edits
  BY DEF Edits
<1>3. QED
  BY <1>1, <1>2, ReloadFacts

\* Requests that come take nothing away, as long as none goes and the account
\* stays.
LEMMA ComingStays ==
    ASSUME Coming, row' = row, calls \subseteq calls'
    PROVE  Coming'
BY DEF Coming, Edits, Lists

\* A step that leaves the lists, the page and the account alone.
LEMMA ListStays ==
    ASSUME ListInv, row' = row, calls \subseteq calls',
           \A c \in calls' \ calls : c.own => c.kind # "journal" /\ c.st = "sent",
           ui'.page = ui.page, ui'.err = ui.err, ui'.shown = ui.shown,
           ui.page = "users" => stream'.wire = stream.wire,
           UNCHANGED history
    PROVE  ListInv'
<1> SUFFICES ASSUME ui.page = "users" PROVE ListInv'
  BY DEF ListInv
<1>1. Lists' = Lists
  BY DEF Lists
<1>2. UNCHANGED <<late, missed>>
  BY DEF history
<1>3. QED
  BY <1>1, <1>2, ComingStays DEF ListInv

\* Nothing but a list, an edit or an error of the page changes what it shows.
LEMMA OtherAnswers ==
    ASSUME ListInv, NEW c \in calls, NEW u, Landed(c, u, {}),
           u.page = ui.page,
           \/ u.err = TRUE
           \/ /\ u.err = ui.err /\ u.shown = ui.shown
              /\ c.own => c.kind \notin Fields \cup {"users", "delete"}
    PROVE  ListInv'
<1>1. /\ ui' = u /\ calls' = calls \ {c}
      /\ UNCHANGED <<now, row, stream>> /\ late' = late \ {c} /\ missed' = missed
  BY DEF Landed, Turns, Replace
<1>2. CASE u.err = TRUE
  BY <1>1, <1>2 DEF ListInv
<1>3. CASE /\ u.err = ui.err /\ u.shown = ui.shown
           /\ c.own => c.kind \notin Fields \cup {"users", "delete"}
  <2>1. Lists' = Lists /\ Edits' = Edits /\ c # Reload
    BY <1>1, <1>3, OtherCalls
  <2>2. c \notin Lists
    BY <1>3 DEF Lists
  <2>3. Coming => Coming'
    BY <1>1, <2>1 DEF Coming
  <2>4. QED
    BY <1>1, <1>3, <2>1, <2>2, <2>3 DEF ListInv
<1>4. QED
  BY <1>2, <1>3

\* The list that is shown was read after every change, or is known as late; one
\* that it overtakes is late from now on.
LEMMA UsersAnsweredKeeps ==
    ASSUME ListInv, ConsoleInv, NEW c \in calls, c.own, c.st = "ok",
           UsersAnswered(c)
    PROVE  ListInv'
<1>1. /\ ui' = [ui EXCEPT !.shown = c.row] /\ calls' = calls \ {c}
      /\ UNCHANGED <<now, row, stream>> /\ c.kind = "users"
      /\ late' = Lists \ {c} /\ missed' = (c \in late)
  BY DEF UsersAnswered, Turns, Replace
<1>2. ui'.page = ui.page /\ ui'.err = ui.err /\ ui'.shown = c.row
  BY <1>1, InvFacts DEF Screens
<1>3. c \in Lists /\ Lists' = Lists \ {c} /\ Edits' = Edits /\ c # Reload
  <2>1. c \in Lists /\ c # Reload
    BY <1>1, ReloadFacts DEF Lists
  <2>2. \A e : e \in Lists' <=> e \in Lists \ {c}
    BY <1>1 DEF Lists
  <2>3. \A e : e \in Edits' <=> e \in Edits
    BY <1>1 DEF Edits, Fields
  <2>4. QED
    BY <2>1, <2>2, <2>3
<1>4. Coming => Coming' \/ c.row = row
  BY <1>1, <1>3 DEF Coming
<1>5. Lists' \ late' = {}
  BY <1>1, <1>3
<1>6. QED
  BY <1>1, <1>2, <1>3, <1>4, <1>5 DEF ListInv

\* An edit that has succeeded has the list read again.
LEMMA EditAnsweredKeeps ==
    ASSUME ListInv, NEW c \in calls, EditAnswered(c)
    PROVE  ListInv'
<1>1. /\ ui' = ui /\ calls' = (calls \ {c}) \cup {Reload} /\ stream' = stream
  BY DEF EditAnswered, Landed, Turns, Replace
<1>2. Coming'
  BY <1>1 DEF Coming
<1>3. QED
  BY <1>1, <1>2, ReloadFacts DEF ListInv

LEMMA AnswerKeepsList ==
    ASSUME ListInv, ConsoleInv, NEW c \in calls, Answer(c)
    PROVE  ListInv'
<1>1. ui \in Screens
  BY InvFacts
<1>2. CASE c.own /\ c.st = "ok" /\ UsersAnswered(c)
  BY <1>2, UsersAnsweredKeeps
<1>3. CASE EditAnswered(c)
  BY <1>3, EditAnsweredKeeps
<1>4. CASE c.own /\ JournalAnswered(c)
  <2>1. ui'.page = ui.page
    BY <1>1, <1>4 DEF JournalAnswered, Landed, Turns, Screens
  <2>2. ui.page # "users"
    BY <1>4 DEF ListInv, JournalAnswered
  <2>3. QED
    BY <2>1, <2>2 DEF ListInv
<1>5. ASSUME NEW u, Landed(c, u, {}), u.page = ui.page,
             \/ u.err = TRUE
             \/ /\ u.err = ui.err /\ u.shown = ui.shown
                /\ c.own => c.kind \notin Fields \cup {"users", "delete"}
      PROVE  ListInv'
  BY <1>5, OtherAnswers
<1>6. CASE LiveAnswered(c)
  <2> DEFINE u == [ui EXCEPT !.snap = c.at]
  <2>1. Landed(c, u, {}) /\ c.kind = "live"
    BY <1>6 DEF LiveAnswered
  <2>2. u.page = ui.page /\ u.err = ui.err /\ u.shown = ui.shown
    BY <1>1 DEF Screens
  <2> HIDE DEF u
  <2>3. QED
    BY <1>5, <2>1, <2>2 DEF Fields
<1>7. CASE HistoryAnswered(c)
  <2> DEFINE u == [ui EXCEPT !.hist = c.arg]
  <2>1. Landed(c, u, {}) /\ c.kind = "history"
    BY <1>7 DEF HistoryAnswered
  <2>2. u.page = ui.page /\ u.err = ui.err /\ u.shown = ui.shown
    BY <1>1 DEF Screens
  <2> HIDE DEF u
  <2>3. QED
    BY <1>5, <2>1, <2>2 DEF Fields
<1>8. CASE ResetAnswered(c)
  <2> DEFINE u == [ui EXCEPT !.temp = TRUE]
  <2>1. Landed(c, u, {}) /\ c.kind = "reset"
    BY <1>8 DEF ResetAnswered
  <2>2. u.page = ui.page /\ u.err = ui.err /\ u.shown = ui.shown
    BY <1>1 DEF Screens
  <2> HIDE DEF u
  <2>3. QED
    BY <1>5, <2>1, <2>2 DEF Fields
<1>9. CASE ActionEnded(c)
  <2> DEFINE u == [ui EXCEPT !.busy = FALSE]
  <2>1. Landed(c, u, {}) /\ c.kind = "action"
    BY <1>9 DEF ActionEnded
  <2>2. u.page = ui.page /\ u.err = ui.err /\ u.shown = ui.shown
    BY <1>1 DEF Screens
  <2> HIDE DEF u
  <2>3. QED
    BY <1>5, <2>1, <2>2 DEF Fields
<1>10. CASE Failed(c)
  <2>1. CASE c.kind = "history"
    BY <1>5, <1>10, <2>1 DEF Failed, Fields
  <2>2. CASE c.kind # "history"
    <3> DEFINE u == [ui EXCEPT !.err = TRUE]
    <3>1. Landed(c, u, {})
      BY <1>10, <2>2 DEF Failed
    <3>2. u.page = ui.page /\ u.err = TRUE
      BY <1>1 DEF Screens
    <3> HIDE DEF u
    <3>3. QED
      BY <1>5, <3>1, <3>2
  <2>3. QED
    BY <2>1, <2>2
<1>11. CASE ~ c.own /\ Ignored(c)
  BY <1>5, <1>11 DEF Ignored
<1>12. QED
  BY <1>2, <1>3, <1>4, <1>6, <1>7, <1>8, <1>9, <1>10, <1>11 DEF Answer

\* What somebody else changes makes every list late that was read before.
LEMMA UnheardKeeps ==
    ASSUME ListInv, Unheard, row' # row, Lists' = Lists,
           \A c \in calls' : c.own => c.kind # "journal" \/ c \in calls,
           UNCHANGED <<ui, stream>>
    PROVE  ListInv'
<1>1. late' = Lists /\ missed' = (ui.page = "users")
  BY DEF Unheard
<1>2. QED
  BY <1>1 DEF ListInv

\* A list that is read is the account as it is; after an edit of the page one is
\* still to be read.
LEMMA ServeKeepsList ==
    ASSUME ListInv, ConsoleInv, NEW c \in calls, Serve(c)
    PROVE  ListInv'
<1>1. /\ c.st = "sent" /\ UNCHANGED <<ui, stream>> /\ c \in Requests
      /\ c.kind \in Reads \cup {"reset", "action", "delete"} \cup Fields
      /\ IF c.own THEN UNCHANGED history ELSE Unheard
  BY InvFacts DEF Serve, ServeRead, ServeEdit, ServeDelete, Asked
<1>2. PICK d : /\ calls' = (calls \ {c}) \cup {d}
               /\ d.kind = c.kind /\ d.own = c.own
               /\ c.kind = "users" => d.st = "ok" /\ d.row = row
  <2>1. \A st, at, r : LET d == [c EXCEPT !.st = st, !.at = at, !.row = r]
                       IN  d.kind = c.kind /\ d.own = c.own /\ d.st = st /\ d.row = r
    BY <1>1 DEF Requests
  <2>2. \A st : LET d == [c EXCEPT !.st = st]
                IN  d.kind = c.kind /\ d.own = c.own
    BY <1>1 DEF Requests
  <2>3. CASE ServeRead(c)
    <3> DEFINE st == IF c.kind = "reset" /\ ~row.there THEN "no" ELSE "ok"
               at == IF c.kind = "live" THEN now ELSE 0
               r  == IF c.kind = "users" THEN row ELSE NoRow
               d  == [c EXCEPT !.st = st, !.at = at, !.row = r]
    <3>1. calls' = (calls \ {c}) \cup {d}
      BY <2>3 DEF ServeRead, Replace
    <3>2. c.kind = "users" => st = "ok" /\ r = row
      OBVIOUS
    <3>3. d.kind = c.kind /\ d.own = c.own /\ d.st = st /\ d.row = r
      BY <2>1
    <3> HIDE DEF st, at, r, d
    <3>4. QED
      BY <3>1, <3>2, <3>3
  <2>4. CASE ServeEdit(c) \/ ServeDelete(c)
    <3> DEFINE d == [c EXCEPT !.st = IF row.there THEN "ok" ELSE "no"]
    <3>1. calls' = (calls \ {c}) \cup {d} /\ c.kind # "users"
      BY <2>4 DEF ServeEdit, ServeDelete, Replace, Fields
    <3>2. d.kind = c.kind /\ d.own = c.own
      BY <2>2
    <3> HIDE DEF d
    <3>3. QED
      BY <3>1, <3>2
  <2>5. QED
    BY <1>1, <2>3, <2>4 DEF Serve
<1>3. \A e \in calls' : e.own => e.kind # "journal" \/ c.kind = "journal" \/ e \in calls
  BY <1>2
<1>5. CASE c.kind = "users" /\ c.own
  <2>1. row' = row /\ d \in Lists' /\ d.row = row'
    BY <1>1, <1>2, <1>5
    DEF Serve, ServeRead, ServeEdit, ServeDelete, Fields, Lists
  <2>2. Coming'
    BY <2>1 DEF Coming
  <2>3. QED
    BY <1>1, <1>2, <1>5, <2>2 DEF ListInv
<1>6. CASE c.kind \in Fields \cup {"delete"} /\ c.own
  <2>1. d \in Edits'
    BY <1>2, <1>6 DEF Edits
  <2>2. Coming'
    BY <2>1 DEF Coming
  <2>3. QED
    BY <1>1, <1>2, <1>6, <2>2 DEF ListInv, Fields
<1>7. CASE ~ (c.own /\ c.kind \in Fields \cup {"users", "delete"})
  <2>1. Lists' = Lists /\ Edits' = Edits /\ c # Reload
    <3>1. \A e \in {d} \cup {c} :
             e.own => e.kind \notin Fields \cup {"users", "delete"}
      BY <1>2, <1>7
    <3>2. calls' = (calls \ {c}) \cup {d}
      BY <1>2
    <3>3. QED
      BY <3>1, <3>2, OtherCalls
  <2>2. \A e \in calls' : e.own => e.kind # "journal" \/ c.own \/ e \in calls
    BY <1>2
  <2>3. CASE row' = row
    <3>1. UNCHANGED <<late, missed>>
      BY <1>1, <2>3 DEF Unheard, history
    <3>2. Coming => Coming'
      BY <1>2, <2>1, <2>3 DEF Coming
    <3>3. ui.page = "users" => \A e \in calls' : e.own => e.kind # "journal"
      BY <1>2 DEF ListInv
    <3>4. QED
      BY <1>1, <2>1, <2>3, <3>1, <3>2, <3>3 DEF ListInv
  <2>4. CASE row' # row
    <3>1. ~ c.own
      BY <1>7, <2>4 DEF Serve, ServeRead, ServeEdit, ServeDelete
    <3>2. QED
      BY <1>1, <2>1, <2>2, <2>4, <3>1, UnheardKeeps
  <2>5. QED
    BY <2>3, <2>4
<1>8. QED
  BY <1>5, <1>6, <1>7

\* The page of the users reads its list as soon as it is mounted.
LEMMA GoKeepsList ==
    ASSUME ConsoleInv, Go
    PROVE  ListInv'
<1>1. ASSUME NEW p, NEW asks, Mount(p, asks), p = "users" => asks = {Reload}
      PROVE  ListInv'
  <2>1. ui'.page = p /\ stream'.wire = 0 /\ calls' = Orders \cup asks
    BY <1>1 DEF Mount, Blank
  <2>2. p = "users" => Coming'
    BY <1>1, <2>1 DEF Coming
  <2>3. \A c \in Orders : c.own = FALSE
    BY InvFacts, OrphanIsRequest DEF Orders, Asked
  <2>4. QED
    BY <1>1, <2>1, <2>2, <2>3, ReloadFacts DEF ListInv
<1>2. CASE MountUsers
  BY <1>1, <1>2 DEF MountUsers
<1>3. CASE MountOverview
  BY <1>1, <1>3 DEF MountOverview
<1>4. CASE MountSystem
  BY <1>1, <1>4 DEF MountSystem
<1>5. CASE MountLogs
  BY <1>1, <1>5 DEF MountLogs
<1>6. QED
  BY <1>2, <1>3, <1>4, <1>5 DEF Go

LEMMA PageKeepsList ==
    ASSUME ListInv, ConsoleInv,
           \/ RunAction \/ Poll \/ ClickRow \/ CloseTemp \/ Measure
           \/ \E r \in Ranges : ChooseRange(r)
           \/ \E f \in Filters : ChooseFilter(f)
    PROVE  ListInv'
<1>1. ui \in Screens
  BY InvFacts
<1>2. CASE ui.page # "users"
  <2>1. ui'.page = ui.page
    BY <1>1
    DEF RunAction, Poll, ClickRow, CloseTemp, Measure, ChooseRange, ChooseFilter,
        Screens
  <2>2. QED
    BY <1>2, <2>1 DEF ListInv
<1>3. CASE ui.page = "users" /\ ClickRow
  <2>1. PICK c : calls' = calls \cup {c} /\ c.st = "sent" /\ c.kind # "journal"
    <3>1. \A k, a : Ask(k, a).st = "sent" /\ Ask(k, a).kind = k
      BY DEF Ask
    <3>2. PICK k \in {"status", "quota", "reset", "delete"} :
             \E a : calls' = calls \cup {Ask(k, a)}
      BY <1>3 DEF ClickRow, Send
    <3>3. QED
      BY <3>1, <3>2
  <2>2. UNCHANGED <<row, ui, stream, history>>
    BY <1>3 DEF ClickRow
  <2>3. QED
    BY <2>1, <2>2, ListStays
<1>4. CASE ui.page = "users" /\ (CloseTemp \/ Measure)
  <2>1. /\ UNCHANGED <<row, calls, stream, history>>
        /\ ui'.page = ui.page /\ ui'.err = ui.err /\ ui'.shown = ui.shown
    BY <1>1, <1>4 DEF CloseTemp, Measure, Screens
  <2>2. QED
    BY <2>1, ListStays
<1>5. CASE /\ ui.page = "users"
           /\ \/ RunAction \/ Poll
              \/ \E r \in Ranges : ChooseRange(r)
              \/ \E f \in Filters : ChooseFilter(f)
  BY <1>5 DEF RunAction, Poll, ChooseRange, ChooseFilter
<1>6. QED
  BY <1>2, <1>3, <1>4, <1>5

\* The page of the users has no stream.
LEMMA StreamKeepsList ==
    ASSUME ListInv, ConsoleInv,
           StreamSends \/ StreamArrives \/ StreamBreaks \/ Reconnect
    PROVE  ListInv'
<1>1. ui \in Screens /\ (ui.page = "users" => stream.st = "closed")
  BY InvFacts DEF ConsoleInv, TypeOK, LivePages
<1>2. ui'.page = ui.page
  BY <1>1 DEF StreamSends, StreamArrives, StreamBreaks, Reconnect, Screens
<1>3. ui.page # "users"
  BY <1>1 DEF ListInv, StreamSends, StreamArrives, StreamBreaks, Reconnect
<1>4. QED
  BY <1>2, <1>3 DEF ListInv

\* Once nothing that the page of the users sent is on its way, its list shows the
\* account as it is, unless an error is shown, somebody else changed the account
\* later, or the list had been overtaken (AdminUsersPage.tsx: toggleStatus,
\* editQuota and removeUser read the list again after the server has answered).
THEOREM ListIsCurrentHolds == Spec => []ListIsCurrent
<1>1. Init => ListInv
  <2>1. Blank("overview").page = "overview"
    BY DEF Blank
  <2>2. QED
    BY <2>1 DEF Init, ListInv
<1>2. ConsoleInv /\ ListInv /\ [Next]_vars => ListInv'
  <2> SUFFICES ASSUME ConsoleInv, ListInv, [Next]_vars
               PROVE  ListInv'
    OBVIOUS
  <2>1. CASE Go
    BY <2>1, GoKeepsList
  <2>2. CASE \/ RunAction \/ Poll \/ ClickRow \/ CloseTemp \/ Measure
             \/ \E r \in Ranges : ChooseRange(r)
             \/ \E f \in Filters : ChooseFilter(f)
    BY <2>2, PageKeepsList
  <2>3. CASE OtherAdmin
    <3>1. Unheard /\ UNCHANGED <<ui, calls, stream>>
      BY <2>3 DEF OtherAdmin
    <3>2. CASE row' = row
      BY <3>1, <3>2, ListStays DEF Unheard
    <3>3. CASE row' # row
      <4>1. Lists' = Lists
        BY <3>1 DEF Lists
      <4>2. QED
        BY <3>1, <3>3, <4>1, UnheardKeeps
    <3>4. QED
      BY <3>2, <3>3
  <2>4. CASE \E c \in calls : Serve(c) \/ Answer(c)
    BY <2>4, ServeKeepsList, AnswerKeepsList
  <2>5. CASE StreamSends \/ StreamArrives \/ StreamBreaks \/ Reconnect
    BY <2>5, StreamKeepsList
  <2>6. CASE UNCHANGED vars
    BY <2>6, ListStays DEF vars
  <2>7. QED
    BY <2>1, <2>2, <2>3, <2>4, <2>5, <2>6 DEF Next
<1>3. ListInv => ListIsCurrent
  <2> SUFFICES ASSUME ListInv, ui.page = "users", ~ ui.err, ~ missed,
                      {c \in calls : /\ c.own
                                     /\ c.kind \in Fields \cup {"users", "delete"}} = {}
               PROVE  ui.shown = row
    BY DEF ListIsCurrent
  <2>1. Edits = {} /\ Lists = {}
    BY DEF Edits, Lists
  <2>2. Reload \notin calls
    BY ReloadFacts
  <2>3. QED
    BY <2>1, <2>2 DEF ListInv, Coming
<1>4. QED
  BY <1>1, <1>2, <1>3, ConsoleInvHolds, PTL DEF Spec

================================================================================
