-------------------------- MODULE RuntimeSettings --------------------------
(***************************************************************************)
(* The settings an administrator may override: the table, the cache that   *)
(* the whole service reads (core/runtime_settings.py,                      *)
(* core/effective_settings.py), the PATCH request that writes both         *)
(* (api/admin.py) and the cleanup loop (core/cleanup.py), which refreshes  *)
(* the cache every 30 seconds and reads file_ttl_minutes from it.          *)
(*                                                                         *)
(* Its names are apart from those of AdminConsole: AdministrationProofs    *)
(* extends both modules.                                                   *)
(***************************************************************************)
EXTENDS Integers, FiniteSets, Functions

CONSTANTS Keys,         \* the settings, file_ttl_minutes (Ttl) among them
          Ttl,
          Values,       \* the texts an administrator may send
          Unreadable,   \* those that int() or float() refuses
          Absent,       \* no row, no entry
          Admins,       \* PATCH requests that may run at the same time
          MaxPatches,   \* bound: requests ever sent
          MaxRestarts   \* bound: restarts of the server

ASSUME KeysAssumption   == Ttl \in Keys
ASSUME ValuesAssumption == Unreadable \subseteq Values /\ Absent \notin Values
ASSUME CountAssumption  == MaxPatches \in Nat /\ MaxRestarts \in Nat

VARIABLES
  stored,       \* table settings
  cache,        \* _cache
  patch,        \* each request: its step, its items, the item at hand, what
                \* session.get returned for it
  round,        \* the cleanup loop: its step, and the rows it selected
  committed,    \* the values every key was committed with (history)
  patches, restarts

settingsVars == <<stored, cache, patch, round, committed, patches, restarts>>

Entries == [Keys -> Values \cup {Absent}]

\* A JSON object: some keys, each with a value.
Payloads == UNION {[S -> Values] : S \in (SUBSET Keys) \ {{}}}

Idle == [pc |-> "idle", todo |-> <<>>, key |-> Ttl, seen |-> Absent]

SettingsTypeOK ==
    /\ stored \in Entries
    /\ cache \in Entries
    /\ patch \in [Admins -> [pc   : {"idle", "get", "commit", "cache"},
                            todo : Payloads \cup {<<>>},
                            key  : Keys, seen : Values \cup {Absent}]]
    /\ \A a \in Admins :
          /\ patch[a].pc # "idle" => patch[a].todo \in Payloads
          /\ patch[a].pc \in {"commit", "cache"} =>
                patch[a].key \in DOMAIN patch[a].todo
    /\ round \in [pc   : {"sleep", "fill", "expire", "orphans", "guests"},
                  rows : Entries]
    /\ committed \in [Keys -> SUBSET Values]
    /\ patches \in 0..MaxPatches /\ restarts \in 0..MaxRestarts

SettingsInit ==
    /\ stored = [k \in Keys |-> Absent]
    /\ cache = stored
    /\ patch = [a \in Admins |-> Idle]
    /\ round = [pc |-> "sleep", rows |-> stored]
    /\ committed = [k \in Keys |-> {}]
    /\ patches = 0 /\ restarts = 0

-----------------------------------------------------------------------------
(* PATCH /api/admin/settings: set_setting for every item, a commit each *)

SendPatch(a) ==
    /\ patch[a].pc = "idle"
    /\ patches < MaxPatches
    /\ patches' = patches + 1
    /\ \E p \in Payloads :
          patch' = [patch EXCEPT ![a] = [Idle EXCEPT !.pc = "get", !.todo = p]]
    /\ UNCHANGED <<stored, cache, round, committed, restarts>>

SetGet(a) ==
    /\ patch[a].pc = "get"
    /\ \E k \in DOMAIN patch[a].todo :
          patch' = [patch EXCEPT ![a].pc = "commit", ![a].key = k,
                                 ![a].seen = stored[k]]
    /\ UNCHANGED <<stored, cache, round, committed, patches, restarts>>

\* Two requests insert the same key: the primary key refuses the second, and
\* its remaining items are dropped with the exception.
Collides(a) == patch[a].seen = Absent /\ stored[patch[a].key] # Absent

\* SQLAlchemy emits no UPDATE when the row it read has the value already.
Emits(a) == patch[a].seen # patch[a].todo[patch[a].key]

\* Faulty variant: the collision is ignored, and the row stays as it is.
SetCommitQuiet(a) ==
    /\ patch[a].pc = "commit"
    /\ LET k == patch[a].key
           v == patch[a].todo[k]
       IN  IF Emits(a) /\ ~Collides(a)
           THEN /\ stored' = [stored EXCEPT ![k] = v]
                /\ committed' = [committed EXCEPT ![k] = @ \cup {v}]
           ELSE UNCHANGED <<stored, committed>>
    /\ patch' = [patch EXCEPT ![a].pc = "cache"]
    /\ UNCHANGED <<cache, round, patches, restarts>>

SetCommit(a) ==
    /\ patch[a].pc = "commit"
    /\ LET k == patch[a].key
           v == patch[a].todo[k]
       IN  IF Emits(a) /\ ~Collides(a)
           THEN /\ stored' = [stored EXCEPT ![k] = v]
                /\ committed' = [committed EXCEPT ![k] = @ \cup {v}]
           ELSE UNCHANGED <<stored, committed>>
    /\ patch' = IF Collides(a) THEN [patch EXCEPT ![a] = Idle]
                ELSE [patch EXCEPT ![a].pc = "cache"]
    /\ UNCHANGED <<cache, round, patches, restarts>>

SetCache(a) ==
    /\ patch[a].pc = "cache"
    /\ LET k    == patch[a].key
           rest == Restrict(patch[a].todo, DOMAIN patch[a].todo \ {k})
       IN  /\ cache' = [cache EXCEPT ![k] = patch[a].todo[k]]
           /\ patch' = [patch EXCEPT ![a] =
                           IF DOMAIN rest = {} THEN Idle
                           ELSE [@ EXCEPT !.pc = "get", !.todo = rest]]
    /\ UNCHANGED <<stored, round, committed, patches, restarts>>

-----------------------------------------------------------------------------
(* cleanup_loop: refresh_cache, then the three purges.  The first two read *)
(* file_ttl_minutes, and an exception skips to the next round.             *)

RefreshRead ==
    /\ round.pc = "sleep"
    /\ round' = [pc |-> "fill", rows |-> stored]
    /\ UNCHANGED <<stored, cache, patch, committed, patches, restarts>>

\* Faulty variant: only what the cache lacks is taken from the table.
RefreshFillMissing ==
    /\ round.pc = "fill"
    /\ cache' = [k \in Keys |-> IF cache[k] = Absent THEN round.rows[k]
                                ELSE cache[k]]
    /\ round' = [round EXCEPT !.pc = "expire"]
    /\ UNCHANGED <<stored, patch, committed, patches, restarts>>

RefreshFill ==
    /\ round.pc = "fill"
    /\ cache' = round.rows
    /\ round' = [round EXCEPT !.pc = "expire"]
    /\ UNCHANGED <<stored, patch, committed, patches, restarts>>

ReadTtl(pc, next) ==
    /\ round.pc = pc
    /\ round' = [round EXCEPT !.pc = IF cache[Ttl] \in Unreadable
                                     THEN "sleep" ELSE next]
    /\ UNCHANGED <<stored, cache, patch, committed, patches, restarts>>

ExpireStep == ReadTtl("expire", "orphans")

OrphansStep == ReadTtl("orphans", "guests")

GuestsStep ==
    /\ round.pc = "guests"
    /\ round' = [round EXCEPT !.pc = "sleep"]
    /\ UNCHANGED <<stored, cache, patch, committed, patches, restarts>>

RoundStep == \/ RefreshRead
             \/ RefreshFill
             \/ ExpireStep
             \/ OrphansStep
             \/ GuestsStep

\* lifespan fills the cache before the first request.
Restart ==
    /\ restarts < MaxRestarts
    /\ restarts' = restarts + 1
    /\ cache' = stored
    /\ patch' = [a \in Admins |-> Idle]
    /\ round' = [pc |-> "sleep", rows |-> stored]
    /\ UNCHANGED <<stored, committed, patches>>

AdminStep(a) == SetGet(a) \/ SetCommit(a) \/ SetCache(a)

SettingsNext ==
    \/ \E a \in Admins : SendPatch(a) \/ AdminStep(a)
    \/ RoundStep
    \/ Restart

SettingsSpec == SettingsInit /\ [][SettingsNext]_settingsVars

\* The loop goes round, and a request that was received is served.
SettingsFairSpec ==
    /\ SettingsSpec
    /\ WF_settingsVars(RoundStep)
    /\ \A a \in Admins : WF_settingsVars(AdminStep(a))

-----------------------------------------------------------------------------
(* Properties *)

\* The service never acts on a value that no commit made durable.
CacheWasStored == \A k \in Keys : cache[k] # Absent => cache[k] \in committed[k]

\* The same of every well-formed state: whichever PATCH, refresh or restart comes
\* between the commit and the assignment to the cache.
CacheIsSound == SettingsTypeOK /\ CacheWasStored

\* A value that stays in the table is the one the service ends up reading,
\* whatever refresh or request overlapped the write ("sous 30s pour le reste
\* du service").
CacheCatchesUp ==
    \A k \in Keys : \A v \in Values :
        <>[](stored[k] = v) => <>[](cache[k] = v)

\* "guest_downloads est purgee quotidiennement": the loop comes to that step
\* again and again, unless a TTL that is not a number stays in the table; one
\* that was stored and corrected does no lasting harm.
GuestsArePurged ==
    <>[](stored[Ttl] \notin Unreadable) => []<>(round.pc = "guests")

=============================================================================
