------------------------------- MODULE RuleState -------------------------------
(***************************************************************************)
(* The detection rules of the installation (backend/app/rules): what an    *)
(* analyst changed about the built-in rules and the custom Sigma rules, in *)
(* a database of their own, and the profile a detection run takes from it. *)
(*                                                                         *)
(* A request commits first and drops the cached profile afterwards; runs   *)
(* load their profile in between, in steps of their own: the revision, the *)
(* cache, the two tables, the cache again.  Each SELECT sees what is       *)
(* committed by then, since the driver begins a transaction only to write. *)
(***************************************************************************)
EXTENDS Integers, FiniteSets

CONSTANTS
  Rules,         \* registry ids
  Family,        \* rule -> the family that switches it, or None
  Table,         \* rule -> "cmdline" (rows with a severity, the profile at every finding),
                 \* "graded" (rows with a severity), "plain" (rows without), "code" (no rows)
  Legacy,        \* rule -> the legacy ids of the titles it emits
  Scopes,        \* BOUND: what a behaviour uses: built-in rules that are changed,
                 \* ids of custom rules, requests, runs, and the last revision
  MaxEnabled,    \* MAX_ENABLED_CUSTOM_RULES
  MaxUngated,    \* MAX_UNFILTERED_RULES
  None

ASSUME RuleConstants ==
  /\ Family \in [Rules -> Rules \cup {None}] /\ None \notin Rules
  /\ Table \in [Rules -> {"cmdline", "graded", "plain", "code"}]
  /\ MaxEnabled \in Nat /\ MaxUngated \in Nat
  /\ \A s \in Scopes : s.last \in Nat /\ s.rules \subseteq Rules

VARIABLES
  scope,     \* BOUND: the member of Scopes this behaviour keeps to
  builtin,   \* builtin_rule_overrides, an untouched rule with its defaults
  custom,    \* custom_rules: id -> record
  revision,  \* rules_state.revision, 0 while there is no database
  cache,     \* _cached_profile
  request,   \* how far a mutating request has come
  load       \* how far a detection run has come with its profile

stored == <<scope, builtin, custom, revision>>
ruleVars == <<scope, builtin, custom, revision, cache, request, load>>

Idle == [at |-> "idle"]

RuleInit ==
  /\ scope \in Scopes
  /\ builtin = [r \in Rules |-> [enabled |-> TRUE, regraded |-> FALSE]]
  /\ custom = [c \in {} |-> None] /\ revision = 0 /\ cache = None
  /\ request = [q \in scope.requests |-> Idle] /\ load = [n \in scope.runs |-> Idle]

Families == {Family[r] : r \in Rules} \ {None}
Enabled == {c \in DOMAIN custom : custom[c].enabled}
Ungated == {c \in Enabled : ~custom[c].gated}

-----------------------------------------------------------------------------
(* The profile built from what was stored. *)

(* A member is off when its family is. *)
EffectiveDisabled(state) ==
  LET off == {r \in Rules : ~state[r].enabled}
  IN off \cup {r \in Rules : Family[r] \in off}

Legacies == UNION {Legacy[r] : r \in Rules}
Owners(l) == {r \in Rules : l \in Legacy[r]}

(* Mutant: One owner that is off silences the legacy id. *)
SilencedByAny(l, disabled) == Owners(l) \cap disabled # {}

Silenced(l, disabled) == Owners(l) \subseteq disabled

DefaultProfile ==
  [revision |-> 0, dropped |-> {}, regradedRows |-> {}, silenced |-> {}, regradedIds |-> {}, custom |-> {}]

build_profile(rev, state, rules) ==
  LET disabled == EffectiveDisabled(state)
      regraded == {r \in Rules : state[r].regraded}
  IN IF disabled = {} /\ regraded = {} /\ rules = {} THEN DefaultProfile
     ELSE [revision |-> rev,
           dropped |-> {r \in disabled : Table[r] # "code"},
           regradedRows |-> {r \in regraded \ disabled : Table[r] \in {"cmdline", "graded"}},
           silenced |-> {l \in Legacies : Silenced(l, disabled)},
           regradedIds |-> {l \in Legacies : Cardinality(Owners(l)) = 1 /\ Owners(l) \subseteq regraded},
           custom |-> rules]

(* The custom rules a profile carries, by whether they have a literal gate. *)
CustomSet == {<<c, custom[c].gated>> : c \in Enabled}

(* What becomes of a finding that rule r reports under id l.  _add_finding is
   given the profile of the run only for the rows of command lines; for every
   other finding it works with the default profile, which knows no ids. *)
AtFinding(r) == Table[r] = "cmdline"

Emits(profile, r, l) == r \notin profile.dropped /\ (AtFinding(r) => l \notin profile.silenced)
Regraded(profile, r, l) == r \in profile.regradedRows \/ (AtFinding(r) /\ l \in profile.regradedIds)

-----------------------------------------------------------------------------
(* Mutations.  Each holds the writer lock of the database from before it     *)
(* reads to its commit.                                                      *)

(* The change and the revision, in one transaction. *)
Commit(rows, state, q, next) ==
  /\ revision < scope.last  \* BOUND
  /\ custom' = rows /\ builtin' = state
  /\ revision' = (IF revision = 0 THEN 1 ELSE revision) + 1
  /\ request' = [request EXCEPT ![q] = next]

Committed == [at |-> "committed"]

(* set_builtin_state: a family has no severity of its own. *)
SetBuiltin(q, r, enabled, regraded) ==
  /\ request[q].at = "idle" /\ regraded => r \notin Families
  /\ Commit(custom, [builtin EXCEPT ![r] = [enabled |-> enabled, regraded |-> regraded]], q, Committed)
  /\ UNCHANGED <<scope, cache, load>>

WithRule(c, rule) == [i \in DOMAIN custom \cup {c} |-> IF i = c THEN rule ELSE custom[i]]

(* create_custom_rule, for one document that compiles. *)
Create(q, enabled, gated, next) ==
  /\ enabled => Cardinality(Enabled) < MaxEnabled
  /\ enabled /\ ~gated => Cardinality(Ungated) < MaxUngated
  /\ \E c \in scope.ids \ DOMAIN custom :
       Commit(WithRule(c, [enabled |-> enabled, gated |-> gated]), builtin, q, next)
  /\ UNCHANGED <<scope, cache, load>>

CreateCustom(q, enabled, gated) == request[q].at = "idle" /\ Create(q, enabled, gated, Committed)

(* The limits of update_custom_rule. *)
MayBecome(c, rule) ==
  /\ rule.enabled /\ ~custom[c].enabled => Cardinality(Enabled \ {c}) < MaxEnabled
  /\ rule.enabled /\ ~rule.gated => Cardinality(Ungated \ {c}) < MaxUngated

(* update_custom_rule: the text, which may lose its gate, the switch, or both. *)
UpdateCustom(q, c, rule) ==
  /\ request[q].at = "idle" /\ c \in DOMAIN custom
  /\ MayBecome(c, rule)
  /\ Commit(WithRule(c, rule), builtin, q, Committed)
  /\ UNCHANGED <<scope, cache, load>>

DeleteCustom(q, c) ==
  /\ request[q].at = "idle" /\ c \in DOMAIN custom
  /\ Commit([i \in DOMAIN custom \ {c} |-> custom[i]], builtin, q, Committed)
  /\ UNCHANGED <<scope, cache, load>>

(* A refused change still opens the database, which makes its first revision. *)
Refused(q) ==
  /\ request[q].at = "idle" /\ revision = 0
  /\ revision' = 1
  /\ UNCHANGED <<scope, builtin, custom, cache, request, load>>

(* fork_builtin: the copy is stored switched off; then, in a transaction of
   its own and only when asked for, the original is switched off. *)
Fork(q, r, gated, disable) ==
  /\ request[q].at = "idle" /\ Table[r] # "code" /\ r \notin Families
  /\ Create(q, FALSE, gated, IF disable THEN [at |-> "forked", rule |-> r] ELSE Committed)

ForkDisables(q) ==
  /\ request[q].at = "forked"
  /\ Commit(custom, [builtin EXCEPT ![request[q].rule].enabled = FALSE], q, Committed)
  /\ UNCHANGED <<scope, cache, load>>

(* import_rules: one transaction per document, switched off; a document that
   does not compile is reported and leaves nothing. *)
ImportDocument(q, gated) == request[q].at \in {"idle", "importing"} /\ Create(q, FALSE, gated, [at |-> "importing"])

(* Last, every mutating route drops the cached profile. *)
invalidate_cache(q) ==
  /\ request[q].at \in {"committed", "importing"}
  /\ cache' = None
  /\ request' = [request EXCEPT ![q] = Idle]
  /\ UNCHANGED <<stored, load>>

-----------------------------------------------------------------------------
(* load_profile, at the start of a detection run. *)

At(n, record) == load' = [load EXCEPT ![n] = record]
Loaded(rev, profile) == [at |-> "loaded", revision |-> rev, profile |-> profile]

(* The revision, if there is a database. *)
ReadRevision(n) ==
  /\ load[n].at = "idle"
  /\ At(n, IF revision = 0 THEN Loaded(0, DefaultProfile) ELSE [at |-> "revision", revision |-> revision])
  /\ UNCHANGED <<stored, cache, request>>

(* Mutant: A cached profile is used until it is dropped. *)
HitsAny(rev) == cache # None

Hits(rev) == cache # None /\ cache.revision = rev

UseCache(n) ==
  /\ load[n].at = "revision" /\ Hits(load[n].revision)
  /\ At(n, Loaded(load[n].revision, cache))
  /\ UNCHANGED <<stored, cache, request>>

ReadBuiltin(n) ==
  /\ load[n].at = "revision" /\ ~Hits(load[n].revision)
  /\ At(n, [at |-> "builtin", revision |-> load[n].revision, builtin |-> builtin])
  /\ UNCHANGED <<stored, cache, request>>

ReadCustom(n) ==
  /\ load[n].at = "builtin"
  /\ At(n, [at |-> "built", revision |-> load[n].revision,
            profile |-> build_profile(load[n].revision, load[n].builtin, CustomSet)])
  /\ UNCHANGED <<stored, cache, request>>

Store(n) ==
  /\ load[n].at = "built"
  /\ cache' = load[n].profile
  /\ At(n, Loaded(load[n].revision, load[n].profile))
  /\ UNCHANGED <<stored, request>>

(* The run ends, or the store could not be read and it goes on with the
   built-in rules. *)
RunEnds(n) ==
  /\ load[n].at \in {"revision", "builtin", "loaded"}
  /\ At(n, Idle)
  /\ UNCHANGED <<stored, cache, request>>

(* The process is restarted: the database stays. *)
Restart ==
  /\ cache' = None
  /\ request' = [q \in scope.requests |-> Idle] /\ load' = [n \in scope.runs |-> Idle]
  /\ UNCHANGED stored

-----------------------------------------------------------------------------
CustomRule == [enabled : BOOLEAN, gated : BOOLEAN]

RequestStep(q) ==
  \/ \E r \in scope.rules, enabled, regraded \in BOOLEAN : SetBuiltin(q, r, enabled, regraded)
  \/ \E enabled, gated \in BOOLEAN : CreateCustom(q, enabled, gated)
  \/ \E c \in scope.ids, rule \in CustomRule : UpdateCustom(q, c, rule)
  \/ \E c \in scope.ids : DeleteCustom(q, c)
  \/ \E r \in scope.rules, gated, disable \in BOOLEAN : Fork(q, r, gated, disable)
  \/ ForkDisables(q)
  \/ \E gated \in BOOLEAN : ImportDocument(q, gated)
  \/ Refused(q) \/ invalidate_cache(q)

RunStep(n) == ReadRevision(n) \/ UseCache(n) \/ ReadBuiltin(n) \/ ReadCustom(n) \/ Store(n) \/ RunEnds(n)

RuleNext == (\E q \in scope.requests : RequestStep(q)) \/ (\E n \in scope.runs : RunStep(n)) \/ Restart

RuleSpec == RuleInit /\ [][RuleNext]_ruleVars

-----------------------------------------------------------------------------
(* A run whose rules did not change since it read the revision works with the
   rules as they are, cached or not, whatever other loads and invalidations
   overtook each other before (profile.py:315, store.py:3). *)
QuietLoadIsExact ==
  \A n \in scope.runs :
    load[n].at = "loaded" /\ load[n].revision = revision =>
      load[n].profile = build_profile(revision, builtin, CustomSet)

(* Switching rules off and regrading them touches no other rule, though rules
   share legacy ids and families (profile.py:218): a rule with rows reports
   under each of its ids exactly when it is on, a rule in engine code whatever
   was switched, and a rule that is on has another severity exactly when it was
   given one and its rows have a severity. *)
RulesStayApart ==
  LET profile == build_profile(revision, builtin, CustomSet)
      On(r) == r \notin EffectiveDisabled(builtin)
  IN \A r \in Rules \ Families : \A l \in Legacy[r] :
       /\ Emits(profile, r, l) = (On(r) \/ Table[r] = "code")
       /\ On(r) => Regraded(profile, r, l) = (builtin[r].regraded /\ Table[r] \in {"cmdline", "graded"})

(* A rule that is switched off reports nothing, as the profile promises for
   rules in engine code too (profile.py:84). *)
SwitchedOffIsSilent ==
  LET profile == build_profile(revision, builtin, CustomSet)
  IN \A r \in EffectiveDisabled(builtin) : \A l \in Legacy[r] : ~Emits(profile, r, l)
=============================================================================
