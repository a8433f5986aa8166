----------------------------- MODULE TableProofs -----------------------------
(***************************************************************************)
(* Proofs about the components that are built on a table written down in   *)
(* the source: the routes and their AuthConfigs, the revisions of the      *)
(* schema, the locales that are seeded.                                    *)
(*                                                                         *)
(* What the tables have to be like is assumed by name in the modules and   *)
(* evaluated by every run of them; what concurrent requests, a command     *)
(* that fails half way and a cache that is written key by key make of them *)
(* is proved.                                                              *)
(***************************************************************************)
EXTENDS Dispatch, Migrations, Locales, TLAPS, WellFoundedInduction

\* The least of some positions.
LEMMA FirstPosition ==
  ASSUME NEW S, S \subseteq Nat, S # {}
  PROVE  Min(S) \in S /\ \A k \in S : Min(S) <= k
<1>1. PICK n \in S : \A k \in S : ~(<<k, n>> \in OpToRel(<, Nat))
  BY NatLessThanWellFounded, WFMin, Zenon
<1>2. \A k \in S : n <= k
  <2> TAKE k \in S
  <2>1. k \in Nat /\ n \in Nat
    OBVIOUS
  <2>2. k < n => <<k, n>> \in OpToRel(<, Nat)
    BY <2>1, Zenon DEF OpToRel
  <2>3. ~(k < n)
    BY <1>1, <2>2
  <2> QED
    BY <2>1, <2>3
<1>3. \E m \in S : \A k \in S : m <= k
  BY <1>2
<1> QED
  BY <1>3, Zenon DEF Min

-----------------------------------------------------------------------------
(* Dispatch.  A request keeps its method and path from the middleware to   *)
(* the framework, and both search one table.                               *)

DispatchInv ==
  /\ incoming = Nobody \/ \E app \in {"admin", "api"} : \E i \in DOMAIN Application(app) : incoming = RequestFor(app, i)
  /\ enforced # 0 => incoming # Nobody
                     /\ enforced = _get_auth_config_from_route(incoming.app, incoming.method, incoming.path)
  /\ handled # 0 => enforced # 0 /\ handled = Dispatched(incoming.app, incoming.method, incoming.path)

\* The route the framework runs is in the table and has the request's method,
\* whatever the request.
LEMMA DispatchedMatches ==
  ASSUME NEW app \in {"admin", "api"}, NEW method, NEW path, Dispatched(app, method, path) # 0
  PROVE  /\ Dispatched(app, method, path) \in DOMAIN Application(app)
         /\ Application(app)[Dispatched(app, method, path)].method = method
<1>1. PICK table : table = Application(app)
  OBVIOUS
<1>2. Len(table) \in Nat /\ DOMAIN table = 1 .. Len(table)
  BY <1>1, RouteTablesAssumption
<1> DEFINE found == {i \in 1 .. Len(table) : Matches(table[i], method, path)}
<1>3. Dispatched(app, method, path) = IF found # {} THEN Min(found) ELSE 0
  BY <1>1 DEF Dispatched, SelectInSeq
<1>4. found # {} /\ found \subseteq Nat
  BY <1>2, <1>3
<1>5. Min(found) \in found
  BY <1>4, FirstPosition
<1>6. Dispatched(app, method, path) \in found
  <2> HIDE DEF found
  <2> QED
    BY <1>3, <1>4, <1>5
<1> QED
  BY <1>1, <1>2, <1>6 DEF Matches

\* Every step keeps the invariant.
LEMMA DispatchInvStep == ASSUME DispatchInv, [DispatchNext]_dispatchVars PROVE DispatchInv'
<1>1. ASSUME NEW app \in {"admin", "api"}, NEW i \in DOMAIN Application(app), Arrive(app, i) PROVE DispatchInv'
  <2>1. incoming = Nobody /\ incoming' = RequestFor(app, i) /\ UNCHANGED <<enforced, handled>>
    BY <1>1 DEF Arrive
  <2>2. enforced = 0 /\ handled = 0
    BY <2>1 DEF DispatchInv
  <2> QED
    BY <2>1, <2>2 DEF DispatchInv
<1>2. ASSUME Enforce PROVE DispatchInv'
  BY <1>2 DEF Enforce, DispatchInv
<1>3. ASSUME Handle PROVE DispatchInv'
  BY <1>3 DEF Handle, DispatchInv
<1>4. ASSUME Answer PROVE DispatchInv'
  BY <1>4 DEF Answer, DispatchInv
<1>5. ASSUME UNCHANGED dispatchVars PROVE DispatchInv'
  BY <1>5 DEF dispatchVars, DispatchInv
<1> QED
  BY <1>1, <1>2, <1>3, <1>4, <1>5 DEF DispatchNext

\* Every request runs its own endpoint under that endpoint's AuthConfig, and in
\* the admin application no change of data goes without a permission code
\* (AuthRouter, _get_auth_config_from_route): the two searches are one, and what
\* a search finds has the request's method.
THEOREM OwnEndpointOwnConfigHolds == DispatchSpec => []OwnEndpointOwnConfig
<1>1. DispatchInit => DispatchInv
  BY DEF DispatchInit, DispatchInv
<1>2. DispatchInv /\ [DispatchNext]_dispatchVars => DispatchInv'
  BY DispatchInvStep
<1>3. DispatchInv => OwnEndpointOwnConfig
  <2> SUFFICES ASSUME DispatchInv, handled # 0 PROVE OwnEndpointOwnConfig
    BY DEF OwnEndpointOwnConfig
  <2>0. PICK app \in {"admin", "api"} : \E i \in DOMAIN Application(app) : incoming = RequestFor(app, i)
    BY DEF DispatchInv
  <2>1. PICK i \in DOMAIN Application(app) : incoming = RequestFor(app, i)
    BY <2>0
  <2>2. incoming.app = app /\ incoming.route = i
    BY <2>1 DEF RequestFor
  <2>3. PICK method, path : method = incoming.method /\ path = incoming.path
    OBVIOUS
  <2>4. handled = Dispatched(app, method, path) /\ enforced = handled
    BY <2>2, <2>3 DEF DispatchInv, _get_auth_config_from_route, Dispatched
  <2>5. handled \in DOMAIN Application(app) /\ Application(app)[handled].method = method
    BY <2>4, DispatchedMatches
  <2>6. Application(app)[i].endpoint \notin Shadowed => handled = i
    BY <2>1, <2>3, <2>4, RouteTablesAssumption
  <2>7. app = "admin" /\ method # "GET" /\ Application(app)[handled].endpoint \notin SelfService
          => /\ Application(app)[handled].config.codes # {}
             /\ Application(app)[handled].config.is_admin
             /\ Application(app)[handled].config.require_auth
    BY <2>5, RouteTablesAssumption
  <2> QED
    BY <2>2, <2>3, <2>4, <2>6, <2>7 DEF OwnEndpointOwnConfig
<1> QED
  BY <1>1, <1>2, <1>3, PTL DEF DispatchSpec

-----------------------------------------------------------------------------
(* Migrations.  A command keeps the version it started from until it       *)
(* commits, and its own copy of the tables is, at each statement, what the *)
(* statements before it make of a schema that version stands for.          *)

JobRecord(j) ==
  j = [target |-> j.target, at |-> j.at, db |-> j.db, pos |-> j.pos, filled |-> j.filled]

JobScript(j) == IF j.target > j.at THEN Upgrades[j.at + 1] ELSE Downgrades[j.at]

JobAtStage(j) ==
  /\ JobRecord(j)
  /\ j.target \in 0..LastRevision /\ j.at \in 0..LastRevision
  /\ j.at = j.target => j.pos = 1 /\ j.db \in SchemasAt(j.at)
  /\ j.at # j.target => \E schema \in SchemasAt(j.at) :
                           j.pos \in 1..(Len(JobScript(j)) + 1) /\ j.db = Stages(schema, JobScript(j))[j.pos]

MigrationInv ==
  /\ at \in 0..LastRevision
  /\ db \in SchemasAt(at)
  /\ job = NoJob \/ JobAtStage(job)

\* The revisions are numbered from one.
LEMMA RevisionsNumbered == LastRevision \in Nat /\ 1 \in 0..LastRevision /\ LastRevision # 1
<1>1. LastRevision = 19
  BY DEF LastRevision, Upgrades
<1> QED
  BY <1>1

\* What RevisionsAssumption says of the script a command runs next: it leads
\* from any schema of its version to one of the next version on its way.
LEMMA ScriptLeads ==
  ASSUME NEW from \in 0..LastRevision, NEW to \in 0..LastRevision, from # to,
         NEW schema \in SchemasAt(from)
  PROVE  LET script == IF to > from THEN Upgrades[from + 1] ELSE Downgrades[from]
             next == IF to > from THEN from + 1 ELSE from - 1
         IN  next \in 0..LastRevision /\ Leads(schema, script, SchemasAt(next))
<1> USE RevisionsNumbered
<1>1. CASE to > from
  <2>1. from < LastRevision /\ from + 1 \in 0..LastRevision
    BY <1>1
  <2> QED
    BY <1>1, <2>1, RevisionsAssumption
<1>2. CASE ~(to > from)
  <2>1. from > 0 /\ from - 1 \in 0..LastRevision
    BY <1>2
  <2> QED
    BY <1>2, <2>1, RevisionsAssumption
<1> QED
  BY <1>1, <1>2

\* A command that stands before a revision with a schema of its version stands
\* at the first stage of it, or is done.
LEMMA StartsAtStage ==
  ASSUME NEW j, JobRecord(j), j.target \in 0..LastRevision, j.at \in 0..LastRevision,
         j.pos = 1, j.db \in SchemasAt(j.at)
  PROVE  JobAtStage(j)
<1>1. CASE j.at = j.target
  BY <1>1 DEF JobAtStage
<1>2. CASE j.at # j.target
  <2>1. Leads(j.db, JobScript(j), SchemasAt(IF j.target > j.at THEN j.at + 1 ELSE j.at - 1))
    BY <1>2, ScriptLeads DEF JobScript
  <2>2. Len(JobScript(j)) \in Nat /\ Stages(j.db, JobScript(j))[1] = j.db
    BY <2>1 DEF Leads
  <2> QED
    BY <1>2, <2>2 DEF JobAtStage
<1> QED
  BY <1>1, <1>2

\* Every command keeps the invariant, wherever it fails.
LEMMA MigrationInvStep == ASSUME MigrationInv, [MigrationNext]_migrationVars PROVE MigrationInv'
<1> USE DEF MigrationInv
<1>1. ASSUME NEW target \in {at - 1, at + 1, 0, LastRevision} \cap (0..LastRevision), NEW filled,
             StartJob(target, filled)
      PROVE  MigrationInv'
  <2>1. PICK j : j = [target |-> target, at |-> at, db |-> db, pos |-> 1, filled |-> filled]
    OBVIOUS
  <2>2. JobRecord(j) /\ j.target = target /\ j.at = at /\ j.db = db /\ j.pos = 1
    BY <2>1 DEF JobRecord
  <2>3. JobAtStage(j)
    BY <2>2, StartsAtStage
  <2> QED
    BY <1>1, <2>1, <2>3 DEF StartJob
<1>2. ASSUME RunStatement PROVE MigrationInv'
  <2>1. PICK j : j = job
    OBVIOUS
  <2>2. JobAtStage(j) /\ j.at # j.target /\ j.pos <= Len(JobScript(j)) /\ Script = JobScript(j)
    BY <1>2, <2>1 DEF RunStatement, Running, Script, JobScript
  <2>3. PICK schema \in SchemasAt(j.at) :
          j.pos \in 1..(Len(JobScript(j)) + 1) /\ j.db = Stages(schema, JobScript(j))[j.pos]
    BY <2>2 DEF JobAtStage
  <2>4. Leads(schema, JobScript(j), SchemasAt(IF j.target > j.at THEN j.at + 1 ELSE j.at - 1))
    BY <2>2, ScriptLeads DEF JobScript, JobAtStage
  <2>5. PICK k : k = [j EXCEPT !.db = Effect(j.db, JobScript(j)[j.pos]), !.pos = j.pos + 1]
    OBVIOUS
  <2>6. /\ k.target = j.target /\ k.at = j.at /\ k.filled = j.filled /\ k.pos = j.pos + 1
        /\ k.db = Effect(j.db, JobScript(j)[j.pos]) /\ JobRecord(k)
    BY <2>2, <2>5 DEF JobAtStage, JobRecord
  <2>7. JobScript(k) = JobScript(j)
    BY <2>6 DEF JobScript
  <2>8. j.pos \in 1..Len(JobScript(j)) /\ k.pos \in 1..(Len(JobScript(j)) + 1)
        /\ k.db = Stages(schema, JobScript(j))[k.pos]
    BY <2>2, <2>3, <2>4, <2>6 DEF Leads
  <2>9. JobAtStage(k)
    BY <2>2, <2>6, <2>7, <2>8 DEF JobAtStage
  <2>10. job' = k /\ UNCHANGED <<at, db>>
    BY <1>2, <2>1, <2>2, <2>5 DEF RunStatement
  <2> QED
    BY <2>9, <2>10
<1>3. ASSUME NextRevision PROVE MigrationInv'
  <2>1. PICK j : j = job
    OBVIOUS
  <2>2. JobAtStage(j) /\ j.at # j.target /\ j.pos > Len(JobScript(j)) /\ Script = JobScript(j)
    BY <1>3, <2>1 DEF NextRevision, Script, JobScript
  <2>3. PICK schema \in SchemasAt(j.at) :
          j.pos \in 1..(Len(JobScript(j)) + 1) /\ j.db = Stages(schema, JobScript(j))[j.pos]
    BY <2>2 DEF JobAtStage
  <2>4. PICK next : next = IF j.target > j.at THEN j.at + 1 ELSE j.at - 1
    OBVIOUS
  <2>5. next \in 0..LastRevision /\ Leads(schema, JobScript(j), SchemasAt(next))
    BY <2>2, <2>4, ScriptLeads DEF JobScript, JobAtStage
  <2>6. j.pos = Len(JobScript(j)) + 1 /\ j.db \in SchemasAt(next)
    BY <2>2, <2>3, <2>5 DEF Leads
  <2>7. PICK k : k = [j EXCEPT !.at = next, !.pos = 1]
    OBVIOUS
  <2>8. k.target = j.target /\ k.at = next /\ k.db = j.db /\ k.pos = 1 /\ JobRecord(k)
    BY <2>2, <2>7 DEF JobAtStage, JobRecord
  <2>9. JobAtStage(k)
    BY <2>2, <2>5, <2>6, <2>8, StartsAtStage DEF JobAtStage
  <2>10. job' = k /\ UNCHANGED <<at, db>>
    BY <1>3, <2>1, <2>4, <2>7 DEF NextRevision
  <2> QED
    BY <2>9, <2>10
<1>4. ASSUME CommitJob PROVE MigrationInv'
  BY <1>4 DEF CommitJob, JobAtStage
<1>5. ASSUME FailJob PROVE MigrationInv'
  BY <1>5 DEF FailJob
<1>6. ASSUME UNCHANGED migrationVars PROVE MigrationInv'
  BY <1>6 DEF migrationVars
<1> QED
  BY <1>1, <1>2, <1>3, <1>4, <1>5, <1>6 DEF MigrationNext

\* The version tells the schema after any commands up and down, with rows or
\* without, wherever one of them failed (alembic/env.py: a command is one
\* transaction); RevisionsAssumption, which TLC evaluates, is what it needs to
\* know of each revision alone.
THEOREM VersionTellsTheSchemaHolds == MigrationSpec => []VersionTellsTheSchema
<1>1. MigrationInit => MigrationInv
  <2> USE RevisionsNumbered
  <2>1. SchemaAt[0] \in SchemasAt(0) /\ Legacy \in SchemasAt(1)
    BY DEF SchemasAt
  <2> QED
    BY <2>1, RevisionsAssumption DEF MigrationInit, MigrationInv
<1>2. MigrationInv /\ [MigrationNext]_migrationVars => MigrationInv'
  BY MigrationInvStep
<1>3. MigrationInv => VersionTellsTheSchema
  BY DEF MigrationInv, VersionTellsTheSchema
<1> QED
  BY <1>1, <1>2, <1>3, PTL DEF MigrationSpec

\* At the last revision the tables are those of the ORM classes, however the
\* database got there (alembic/env.py, models/).
THEOREM HeadIsTheModelsHolds == MigrationSpec => []HeadIsTheModels
<1>1. VersionTellsTheSchema => HeadIsTheModels
  BY RevisionsNumbered, HeadAssumption DEF VersionTellsTheSchema, HeadIsTheModels, SchemasAt
<1> QED
  BY <1>1, VersionTellsTheSchemaHolds, PTL

-----------------------------------------------------------------------------
(* Locales.  Whatever the workers write over one another, a key of Redis   *)
(* holds what one snapshot of the table, empty or seeded, has for it; the  *)
(* snapshots of the seeded table differ in the order of one language only. *)

Seeded == TablesOf(SeededLocales)
Snapshots == Seeded \cup TablesOf({})

MetaOf(t) == [there |-> TRUE, default_locale |-> t.default_locale,
              active_locales |-> t.active_locales, language_buckets |-> t.language_buckets]
MapOf(map) == [there |-> TRUE, map |-> map]

MetaHolds(k) == k = Missing \/ \E t \in Snapshots : k = MetaOf(t)
NormHolds(k) == k = Missing \/ \E t \in Seeded : k = MapOf(t.normalized_map)
NormIdHolds(k) == k = Missing \/ \E t \in Seeded : k = MapOf(t.normalized_id_map)
KeysHold(keys) ==
  /\ keys = [meta |-> keys.meta, norm |-> keys.norm, norm_id |-> keys.norm_id]
  /\ MetaHolds(keys.meta) /\ NormHolds(keys.norm) /\ NormIdHolds(keys.norm_id)

\* The codes that were asked for are those of one snapshot.
CodesOf(t, buckets) == \A language \in DOMAIN buckets : buckets[language] = BucketOf(t, language)
BucketsOfOne(buckets) == \E t \in Seeded : CodesOf(t, buckets)

\* The detector asks for no other language.
Final(found) == found.ask = ""

WriteSteps == {"clear", "hset_meta", "hset_norm", "hset_norm_id"}
ReadSteps == {"meta", "norm", "norm_id", "list_all"}

UnderWay(r) ==
  /\ r = [at |-> r.at, header |-> r.header, after_seed |-> r.after_seed, seen |-> r.seen,
          snapshot |-> r.snapshot, buckets |-> r.buckets, ask |-> r.ask, new |-> r.new]
  /\ r.at \in ReadSteps \cup WriteSteps
  /\ r.header \in Headers
  /\ KeysHold(r.seen)
  /\ r.at \in WriteSteps => r.new \in Snapshots
  /\ r.after_seed =>
       /\ r.at \in WriteSteps => r.new \in Seeded
       /\ r.ask # "" => r.snapshot \in Seeded
       /\ BucketsOfOne(r.buckets)

AnswerOfTable(r) ==
  r.after_seed => \E t \in Seeded :
    [ask |-> "", code |-> r.code, id |-> r.id] = locale_detector(t, Buckets(t, r.header), r.header)

ReaderHolds(r) ==
  \/ r = Waiting
  \/ r.at = "answered" /\ AnswerOfTable(r)
  \/ UnderWay(r)

SeedSeen(r) == r # Waiting /\ r.after_seed => localeRows = SeededLocales

ReadersHold ==
  /\ reader = [w \in LocaleWorkers |-> reader[w]]
  /\ \A w \in LocaleWorkers : ReaderHolds(reader[w]) /\ SeedSeen(reader[w])

LocaleInv ==
  /\ localeRows \in {{}, SeededLocales}
  /\ KeysHold(redis)
  /\ ReadersHold

\* A snapshot has these five fields, and its maps are functions.
LEMMA SnapshotShape ==
  ASSUME NEW rows, NEW t \in TablesOf(rows)
  PROVE  /\ t = [active_locales |-> t.active_locales, default_locale |-> t.default_locale,
                 normalized_map |-> t.normalized_map, normalized_id_map |-> t.normalized_id_map,
                 language_buckets |-> t.language_buckets]
         /\ t.normalized_map = [key \in DOMAIN t.normalized_map |-> t.normalized_map[key]]
         /\ t.normalized_id_map = [key \in DOMAIN t.normalized_id_map |-> t.normalized_id_map[key]]
<1>1. PICK order : t = _build_snapshot_from_locales(order)
  BY DEF TablesOf
<1> QED
  BY <1>1 DEF _build_snapshot_from_locales

\* Two snapshots of the seeded table have the same codes for every language
\* but one.
LEMMA SameBuckets ==
  ASSUME NEW t \in Seeded, NEW u \in Seeded, NEW language, language # "zh"
  PROVE  BucketOf(t, language) = BucketOf(u, language)
<1>1. CASE language \in DOMAIN t.language_buckets \cup DOMAIN u.language_buckets
  BY <1>1, SeedAssumption DEF Seeded
<1>2. CASE language \notin DOMAIN t.language_buckets \cup DOMAIN u.language_buckets
  BY <1>2 DEF BucketOf
<1> QED
  BY <1>1, <1>2

\* The codes of one more language still are those of one snapshot.
LEMMA OneMoreLanguage ==
  ASSUME NEW buckets, BucketsOfOne(buckets), NEW s \in Seeded, NEW ask, NEW more,
         DOMAIN more = DOMAIN buckets \cup {ask},
         \A language \in DOMAIN more :
           more[language] = IF language = ask THEN BucketOf(s, ask) ELSE buckets[language]
  PROVE  BucketsOfOne(more)
<1>1. PICK t \in Seeded : \A language \in DOMAIN buckets : buckets[language] = BucketOf(t, language)
  BY DEF BucketsOfOne, CodesOf
<1>2. CASE ask = "zh"
  <2>1. \A language \in DOMAIN more : more[language] = BucketOf(s, language)
    BY <1>1, <1>2, SameBuckets
  <2> QED
    BY <2>1 DEF BucketsOfOne, CodesOf
<1>3. CASE ask # "zh"
  <2>1. \A language \in DOMAIN more : more[language] = BucketOf(t, language)
    BY <1>1, <1>3, SameBuckets
  <2> QED
    BY <2>1 DEF BucketsOfOne, CodesOf
<1> QED
  BY <1>2, <1>3

\* HSET over a key that holds the map of a snapshot, or over none, leaves the
\* map of a snapshot: those of the seeded table are one map, that of the empty
\* table has no field to send.
LEMMA MergedHolds ==
  ASSUME NEW old, NEW map, NEW full,
         full = [key \in DOMAIN full |-> full[key]], full # [key \in {} |-> NoCode],
         old = Missing \/ old = MapOf(full),
         map = [key \in {} |-> NoCode] \/ map = full
  PROVE  Merged(old, map) = old \/ Merged(old, map) = MapOf(full)
<1>1. CASE map = [key \in {} |-> NoCode]
  BY <1>1 DEF Merged
<1>2. CASE map = full /\ old = Missing
  BY <1>2 DEF Merged, Missing, MapOf
<1>3. CASE map = full /\ old = MapOf(full)
  BY <1>3 DEF Merged, MapOf
<1> QED
  BY <1>1, <1>2, <1>3

\* A snapshot that get_snapshot takes for complete is one of the seeded table,
\* wherever its three keys come from.
LEMMA CompleteIsSeeded ==
  ASSUME NEW seen, KeysHold(seen), NEW s \in get_snapshot(seen)
  PROVE  s \in Seeded
<1>1. seen.meta.there /\ seen.norm.there /\ seen.norm_id.there /\ seen.meta.default_locale # NoCode
  BY DEF get_snapshot
<1>2. s = [active_locales |-> seen.meta.active_locales, default_locale |-> seen.meta.default_locale,
           normalized_map |-> seen.norm.map, normalized_id_map |-> seen.norm_id.map,
           language_buckets |-> seen.meta.language_buckets]
  BY DEF get_snapshot
<1>3. seen.meta # Missing /\ seen.norm # Missing /\ seen.norm_id # Missing
  BY <1>1 DEF Missing
<1>4. PICK t \in Snapshots : seen.meta = MetaOf(t)
  BY <1>3 DEF KeysHold, MetaHolds
<1>5. t.default_locale = seen.meta.default_locale /\ t.active_locales = seen.meta.active_locales
      /\ t.language_buckets = seen.meta.language_buckets
  BY <1>4 DEF MetaOf
<1>6. t \in Seeded
  BY <1>1, <1>5, SeedAssumption DEF Snapshots
<1>7. PICK u \in Seeded : seen.norm = MapOf(u.normalized_map)
  BY <1>3 DEF KeysHold, NormHolds
<1>8. PICK v \in Seeded : seen.norm_id = MapOf(v.normalized_id_map)
  BY <1>3 DEF KeysHold, NormIdHolds
<1>9. seen.norm.map = t.normalized_map /\ seen.norm_id.map = t.normalized_id_map
  BY <1>6, <1>7, <1>8, SeedAssumption DEF MapOf, Seeded
<1>10. t = [active_locales |-> t.active_locales, default_locale |-> t.default_locale,
            normalized_map |-> t.normalized_map, normalized_id_map |-> t.normalized_id_map,
            language_buckets |-> t.language_buckets]
  BY <1>6, SnapshotShape DEF Seeded
<1>11. s = t
  BY <1>2, <1>5, <1>9, <1>10
<1> QED
  BY <1>6, <1>11

\* With the codes of some languages, one range leads where it leads with the
\* codes of all of them, unless its language has yet to be asked for.
LEMMA MatchedSame ==
  ASSUME NEW s \in Seeded, NEW t \in Seeded, NEW some, NEW all, NEW range,
         _extract_locale_parts(range).language \in DOMAIN all,
         _extract_locale_parts(range).language \in DOMAIN some =>
           some[_extract_locale_parts(range).language] = all[_extract_locale_parts(range).language]
  PROVE  \/ Matched(s, some, range) = Matched(t, all, range)
         \/ /\ Matched(s, some, range).is = "ask"
            /\ Matched(s, some, range).code[1] # ""
<1>1. s.default_locale = t.default_locale /\ s.active_locales = t.active_locales
      /\ s.normalized_map = t.normalized_map
  BY SeedAssumption DEF Seeded
<1>2. PICK language : language = _extract_locale_parts(range).language
  OBVIOUS
<1>3. CASE language \in DOMAIN some
  <2>1. some[language] = all[language]
    BY <1>2, <1>3
  <2>2. Matched(s, some, range) = Matched(t, all, range)
    BY <1>1, <1>2, <1>3, <2>1 DEF Matched
  <2> QED
    BY <2>2
<1>4. CASE language \notin DOMAIN some
  BY <1>1, <1>2, <1>4 DEF Matched
<1> QED
  BY <1>3, <1>4

\* An answer found with the codes of some languages is the one the whole table
\* gives: the ranges before it lead nowhere either way.
LEMMA DetectorSame ==
  ASSUME NEW s \in Seeded, NEW t \in Seeded, NEW header \in Headers, NEW some,
         CodesOf(t, some), Final(locale_detector(s, some, header))
  PROVE  locale_detector(s, some, header) = locale_detector(t, Buckets(t, header), header)
<1>1. PICK all : all = Buckets(t, header)
  OBVIOUS
<1>2. PICK ranges : ranges = _parse_accept_language(header)
  OBVIOUS
<1>3. DOMAIN ranges = 1 .. Len(header) /\ DOMAIN ranges \subseteq Nat
  BY <1>2, HeaderAssumption DEF _parse_accept_language
<1> DEFINE here(i) == Matched(s, some, ranges[i])
           there(i) == Matched(t, all, ranges[i])
           foundHere == {i \in DOMAIN ranges : here(i).is # "skip"}
           foundThere == {i \in DOMAIN ranges : there(i).is # "skip"}
<1>4. ASSUME NEW i \in DOMAIN ranges
      PROVE  here(i) = there(i) \/ (here(i).is = "ask" /\ here(i).code[1] # "")
  <2>1. PICK language : language = _extract_locale_parts(ranges[i]).language
    OBVIOUS
  <2>2. ranges[i] \in Range(ranges)
    BY DEF Range
  <2>3. language \in DOMAIN all /\ all[language] = BucketOf(t, language)
    BY <1>1, <1>2, <2>1, <2>2 DEF Buckets
  <2>4. language \in DOMAIN some => some[language] = all[language]
    BY <2>3 DEF CodesOf
  <2>5. PICK range : range = ranges[i]
    OBVIOUS
  <2>6. /\ _extract_locale_parts(range).language \in DOMAIN all
        /\ _extract_locale_parts(range).language \in DOMAIN some =>
             some[_extract_locale_parts(range).language] = all[_extract_locale_parts(range).language]
    BY <2>1, <2>3, <2>4, <2>5, Zenon
  <2>7. \/ Matched(s, some, range) = Matched(t, all, range)
        \/ Matched(s, some, range).is = "ask" /\ Matched(s, some, range).code[1] # ""
    BY <2>6, MatchedSame, Zenon
  <2> QED
    BY <2>5, <2>7, Zenon
<1>5. locale_detector(s, some, header) =
        LET code == IF foundHere = {} THEN s.default_locale ELSE here(Min(foundHere)).code
        IN  IF foundHere # {} /\ here(Min(foundHere)).is = "ask"
            THEN [ask |-> here(Min(foundHere)).code[1], code |-> NoCode, id |-> NoCode]
            ELSE [ask |-> "", code |-> code, id |-> IF code = NoCode THEN NoCode ELSE get_locale_id(s, code)]
  BY <1>2 DEF locale_detector
<1>6. locale_detector(t, all, header) =
        LET code == IF foundThere = {} THEN t.default_locale ELSE there(Min(foundThere)).code
        IN  IF foundThere # {} /\ there(Min(foundThere)).is = "ask"
            THEN [ask |-> there(Min(foundThere)).code[1], code |-> NoCode, id |-> NoCode]
            ELSE [ask |-> "", code |-> code, id |-> IF code = NoCode THEN NoCode ELSE get_locale_id(t, code)]
  BY <1>2 DEF locale_detector
<1>7. s.default_locale = t.default_locale /\ s.normalized_id_map = t.normalized_id_map
  BY SeedAssumption DEF Seeded
<1>8. \A code : get_locale_id(s, code) = get_locale_id(t, code)
  BY <1>7 DEF get_locale_id
<1>9. foundThere \subseteq foundHere /\ foundHere \subseteq Nat
  BY <1>3, <1>4
<1>10. CASE foundHere = {}
  <2>1. foundThere = {}
    BY <1>9, <1>10
  <2> HIDE DEF foundHere, foundThere, here, there
  <2> QED
    BY <1>1, <1>5, <1>6, <1>7, <1>8, <1>10, <2>1
<1>11. CASE foundHere # {}
  <2>1. PICK m : m = Min(foundHere)
    OBVIOUS
  <2>2. m \in foundHere /\ \A k \in foundHere : m <= k
    BY <1>9, <1>11, <2>1, FirstPosition
  <2>3. m \in DOMAIN ranges /\ here(m).is # "skip"
    BY <2>2
  <2>4. here(m) = there(m) /\ here(m).is # "ask"
    <3>1. ~(here(m).is = "ask" /\ here(m).code[1] # "")
      <4> HIDE DEF foundHere, here
      <4>1. here(m).is = "ask" =>
              locale_detector(s, some, header) = [ask |-> here(m).code[1], code |-> NoCode, id |-> NoCode]
        BY <1>5, <1>11, <2>1
      <4>2. PICK d : d = locale_detector(s, some, header)
        OBVIOUS
      <4>3. d.ask = ""
        BY <4>2 DEF Final
      <4>4. here(m).is = "ask" => d.ask = here(m).code[1]
        BY <4>1, <4>2
      <4> QED
        BY <4>3, <4>4
    <3>2. here(m) = there(m)
      BY <1>4, <2>3, <3>1
    <3>3. here(m).is = "ask" => here(m).code[1] # ""
      BY DEF Matched
    <3> QED
      BY <3>1, <3>2, <3>3
  <2>5. m \in foundThere /\ \A k \in foundThere : m <= k
    BY <1>9, <2>2, <2>3, <2>4
  <2>6. Min(foundThere) = m
    <3>1. foundThere \subseteq Nat /\ foundThere # {}
      BY <1>9, <2>5
    <3>2. Min(foundThere) \in foundThere /\ \A k \in foundThere : Min(foundThere) <= k
      BY <3>1, FirstPosition
    <3>3. PICK n : n = Min(foundThere)
      OBVIOUS
    <3>4. n \in Nat /\ m \in Nat /\ n <= m /\ m <= n
      BY <2>5, <3>1, <3>2, <3>3
    <3>5. n = m
      BY <3>4
    <3> QED
      BY <3>3, <3>5, Zenon
  <2>7. foundThere # {}
    BY <2>5
  <2> HIDE DEF foundHere, foundThere, here, there
  <2> QED
    BY <1>1, <1>5, <1>6, <1>8, <1>11, <2>1, <2>4, <2>6, <2>7
<1> QED
  BY <1>10, <1>11

\* A detector that goes on with one more snapshot answers as the table or asks
\* again, with what it knows still of one table.
LEMMA ContinuedHolds ==
  ASSUME NEW r, UnderWay(r), NEW s, r.after_seed => s \in Seeded
  PROVE  /\ ReaderHolds(Continued(r, s))
         /\ Continued(r, s) # Waiting
         /\ Continued(r, s).after_seed = r.after_seed
<1>1. PICK first : first = IF r.ask = "" THEN s ELSE r.snapshot
  OBVIOUS
<1>2. PICK buckets : buckets = IF r.ask = "" THEN r.buckets
                               ELSE [language \in DOMAIN r.buckets \cup {r.ask} |->
                                       IF language = r.ask THEN BucketOf(s, r.ask) ELSE r.buckets[language]]
  OBVIOUS
<1>3. PICK found : found = locale_detector(first, buckets, r.header)
  OBVIOUS
<1>4. r.after_seed => first \in Seeded
  BY <1>1 DEF UnderWay
<1>5. r.after_seed => BucketsOfOne(buckets)
  <2>1. CASE r.ask = ""
    BY <1>2, <2>1 DEF UnderWay
  <2>2. CASE r.ask # ""
    <3>1. buckets = [language \in DOMAIN r.buckets \cup {r.ask} |->
                       IF language = r.ask THEN BucketOf(s, r.ask) ELSE r.buckets[language]]
      BY <1>2, <2>2, Zenon
    <3>2. r.after_seed => BucketsOfOne(r.buckets) /\ s \in Seeded
      BY DEF UnderWay
    <3>3. PICK known, ask : known = r.buckets /\ ask = r.ask
      OBVIOUS
    <3>4. ASSUME r.after_seed PROVE BucketsOfOne(buckets)
      <4>1. BucketsOfOne(known) /\ s \in Seeded
        BY <3>2, <3>3, <3>4
      <4>2. DOMAIN buckets = DOMAIN known \cup {ask}
        BY <3>1, <3>3
      <4>3. \A language \in DOMAIN buckets :
              buckets[language] = IF language = ask THEN BucketOf(s, ask) ELSE known[language]
        BY <3>1, <3>3
      <4> QED
        BY <4>1, <4>2, <4>3, OneMoreLanguage
    <3> QED
      BY <3>4
  <2> QED
    BY <2>1, <2>2
<1>6. Continued(r, s) =
        IF found.ask = ""
        THEN [at |-> "answered", header |-> r.header, after_seed |-> r.after_seed, code |-> found.code, id |-> found.id]
        ELSE [r EXCEPT !.at = "meta", !.seen = NoKeys, !.snapshot = first, !.buckets = buckets,
                       !.ask = found.ask, !.new = NoSnapshot]
  BY <1>1, <1>2, <1>3 DEF Continued
<1>7. CASE found.ask = ""
  <2>1. PICK c : c = [at |-> "answered", header |-> r.header, after_seed |-> r.after_seed,
                      code |-> found.code, id |-> found.id]
    OBVIOUS
  <2>2. Continued(r, s) = c
    BY <1>6, <1>7, <2>1
  <2>3. c.at = "answered" /\ c.header = r.header /\ c.after_seed = r.after_seed
        /\ c.code = found.code /\ c.id = found.id
    BY <2>1
  <2>4. ASSUME r.after_seed
        PROVE  \E t \in Seeded : [ask |-> "", code |-> found.code, id |-> found.id]
                                  = locale_detector(t, Buckets(t, r.header), r.header)
    <3>1. PICK t \in Seeded : CodesOf(t, buckets)
      BY <1>5, <2>4 DEF BucketsOfOne
    <3>2. Final(locale_detector(first, buckets, r.header))
      BY <1>3, <1>7 DEF Final
    <3>3. r.header \in Headers /\ first \in Seeded
      BY <1>4, <2>4 DEF UnderWay
    <3>4. found = locale_detector(t, Buckets(t, r.header), r.header)
      BY <1>3, <3>1, <3>2, <3>3, DetectorSame
    <3>5. found = [ask |-> found.ask, code |-> found.code, id |-> found.id]
      BY <1>3 DEF locale_detector
    <3> QED
      BY <1>7, <3>4, <3>5
  <2>5. AnswerOfTable(c)
    BY <2>3, <2>4 DEF AnswerOfTable
  <2>6. c # Waiting
    BY <2>3 DEF Waiting
  <2> QED
    BY <2>2, <2>3, <2>5, <2>6 DEF ReaderHolds
<1>8. CASE found.ask # ""
  <2>1. PICK c : c = [r EXCEPT !.at = "meta", !.seen = NoKeys, !.snapshot = first, !.buckets = buckets,
                               !.ask = found.ask, !.new = NoSnapshot]
    OBVIOUS
  <2>2. Continued(r, s) = c
    BY <1>6, <1>8, <2>1
  <2>3. r = [at |-> r.at, header |-> r.header, after_seed |-> r.after_seed, seen |-> r.seen,
             snapshot |-> r.snapshot, buckets |-> r.buckets, ask |-> r.ask, new |-> r.new]
    BY DEF UnderWay
  <2>4. /\ c.at = "meta" /\ c.header = r.header /\ c.after_seed = r.after_seed /\ c.seen = NoKeys
        /\ c.snapshot = first /\ c.buckets = buckets
        /\ c = [at |-> c.at, header |-> c.header, after_seed |-> c.after_seed, seen |-> c.seen,
                snapshot |-> c.snapshot, buckets |-> c.buckets, ask |-> c.ask, new |-> c.new]
    BY <2>1, <2>3
  <2>5. KeysHold(NoKeys)
    BY DEF KeysHold, NoKeys, MetaHolds, NormHolds, NormIdHolds
  <2>6. r.header \in Headers
    BY DEF UnderWay
  <2>7. UnderWay(c)
    BY <1>4, <1>5, <2>4, <2>5, <2>6 DEF UnderWay, ReadSteps, WriteSteps
  <2>8. c # Waiting
    BY <2>4 DEF Waiting
  <2> QED
    BY <2>2, <2>4, <2>7, <2>8 DEF ReaderHolds
<1> QED
  BY <1>7, <1>8

\* One worker's turn leaves the others as they are.
LEMMA OneTurn ==
  ASSUME ReadersHold, NEW w \in LocaleWorkers, NEW c, ReaderHolds(c), SeedSeen(c),
         Turn(w, c), UNCHANGED localeRows
  PROVE  ReadersHold'
<1>1. reader' = [reader EXCEPT ![w] = c]
  BY DEF Turn
<1>2. reader = [v \in LocaleWorkers |-> reader[v]]
  BY DEF ReadersHold
<1>3. reader' = [v \in LocaleWorkers |-> reader'[v]] /\ reader'[w] = c
      /\ \A v \in LocaleWorkers : v # w => reader'[v] = reader[v]
  BY <1>1, <1>2
<1>4. ASSUME NEW v \in LocaleWorkers PROVE ReaderHolds(reader'[v]) /\ SeedSeen(reader[v])'
  <2>1. CASE v = w
    BY <1>3, <2>1 DEF SeedSeen
  <2>2. CASE v # w
    <3>1. reader'[v] = reader[v] /\ ReaderHolds(reader[v]) /\ SeedSeen(reader[v])
      BY <1>3, <2>2 DEF ReadersHold
    <3> QED
      BY <3>1 DEF SeedSeen
  <2> QED
    BY <2>1, <2>2
<1> QED
  BY <1>3, <1>4 DEF ReadersHold

\* A worker that is neither waiting nor done is under way.
LEMMA WorkerUnderWay ==
  ASSUME ReadersHold, NEW w \in LocaleWorkers, reader[w].at \notin {"idle", "answered"}
  PROVE  UnderWay(reader[w]) /\ (reader[w].after_seed => localeRows = SeededLocales)
<1>1. ReaderHolds(reader[w]) /\ SeedSeen(reader[w]) /\ reader[w] # Waiting
  BY DEF ReadersHold, Waiting
<1> QED
  BY <1>1 DEF ReaderHolds, SeedSeen

\* The same request, at another step or with other values read.
SameRequest(c, r) ==
  /\ c = [at |-> c.at, header |-> c.header, after_seed |-> c.after_seed, seen |-> c.seen,
          snapshot |-> c.snapshot, buckets |-> c.buckets, ask |-> c.ask, new |-> c.new]
  /\ c.header = r.header /\ c.after_seed = r.after_seed
  /\ c.snapshot = r.snapshot /\ c.buckets = r.buckets /\ c.ask = r.ask

\* Moving to another step changes nothing the invariant says of the rest.
LEMMA Moved ==
  ASSUME NEW r, UnderWay(r), NEW c, SameRequest(c, r), c.at \in ReadSteps \cup WriteSteps, KeysHold(c.seen),
         c.at \in WriteSteps => c.new \in Snapshots /\ (r.after_seed => c.new \in Seeded)
  PROVE  ReaderHolds(c) /\ c.after_seed = r.after_seed
<1>1. r.header \in Headers /\ (r.after_seed => (r.ask # "" => r.snapshot \in Seeded) /\ BucketsOfOne(r.buckets))
  BY DEF UnderWay
<1>2. UnderWay(c)
  BY <1>1 DEF UnderWay, SameRequest
<1> QED
  BY <1>2 DEF ReaderHolds, SameRequest

\* What a key holds is kept when one key is exchanged for one that holds it too.
LEMMA KeyExchanged ==
  ASSUME NEW keys, KeysHold(keys), NEW meta, MetaHolds(meta), NEW norm, NormHolds(norm),
         NEW norm_id, NormIdHolds(norm_id)
  PROVE  /\ KeysHold([keys EXCEPT !.meta = meta])
         /\ KeysHold([keys EXCEPT !.norm = norm])
         /\ KeysHold([keys EXCEPT !.norm_id = norm_id])
<1>1. keys = [meta |-> keys.meta, norm |-> keys.norm, norm_id |-> keys.norm_id]
      /\ MetaHolds(keys.meta) /\ NormHolds(keys.norm) /\ NormIdHolds(keys.norm_id)
  BY DEF KeysHold
<1>2. PICK a, b, c : a = [keys EXCEPT !.meta = meta] /\ b = [keys EXCEPT !.norm = norm]
                     /\ c = [keys EXCEPT !.norm_id = norm_id]
  OBVIOUS
<1>3. a = [meta |-> a.meta, norm |-> a.norm, norm_id |-> a.norm_id]
      /\ a.meta = meta /\ a.norm = keys.norm /\ a.norm_id = keys.norm_id
  BY <1>1, <1>2
<1>4. b = [meta |-> b.meta, norm |-> b.norm, norm_id |-> b.norm_id]
      /\ b.meta = keys.meta /\ b.norm = norm /\ b.norm_id = keys.norm_id
  BY <1>1, <1>2
<1>5. c = [meta |-> c.meta, norm |-> c.norm, norm_id |-> c.norm_id]
      /\ c.meta = keys.meta /\ c.norm = keys.norm /\ c.norm_id = norm_id
  BY <1>1, <1>2
<1>6. KeysHold(a) /\ KeysHold(b) /\ KeysHold(c)
  BY <1>1, <1>3, <1>4, <1>5 DEF KeysHold
<1> QED
  BY <1>2, <1>6

\* Nothing is kept in a key, or a snapshot is.
LEMMA KeysStart == KeysHold(NoKeys) /\ MetaHolds(Missing) /\ NormHolds(Missing) /\ NormIdHolds(Missing)
  BY DEF KeysHold, NoKeys, MetaHolds, NormHolds, NormIdHolds

\* HSET of a snapshot's map on a key that holds one.
LEMMA MapsMerged ==
  ASSUME NEW t \in Snapshots, NEW norm, NormHolds(norm), NEW norm_id, NormIdHolds(norm_id)
  PROVE  NormHolds(Merged(norm, t.normalized_map)) /\ NormIdHolds(Merged(norm_id, t.normalized_id_map))
<1>1. CASE t \in TablesOf({})
  <2>1. t.normalized_map = [key \in {} |-> NoCode] /\ t.normalized_id_map = [key \in {} |-> NoCode]
    BY <1>1, SeedAssumption
  <2>2. Merged(norm, t.normalized_map) = norm /\ Merged(norm_id, t.normalized_id_map) = norm_id
    BY <2>1 DEF Merged
  <2> QED
    BY <2>2
<1>2. CASE t \in Seeded
  <2>1. PICK map, ids : map = t.normalized_map /\ ids = t.normalized_id_map
    OBVIOUS
  <2>2. map = [key \in DOMAIN map |-> map[key]] /\ ids = [key \in DOMAIN ids |-> ids[key]]
    BY <1>2, <2>1, SnapshotShape DEF Seeded
  <2>3. map # [key \in {} |-> NoCode] /\ ids # [key \in {} |-> NoCode]
    BY <1>2, <2>1, SeedAssumption DEF Seeded
  <2>4. norm = Missing \/ norm = MapOf(map)
    BY <1>2, <2>1, SeedAssumption DEF NormHolds, Seeded
  <2>5. norm_id = Missing \/ norm_id = MapOf(ids)
    BY <1>2, <2>1, SeedAssumption DEF NormIdHolds, Seeded
  <2>6. Merged(norm, map) = norm \/ Merged(norm, map) = MapOf(map)
    BY <2>2, <2>3, <2>4, MergedHolds
  <2>7. Merged(norm_id, ids) = norm_id \/ Merged(norm_id, ids) = MapOf(ids)
    BY <2>2, <2>3, <2>5, MergedHolds
  <2>8. NormHolds(MapOf(map)) /\ NormIdHolds(MapOf(ids))
    BY <1>2, <2>1 DEF NormHolds, NormIdHolds
  <2> QED
    BY <2>1, <2>6, <2>7, <2>8
<1> QED
  BY <1>1, <1>2 DEF Snapshots

\* A request arrives.
LEMMA ArrivalStep ==
  ASSUME LocaleInv, NEW w \in LocaleWorkers, NEW header \in Headers, resolve_raw_headers(w, header)
  PROVE  LocaleInv'
<1>1. PICK c : c = [at |-> "meta", header |-> header, after_seed |-> localeRows # {}, seen |-> NoKeys,
              snapshot |-> NoSnapshot, buckets |-> [language \in {} |-> <<>>], ask |-> "", new |-> NoSnapshot]
  OBVIOUS
<1>2. /\ c = [at |-> c.at, header |-> c.header, after_seed |-> c.after_seed, seen |-> c.seen,
              snapshot |-> c.snapshot, buckets |-> c.buckets, ask |-> c.ask, new |-> c.new]
      /\ c.at = "meta" /\ c.header = header /\ c.after_seed = (localeRows # {}) /\ c.seen = NoKeys /\ c.ask = ""
      /\ c.buckets = [language \in {} |-> <<>>]
  BY <1>1
<1>3. c.after_seed => localeRows = SeededLocales
  BY <1>2 DEF LocaleInv
<1>4. c.after_seed => BucketsOfOne(c.buckets)
  <2>1. DOMAIN c.buckets = {}
    BY <1>2
  <2>2. c.after_seed => \E t \in Seeded : TRUE
    BY SeedAssumption DEF Seeded
  <2> QED
    BY <2>1, <2>2 DEF BucketsOfOne, CodesOf
<1>5. UnderWay(c)
  BY <1>2, <1>4, KeysStart DEF UnderWay, ReadSteps, WriteSteps
<1>6. ReaderHolds(c) /\ SeedSeen(c)
  BY <1>3, <1>5 DEF ReaderHolds, SeedSeen
<1>7. Turn(w, c) /\ UNCHANGED <<localeRows, redis>>
  BY <1>1 DEF resolve_raw_headers
<1>8. ReadersHold'
  BY <1>6, <1>7, OneTurn DEF LocaleInv
<1> QED
  BY <1>7, <1>8 DEF LocaleInv

\* A key is read.
LEMMA ReadStep ==
  ASSUME LocaleInv, NEW w \in LocaleWorkers, read_meta(w) \/ read_norm(w)
  PROVE  LocaleInv'
<1>1. PICK r : r = reader[w]
  OBVIOUS
<1>2. UnderWay(r) /\ (r.after_seed => localeRows = SeededLocales)
  BY <1>1, WorkerUnderWay DEF read_meta, read_norm, ReadKey, LocaleInv
<1>3. KeysHold(r.seen) /\ MetaHolds(redis.meta) /\ NormHolds(redis.norm)
      /\ r = [at |-> r.at, header |-> r.header, after_seed |-> r.after_seed, seen |-> r.seen,
              snapshot |-> r.snapshot, buckets |-> r.buckets, ask |-> r.ask, new |-> r.new]
  BY <1>2 DEF UnderWay, KeysHold, LocaleInv
<1>4. PICK step, seen : /\ step \in ReadSteps /\ KeysHold(seen)
                        /\ Turn(w, [r EXCEPT !.at = step, !.seen = seen])
  <2>1. CASE read_meta(w)
    <3>1. KeysHold([r.seen EXCEPT !.meta = redis.meta])
      BY <1>3, KeyExchanged, KeysStart
    <3>2. Turn(w, [r EXCEPT !.at = "norm", !.seen = [r.seen EXCEPT !.meta = redis.meta]])
      BY <1>1, <2>1 DEF read_meta, ReadKey
    <3> QED
      BY <3>1, <3>2 DEF ReadSteps
  <2>2. CASE read_norm(w)
    <3>1. KeysHold([r.seen EXCEPT !.norm = redis.norm])
      BY <1>3, KeyExchanged, KeysStart
    <3>2. Turn(w, [r EXCEPT !.at = "norm_id", !.seen = [r.seen EXCEPT !.norm = redis.norm]])
      BY <1>1, <2>2 DEF read_norm, ReadKey
    <3> QED
      BY <3>1, <3>2 DEF ReadSteps
  <2> QED
    BY <2>1, <2>2
<1>5. PICK c : c = [r EXCEPT !.at = step, !.seen = seen]
  OBVIOUS
<1>6. SameRequest(c, r) /\ c.at = step /\ c.seen = seen
  BY <1>3, <1>5 DEF SameRequest
<1>7. step \in ReadSteps \cup WriteSteps /\ step \notin WriteSteps
  BY <1>4 DEF ReadSteps, WriteSteps
<1>8. ReaderHolds(c) /\ c.after_seed = r.after_seed
  BY <1>2, <1>4, <1>6, <1>7, Moved
<1>9. SeedSeen(c) /\ Turn(w, c)
  BY <1>2, <1>4, <1>5, <1>8 DEF SeedSeen
<1>10. UNCHANGED <<localeRows, redis>>
  BY DEF read_meta, read_norm, ReadKey
<1> QED
  BY <1>8, <1>9, <1>10, OneTurn DEF LocaleInv

\* The last key is read: the snapshot is complete and the detector goes on with
\* it, or the table is asked.
LEMMA SnapshotStep ==
  ASSUME LocaleInv, NEW w \in LocaleWorkers, get_locale_snapshot(w)
  PROVE  LocaleInv'
<1>1. PICK r : r = reader[w]
  OBVIOUS
<1>2. UnderWay(r) /\ (r.after_seed => localeRows = SeededLocales)
  BY <1>1, WorkerUnderWay DEF get_locale_snapshot, LocaleInv
<1>3. KeysHold(r.seen) /\ NormIdHolds(redis.norm_id)
      /\ r = [at |-> r.at, header |-> r.header, after_seed |-> r.after_seed, seen |-> r.seen,
              snapshot |-> r.snapshot, buckets |-> r.buckets, ask |-> r.ask, new |-> r.new]
  BY <1>2 DEF UnderWay, KeysHold, LocaleInv
<1>4. PICK seen : seen = [r.seen EXCEPT !.norm_id = redis.norm_id]
  OBVIOUS
<1>5. KeysHold(seen)
  BY <1>3, <1>4, KeyExchanged, KeysStart
<1>6. UNCHANGED <<localeRows, redis>>
  BY DEF get_locale_snapshot
<1>7. \/ Turn(w, [r EXCEPT !.at = "list_all", !.seen = NoKeys])
      \/ \E s \in get_snapshot(seen) : Turn(w, Continued(r, s))
  BY <1>1, <1>4 DEF get_locale_snapshot, Continue
<1>8. CASE Turn(w, [r EXCEPT !.at = "list_all", !.seen = NoKeys])
  <2>1. PICK c : c = [r EXCEPT !.at = "list_all", !.seen = NoKeys]
    OBVIOUS
  <2>2. SameRequest(c, r) /\ c.at = "list_all" /\ c.seen = NoKeys
    BY <1>3, <2>1 DEF SameRequest
  <2>3. "list_all" \in ReadSteps \cup WriteSteps /\ "list_all" \notin WriteSteps
    BY DEF ReadSteps, WriteSteps
  <2>4. ReaderHolds(c) /\ c.after_seed = r.after_seed
    BY <1>2, <2>2, <2>3, Moved, KeysStart
  <2>5. SeedSeen(c) /\ Turn(w, c)
    BY <1>2, <1>8, <2>1, <2>4 DEF SeedSeen
  <2> QED
    BY <1>6, <2>4, <2>5, OneTurn DEF LocaleInv
<1>9. ASSUME NEW s \in get_snapshot(seen), Turn(w, Continued(r, s)) PROVE LocaleInv'
  <2>1. PICK c : c = Continued(r, s)
    OBVIOUS
  <2>2. s \in Seeded
    BY <1>5, CompleteIsSeeded
  <2>3. ReaderHolds(c) /\ c.after_seed = r.after_seed
    BY <1>2, <2>1, <2>2, ContinuedHolds
  <2>4. SeedSeen(c) /\ Turn(w, c)
    BY <1>2, <1>9, <2>1, <2>3 DEF SeedSeen
  <2> QED
    BY <1>6, <2>3, <2>4, OneTurn DEF LocaleInv
<1> QED
  BY <1>7, <1>8, <1>9

\* The table is read: from when the locales are installed, it is the seeded one.
LEMMA TableStep ==
  ASSUME LocaleInv, NEW w \in LocaleWorkers, list_all(w)
  PROVE  LocaleInv'
<1>1. PICK r : r = reader[w]
  OBVIOUS
<1>2. UnderWay(r) /\ (r.after_seed => localeRows = SeededLocales)
  BY <1>1, WorkerUnderWay DEF list_all, LocaleInv
<1>3. KeysHold(r.seen)
      /\ r = [at |-> r.at, header |-> r.header, after_seed |-> r.after_seed, seen |-> r.seen,
              snapshot |-> r.snapshot, buckets |-> r.buckets, ask |-> r.ask, new |-> r.new]
  BY <1>2 DEF UnderWay
<1>4. PICK new \in TablesOf(localeRows) : Turn(w, [r EXCEPT !.at = "clear", !.new = new])
  BY <1>1 DEF list_all
<1>5. PICK c : c = [r EXCEPT !.at = "clear", !.new = new]
  OBVIOUS
<1>6. SameRequest(c, r) /\ c.at = "clear" /\ c.seen = r.seen /\ c.new = new
  BY <1>3, <1>5 DEF SameRequest
<1>7. new \in Snapshots /\ (r.after_seed => new \in Seeded)
  BY <1>2 DEF LocaleInv, Snapshots, Seeded
<1>8. ReaderHolds(c) /\ c.after_seed = r.after_seed
  BY <1>2, <1>3, <1>6, <1>7, Moved DEF ReadSteps, WriteSteps
<1>9. SeedSeen(c) /\ Turn(w, c) /\ UNCHANGED <<localeRows, redis>>
  BY <1>2, <1>4, <1>5, <1>8 DEF SeedSeen, list_all
<1> QED
  BY <1>8, <1>9, OneTurn DEF LocaleInv

\* The keys are deleted, or one of them is written.
LEMMA WriteStep ==
  ASSUME LocaleInv, NEW w \in LocaleWorkers,
         clear_locale_cache(w) \/ populate_meta(w) \/ populate_norm(w)
  PROVE  LocaleInv'
<1>1. PICK r : r = reader[w]
  OBVIOUS
<1>2. UnderWay(r) /\ (r.after_seed => localeRows = SeededLocales) /\ r.at \in WriteSteps
  BY <1>1, WorkerUnderWay
     DEF clear_locale_cache, populate_meta, populate_norm, Store, WriteSteps, LocaleInv
<1>3. KeysHold(r.seen) /\ r.new \in Snapshots /\ (r.after_seed => r.new \in Seeded)
      /\ r = [at |-> r.at, header |-> r.header, after_seed |-> r.after_seed, seen |-> r.seen,
              snapshot |-> r.snapshot, buckets |-> r.buckets, ask |-> r.ask, new |-> r.new]
  BY <1>2 DEF UnderWay
<1>4. PICK step \in WriteSteps : Turn(w, [r EXCEPT !.at = step])
  BY <1>1 DEF clear_locale_cache, populate_meta, populate_norm, Store, WriteSteps
<1>5. PICK c : c = [r EXCEPT !.at = step]
  OBVIOUS
<1>6. SameRequest(c, r) /\ c.at = step /\ c.seen = r.seen /\ c.new = r.new
  BY <1>3, <1>5 DEF SameRequest
<1>7. ReaderHolds(c) /\ c.after_seed = r.after_seed
  BY <1>2, <1>3, <1>6, Moved
<1>8. SeedSeen(c) /\ Turn(w, c) /\ UNCHANGED localeRows
  BY <1>2, <1>4, <1>5, <1>7 DEF SeedSeen, clear_locale_cache, populate_meta, populate_norm, Store
<1>9. KeysHold(redis')
  <2>1. KeysHold(redis) /\ NormHolds(redis.norm) /\ NormIdHolds(redis.norm_id)
    BY DEF LocaleInv, KeysHold
  <2>2. CASE clear_locale_cache(w)
    BY <2>2, KeysStart DEF clear_locale_cache
  <2>3. CASE populate_meta(w)
    <3>1. redis' = [redis EXCEPT !.meta = MetaOf(r.new)]
      BY <1>1, <2>3 DEF populate_meta, Store, MetaOf
    <3>2. MetaHolds(MetaOf(r.new))
      BY <1>3 DEF MetaHolds
    <3> QED
      BY <2>1, <3>1, <3>2, KeyExchanged, KeysStart
  <2>4. CASE populate_norm(w)
    <3>1. redis' = [redis EXCEPT !.norm = Merged(redis.norm, r.new.normalized_map)]
      BY <1>1, <2>4 DEF populate_norm, Store
    <3>2. NormHolds(Merged(redis.norm, r.new.normalized_map))
      BY <1>3, <2>1, MapsMerged
    <3> QED
      BY <2>1, <3>1, <3>2, KeyExchanged, KeysStart
  <2> QED
    BY <2>2, <2>3, <2>4
<1>10. ReadersHold'
  BY <1>7, <1>8, OneTurn DEF LocaleInv
<1> QED
  BY <1>8, <1>9, <1>10 DEF LocaleInv

\* The last key is written and the detector goes on with what was read.
LEMMA WrittenStep ==
  ASSUME LocaleInv, NEW w \in LocaleWorkers, populate_norm_id(w)
  PROVE  LocaleInv'
<1>1. PICK r : r = reader[w]
  OBVIOUS
<1>2. UnderWay(r) /\ (r.after_seed => localeRows = SeededLocales) /\ r.at \in WriteSteps
  BY <1>1, WorkerUnderWay DEF populate_norm_id, WriteSteps, LocaleInv
<1>3. r.new \in Snapshots /\ (r.after_seed => r.new \in Seeded)
  BY <1>2 DEF UnderWay
<1>4. PICK c : c = Continued(r, r.new)
  OBVIOUS
<1>5. ReaderHolds(c) /\ c.after_seed = r.after_seed
  BY <1>2, <1>3, <1>4, ContinuedHolds
<1>6. SeedSeen(c) /\ Turn(w, c) /\ UNCHANGED localeRows
  BY <1>1, <1>2, <1>4, <1>5 DEF SeedSeen, populate_norm_id, Continue
<1>7. KeysHold(redis')
  <2>1. KeysHold(redis) /\ NormHolds(redis.norm) /\ NormIdHolds(redis.norm_id)
    BY DEF LocaleInv, KeysHold
  <2>2. redis' = [redis EXCEPT !.norm_id = Merged(redis.norm_id, r.new.normalized_id_map)]
    BY <1>1 DEF populate_norm_id
  <2>3. NormIdHolds(Merged(redis.norm_id, r.new.normalized_id_map))
    BY <1>3, <2>1, MapsMerged
  <2> QED
    BY <2>1, <2>2, <2>3, KeyExchanged, KeysStart
<1>8. ReadersHold'
  BY <1>5, <1>6, OneTurn DEF LocaleInv
<1> QED
  BY <1>6, <1>7, <1>8 DEF LocaleInv

\* Every step keeps the invariant.
LEMMA LocaleInvStep == ASSUME LocaleInv, [LocaleNext]_localeVars PROVE LocaleInv'
<1>1. ASSUME install_locales PROVE LocaleInv'
  <2>1. localeRows' = SeededLocales /\ UNCHANGED <<redis, reader>>
    BY <1>1 DEF install_locales
  <2>2. ReadersHold'
    BY <2>1 DEF LocaleInv, ReadersHold, SeedSeen
  <2> QED
    BY <2>1, <2>2 DEF LocaleInv
<1>2. ASSUME NEW key \in DOMAIN NoKeys, expire_key(key) PROVE LocaleInv'
  <2>1. redis' = [redis EXCEPT ![key] = NoKeys[key]] /\ UNCHANGED <<localeRows, reader>>
    BY <1>2 DEF expire_key
  <2>2. key \in {"meta", "norm", "norm_id"} /\ NoKeys[key] = Missing
    BY DEF NoKeys
  <2>3. \/ redis' = [redis EXCEPT !.meta = Missing] \/ redis' = [redis EXCEPT !.norm = Missing]
        \/ redis' = [redis EXCEPT !.norm_id = Missing]
    BY <2>1, <2>2
  <2>4. KeysHold(redis')
    <3>1. PICK keys : keys = redis
      OBVIOUS
    <3>2. KeysHold(keys)
      BY <3>1 DEF LocaleInv
    <3>3. /\ KeysHold([keys EXCEPT !.meta = Missing]) /\ KeysHold([keys EXCEPT !.norm = Missing])
          /\ KeysHold([keys EXCEPT !.norm_id = Missing])
      BY <3>2, KeyExchanged, KeysStart
    <3>4. \/ redis' = [keys EXCEPT !.meta = Missing] \/ redis' = [keys EXCEPT !.norm = Missing]
          \/ redis' = [keys EXCEPT !.norm_id = Missing]
      BY <2>3, <3>1
    <3> QED
      BY <3>3, <3>4, Zenon
  <2>5. ReadersHold'
    BY <2>1 DEF LocaleInv, ReadersHold, SeedSeen
  <2> QED
    BY <2>1, <2>4, <2>5 DEF LocaleInv
<1>3. ASSUME NEW w \in LocaleWorkers, lose(w) PROVE LocaleInv'
  <2>1. ReaderHolds(Waiting) /\ SeedSeen(Waiting)
    BY DEF ReaderHolds, SeedSeen
  <2>2. Turn(w, Waiting) /\ UNCHANGED <<localeRows, redis>>
    BY <1>3 DEF lose
  <2> QED
    BY <2>1, <2>2, OneTurn DEF LocaleInv
<1>4. ASSUME NEW w \in LocaleWorkers, Request(w) PROVE LocaleInv'
  <2>1. ASSUME NEW header \in Headers, resolve_raw_headers(w, header) PROVE LocaleInv'
    BY <2>1, ArrivalStep
  <2> QED
    BY <1>3, <1>4, <2>1, ReadStep, SnapshotStep, TableStep, WriteStep, WrittenStep DEF Request
<1>5. ASSUME UNCHANGED localeVars PROVE LocaleInv'
  <2>1. UNCHANGED <<localeRows, redis, reader>>
    BY <1>5 DEF localeVars
  <2> QED
    BY <2>1 DEF LocaleInv, ReadersHold, SeedSeen
<1> QED
  BY <1>1, <1>2, <1>4, <1>5 DEF LocaleNext

\* For any number of requests and any headers, a request that arrives after the
\* locales were installed is answered as the table says, whatever slower
\* requests clear, overwrite or let expire in Redis meanwhile
\* (LocaleCache.get_snapshot and populate, core_request.locale_detector).
THEOREM AnswersAsTheTableHolds == LocaleSpec => []AnswersAsTheTable
<1>1. LocaleInit => LocaleInv
  <2> SUFFICES ASSUME LocaleInit PROVE LocaleInv
    OBVIOUS
  <2>1. ReaderHolds(Waiting) /\ SeedSeen(Waiting)
    BY DEF ReaderHolds, SeedSeen
  <2>2. localeRows = {} /\ redis = NoKeys /\ reader = [w \in LocaleWorkers |-> Waiting]
    BY DEF LocaleInit
  <2>3. ReadersHold
    BY <2>1, <2>2 DEF ReadersHold
  <2> QED
    BY <2>2, <2>3, KeysStart DEF LocaleInv
<1>2. LocaleInv /\ [LocaleNext]_localeVars => LocaleInv'
  BY LocaleInvStep
<1>3. LocaleInv => AnswersAsTheTable
  <2> SUFFICES ASSUME LocaleInv, NEW w \in LocaleWorkers, reader[w].at = "answered", reader[w].after_seed
               PROVE  [ask |-> "", code |-> reader[w].code, id |-> reader[w].id] \in Detected(reader[w].header)
    BY DEF AnswersAsTheTable
  <2>1. PICK r : r = reader[w]
    OBVIOUS
  <2>2. ReaderHolds(r) /\ SeedSeen(r) /\ r # Waiting
    BY <2>1 DEF LocaleInv, ReadersHold, Waiting
  <2>3. localeRows = SeededLocales
    BY <2>1, <2>2 DEF SeedSeen
  <2>4. AnswerOfTable(r)
    BY <2>1, <2>2 DEF ReaderHolds, UnderWay, ReadSteps, WriteSteps
  <2>5. PICK t \in Seeded :
          [ask |-> "", code |-> r.code, id |-> r.id] = locale_detector(t, Buckets(t, r.header), r.header)
    BY <2>1, <2>4 DEF AnswerOfTable
  <2> QED
    BY <2>1, <2>3, <2>5 DEF Detected, Seeded
<1> QED
  BY <1>1, <1>2, <1>3, PTL DEF LocaleSpec
=============================================================================
