--------------------------------- MODULE Locales ---------------------------------
(***************************************************************************)
(* The locale of a request (middlewares/core_request.py): the language     *)
(* ranges of Accept-Language are matched with a snapshot of the locales    *)
(* that Redis keys hold (infrastructure/cache/locale_cache.py).  The keys  *)
(* are read, deleted and written one round trip at a time by every worker  *)
(* that misses one of them, and each of them expires on its own.  The set  *)
(* of active codes is left out: the meta key holds them too, and without   *)
(* the meta key, and so without a default, no snapshot is complete.        *)
(* A locale code is the sequence of its parts.                             *)
(***************************************************************************)
EXTENDS Integers, Sequences, FiniteSets, SequencesExt

CONSTANTS LocaleWorkers,  \* concurrent requests
          Headers,        \* Accept-Language headers: sequences of [parts, quality]
          NoCode          \* no locale code, no locale id

ASSUME HeaderAssumption ==
  \A h \in Headers : Len(h) \in Nat /\ \A i \in 1 .. Len(h) : h[i].parts # <<>> /\ h[i].quality \in Int

VARIABLES
  localeRows, \* the committed rows of system.locale
  redis,     \* what the meta, norm and norm_id keys hold, Missing without one
  reader     \* per worker, the request it answers

localeVars == <<localeRows, redis, reader>>

----------------------------------------------------------------------------
(* Codes.                                                                  *)

Lower(part) == CASE part = "Hant" -> "hant" [] part = "Hans" -> "hans" [] part = "TW" -> "tw" [] part = "CN" -> "cn"
                 [] part = "HK" -> "hk" [] OTHER -> part
_normalize_locale_code(code) == [i \in DOMAIN code |-> Lower(code[i])]

Given(part) == IF part = "" THEN <<>> ELSE <<part>>
_build_locale_code(row) == <<row.language_code>> \o Given(row.script_code) \o Given(row.region_code)

IsScript(part) == part \in {"hant", "hans"}   \* the parts of four letters
_extract_locale_parts(code) ==
  [language |-> code[1],
   script |-> IF Len(code) >= 2 /\ IsScript(code[2]) THEN code[2] ELSE "",
   region |-> IF Len(code) >= 2 /\ ~IsScript(code[2]) THEN code[2] ELSE IF Len(code) >= 3 THEN code[3] ELSE ""]

\* The positions of the ranges by falling quality, those of one quality as they
\* came; a quality that cannot be read is 0 like a negative one, and nothing is
\* dropped for it.
ByQuality(header) ==
  LET quality(i) == IF header[i].quality < 0 THEN 0 ELSE IF header[i].quality > 10 THEN 10 ELSE header[i].quality
      before(i, j) == quality(i) > quality(j) \/ (quality(i) = quality(j) /\ i < j)
  IN  SetToSortSeq(DOMAIN header, before)

_parse_accept_language(header) ==
  [n \in 1 .. Len(header) |-> _normalize_locale_code(header[ByQuality(header)[n]].parts)]

----------------------------------------------------------------------------
(* Snapshots.                                                              *)

Missing == [there |-> FALSE]

\* The rows of init-locales; English is the default.
SeededLocales == {
  [id |-> 1, language_code |-> "en", script_code |-> "", region_code |-> "", is_active |-> TRUE, is_default |-> TRUE],
  [id |-> 2, language_code |-> "zh", script_code |-> "Hant", region_code |-> "TW", is_active |-> TRUE, is_default |-> FALSE],
  [id |-> 3, language_code |-> "zh", script_code |-> "Hans", region_code |-> "CN", is_active |-> TRUE, is_default |-> FALSE]}

\* The order of the active codes is not kept: only a snapshot without a default
\* would use it, and one that has any code has a default.
_build_snapshot_from_locales(rows) ==
  LET active == SelectSeq(rows, LAMBDA row : row.is_active)
      codes == [i \in DOMAIN active |-> _build_locale_code(active[i])]
      keys == {_normalize_locale_code(codes[i]) : i \in DOMAIN codes}
      rowOf(key) == CHOOSE i \in DOMAIN codes : _normalize_locale_code(codes[i]) = key
      defaults == {i \in DOMAIN active : active[i].is_default}
  IN  [active_locales |-> ToSet(codes),
       default_locale |-> IF codes = <<>> THEN NoCode
                          ELSE IF defaults = {} THEN codes[1] ELSE codes[Min(defaults)],
       normalized_map |-> [key \in keys |-> codes[rowOf(key)]],
       normalized_id_map |-> [key \in keys |-> active[rowOf(key)].id],
       language_buckets |-> [language \in {key[1] : key \in keys} |->
                               SelectSeq(codes, LAMBDA code : Lower(code[1]) = language)]]

\* Mutation: a snapshot without ids is complete.
get_snapshotWithoutIds(seen) ==
  LET default == IF seen.meta.there THEN seen.meta.default_locale ELSE NoCode
  IN  IF default # NoCode /\ seen.norm.there
      THEN {[active_locales |-> seen.meta.active_locales, default_locale |-> default,
             normalized_map |-> seen.norm.map,
             normalized_id_map |-> IF seen.norm_id.there THEN seen.norm_id.map ELSE [key \in {} |-> NoCode],
             language_buckets |-> seen.meta.language_buckets]}
      ELSE {}

\* The snapshot in the values that were read, {} unless they are all there.
get_snapshot(seen) ==
  LET default == IF seen.meta.there THEN seen.meta.default_locale ELSE NoCode
  IN  IF default # NoCode /\ seen.meta.active_locales # {} /\ seen.norm.there /\ seen.norm_id.there
      THEN {[active_locales |-> seen.meta.active_locales, default_locale |-> default, normalized_map |-> seen.norm.map,
             normalized_id_map |-> seen.norm_id.map, language_buckets |-> seen.meta.language_buckets]}
      ELSE {}

----------------------------------------------------------------------------
(* Matching.                                                               *)

FirstOf(codes, test(_)) ==
  LET found == {i \in DOMAIN codes : test(_normalize_locale_code(codes[i]))}
  IN  IF found = {} THEN NoCode ELSE codes[Min(found)]

_match_locale_by_language_region(codes, region) ==
  FirstOf(codes, LAMBDA parts : (Len(parts) >= 3 /\ parts[3] = region) \/ (Len(parts) = 2 /\ parts[2] = region))
_match_locale_by_language_script(codes, script) ==
  FirstOf(codes, LAMBDA parts : Len(parts) >= 3 /\ parts[2] = script)

\* What one range leads to: a code, "ask" for the codes of its language (another
\* snapshot is needed), or "skip".  buckets: what was asked for so far.
Matched(snapshot, buckets, range) ==
  LET code(c) == [is |-> "code", code |-> c]
      skip == [is |-> "skip", code |-> NoCode]
      parts == _extract_locale_parts(range)
      bucket == buckets[parts.language]
      region == IF parts.region = "" THEN NoCode ELSE _match_locale_by_language_region(bucket, parts.region)
      script == IF parts.script = "" THEN NoCode ELSE _match_locale_by_language_script(bucket, parts.script)
      exact == snapshot.normalized_map[range]
  IN  CASE range = <<"*">> -> IF snapshot.default_locale = NoCode THEN skip ELSE code(snapshot.default_locale)
        [] range # <<"*">> /\ range \in DOMAIN snapshot.normalized_map /\ exact \in snapshot.active_locales -> code(exact)
        [] OTHER -> IF parts.language = "" THEN skip
                    ELSE IF parts.language \notin DOMAIN buckets THEN [is |-> "ask", code |-> <<parts.language>>]
                    ELSE IF bucket = <<>> THEN skip
                    ELSE code(IF region # NoCode THEN region ELSE IF script # NoCode THEN script ELSE bucket[1])

\* get_locale_codes_by_language, on a snapshot.
BucketOf(table, language) == IF language \in DOMAIN table.language_buckets THEN table.language_buckets[language] ELSE <<>>

get_locale_id(snapshot, code) ==
  LET key == _normalize_locale_code(code)
  IN  IF key \in DOMAIN snapshot.normalized_id_map THEN snapshot.normalized_id_map[key] ELSE NoCode

\* The first range that leads somewhere, else the default.
locale_detector(snapshot, buckets, header) ==
  LET ranges == _parse_accept_language(header)
      found == {i \in DOMAIN ranges : Matched(snapshot, buckets, ranges[i]).is # "skip"}
      first == Matched(snapshot, buckets, ranges[Min(found)])
      code == IF found = {} THEN snapshot.default_locale ELSE first.code
  IN  IF found # {} /\ first.is = "ask" THEN [ask |-> first.code[1], code |-> NoCode, id |-> NoCode]
      ELSE [ask |-> "", code |-> code, id |-> IF code = NoCode THEN NoCode ELSE get_locale_id(snapshot, code)]

----------------------------------------------------------------------------
(* A request.                                                              *)

NoKeys == [meta |-> Missing, norm |-> Missing, norm_id |-> Missing]
Waiting == [at |-> "idle"]
NoSnapshot == [default_locale |-> NoCode]

Turn(w, what) == reader' = [reader EXCEPT ![w] = what]

resolve_raw_headers(w, header) ==
  /\ reader[w].at \in {"idle", "answered"}
  /\ Turn(w, [at |-> "meta", header |-> header, after_seed |-> localeRows # {}, seen |-> NoKeys,
              snapshot |-> NoSnapshot, buckets |-> [language \in {} |-> <<>>], ask |-> "", new |-> NoSnapshot])
  /\ UNCHANGED <<localeRows, redis>>

\* get_locale_snapshot returns: the detector starts, or goes on with the codes
\* of the language it asked for.
Continued(r, snapshot) ==
  LET first == IF r.ask = "" THEN snapshot ELSE r.snapshot
      buckets == IF r.ask = "" THEN r.buckets
                 ELSE [language \in DOMAIN r.buckets \cup {r.ask} |->
                         IF language = r.ask THEN BucketOf(snapshot, r.ask) ELSE r.buckets[language]]
      found == locale_detector(first, buckets, r.header)
  IN  IF found.ask = ""
      THEN [at |-> "answered", header |-> r.header, after_seed |-> r.after_seed, code |-> found.code, id |-> found.id]
      ELSE [r EXCEPT !.at = "meta", !.seen = NoKeys, !.snapshot = first, !.buckets = buckets,
                     !.ask = found.ask, !.new = NoSnapshot]
Continue(w, snapshot) == Turn(w, Continued(reader[w], snapshot))

ReadKey(w, at, field, value, next) ==
  /\ reader[w].at = at
  /\ Turn(w, [reader[w] EXCEPT !.at = next, !.seen[field] = value])
  /\ UNCHANGED <<localeRows, redis>>

read_meta(w) == ReadKey(w, "meta", "meta", redis.meta, "norm")
read_norm(w) == ReadKey(w, "norm", "norm", redis.norm, "norm_id")

get_locale_snapshot(w) ==
  /\ reader[w].at = "norm_id"
  /\ LET found == get_snapshot([reader[w].seen EXCEPT !.norm_id = redis.norm_id])
     IN  IF found = {} THEN Turn(w, [reader[w] EXCEPT !.at = "list_all", !.seen = NoKeys])
         ELSE \E snapshot \in found : Continue(w, snapshot)
  /\ UNCHANGED <<localeRows, redis>>

\* ORDER BY sequence: a column init-locales leaves to its default, the time of
\* the transaction, so that all rows are tied and come in any order.
Ordered(rows) == {order \in [1..Cardinality(rows) -> rows] : ToSet(order) = rows}
TablesOf(rows) == {_build_snapshot_from_locales(order) : order \in Ordered(rows)}

\* The order of the seeded rows changes the codes of "zh" only.
ASSUME SeedAssumption ==
  /\ \A t \in TablesOf({}) : t.default_locale = NoCode /\ t.normalized_map = [key \in {} |-> NoCode]
                             /\ t.normalized_id_map = [key \in {} |-> NoCode]
  /\ TablesOf(SeededLocales) # {}
  /\ \A t \in TablesOf(SeededLocales) : t.default_locale # NoCode /\ t.normalized_map # [key \in {} |-> NoCode]
                                        /\ t.normalized_id_map # [key \in {} |-> NoCode]
  /\ \A t, u \in TablesOf(SeededLocales) :
       /\ t.default_locale = u.default_locale /\ t.active_locales = u.active_locales
       /\ t.normalized_map = u.normalized_map /\ t.normalized_id_map = u.normalized_id_map
       /\ \A language \in DOMAIN t.language_buckets \cup DOMAIN u.language_buckets :
            language # "zh" => BucketOf(t, language) = BucketOf(u, language)

list_all(w) ==
  /\ reader[w].at = "list_all"
  /\ \E new \in TablesOf(localeRows) :
       Turn(w, [reader[w] EXCEPT !.at = "clear", !.new = new])
  /\ UNCHANGED <<localeRows, redis>>

----------------------------------------------------------------------------
(* populate: a DELETE of the keys, then a write of each.                   *)

Store(w, at, next, key, value) ==
  /\ reader[w].at = at
  /\ redis' = [redis EXCEPT ![key] = value]
  /\ Turn(w, [reader[w] EXCEPT !.at = next])
  /\ UNCHANGED localeRows

\* HSET adds to the fields of a key; without fields nothing is sent.
Merged(old, map) ==
  LET was == IF old.there THEN old.map ELSE [key \in {} |-> NoCode]
  IN  IF map = [key \in {} |-> NoCode] THEN old
      ELSE [there |-> TRUE,
            map |-> [key \in DOMAIN was \cup DOMAIN map |-> IF key \in DOMAIN map THEN map[key] ELSE was[key]]]

clear_locale_cache(w) ==
  /\ reader[w].at = "clear"
  /\ redis' = NoKeys
  /\ Turn(w, [reader[w] EXCEPT !.at = "hset_meta"])
  /\ UNCHANGED localeRows

populate_meta(w) ==
  Store(w, "hset_meta", "hset_norm", "meta",
        [there |-> TRUE, default_locale |-> reader[w].new.default_locale,
         active_locales |-> reader[w].new.active_locales, language_buckets |-> reader[w].new.language_buckets])
populate_norm(w) ==
  Store(w, "hset_norm", "hset_norm_id", "norm", Merged(redis.norm, reader[w].new.normalized_map))
populate_norm_id(w) ==
  /\ reader[w].at = "hset_norm_id"
  /\ redis' = [redis EXCEPT !.norm_id = Merged(redis.norm_id, reader[w].new.normalized_id_map)]
  /\ Continue(w, reader[w].new)
  /\ UNCHANGED localeRows

----------------------------------------------------------------------------
LocaleInit ==
  /\ localeRows = {}
  /\ redis = NoKeys
  /\ reader = [w \in LocaleWorkers |-> Waiting]

\* init-locales commits, beside a server that is running already.
install_locales ==
  /\ localeRows = {}
  /\ localeRows' = SeededLocales
  /\ UNCHANGED <<redis, reader>>

\* Each key has a lifetime of its own.
expire_key(key) ==
  /\ redis[key] # NoKeys[key]
  /\ redis' = [redis EXCEPT ![key] = NoKeys[key]]
  /\ UNCHANGED <<localeRows, reader>>

\* The connection or the worker is lost; what it wrote to Redis stays.
lose(w) ==
  /\ reader[w].at \notin {"idle", "answered"}
  /\ Turn(w, Waiting)
  /\ UNCHANGED <<localeRows, redis>>

Request(w) ==
  \/ \E header \in Headers : resolve_raw_headers(w, header)
  \/ read_meta(w) \/ read_norm(w) \/ get_locale_snapshot(w) \/ list_all(w)
  \/ clear_locale_cache(w) \/ populate_meta(w) \/ populate_norm(w) \/ populate_norm_id(w)
  \/ lose(w)

LocaleNext ==
  \/ install_locales
  \/ \E key \in DOMAIN NoKeys : expire_key(key)
  \/ \E w \in LocaleWorkers : Request(w)

LocaleSpec == LocaleInit /\ [][LocaleNext]_localeVars

----------------------------------------------------------------------------
(* Properties.                                                             *)

\* What the table gives a header, with the codes of each of its languages.
Buckets(table, header) ==
  [language \in {_extract_locale_parts(range).language : range \in Range(_parse_accept_language(header))} |->
     BucketOf(table, language)]
Detected(header) == {locale_detector(table, Buckets(table, header), header) : table \in TablesOf(localeRows)}

\* A request that arrives after the locales were installed is answered as the
\* table says, with the locale's id, although slower requests that found an
\* empty table still clear and overwrite the keys, and however a snapshot was
\* torn between two of them (locale_cache.get_snapshot and populate,
\* core_request.locale_detector).
AnswersAsTheTable ==
  \A w \in LocaleWorkers : reader[w].at = "answered" /\ reader[w].after_seed =>
    [ask |-> "", code |-> reader[w].code, id |-> reader[w].id] \in Detected(reader[w].header)
=============================================================================
