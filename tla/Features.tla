------------------------------- MODULE Features -------------------------------
(***************************************************************************)
(* The feature store: one hot row per feature and entity, refreshed by     *)
(* upserts, and the compaction that moves expired rows to the cold store.  *)
(* The compaction is called by an endpoint and by every pass of the        *)
(* maintenance loop; neither it nor the upserts lock what they read.       *)
(***************************************************************************)
EXTENDS Integers, FiniteSets, UnitOfWork

CONSTANTS
  FeatureCalls,         \* upserts and compactions; each is made once
  Entities,             \* pairs of a feature and an entity key
  Values,
  Ttl,                  \* FeatureDefinition.ttl_seconds, in ticks (0: less than one)
  MaxTick               \* bound of the clock

ASSUME FeatureAssumption == Ttl \in Nat /\ MaxTick \in Nat /\ "none" \notin FeatureCalls

VARIABLES
  hot,                  \* feature_values_hot: [id, value, hash, expires] by entity
  cold,                 \* feature_values_cold: [entity, id, value, by]
  tick,
  featurePc, featureAsk,
  readHot,              \* what an upsert found
  scanned,              \* what a compaction found: hot rows with their entities
  \* history
  latest,               \* the value of the last upsert of each entity
  upsertRaced,          \* entities with an upsert that overlapped with another call
  scanRaced             \* have two compactions overlapped?

featureVars ==
  <<hot, cold, tick, featurePc, featureAsk, readHot, scanned, latest, upsertRaced, scanRaced>>

-------------------------------------------------------------------------------
NoRow == [id |-> "none"]
NoFeatureAsk == [op |-> "none"]
NoValue == "no value"

(* The consistency hash of a value is as good as the value.                *)
Hash(v) == <<"sha256", v>>

Upserting(c, e) == featurePc[c] = "read" /\ featureAsk[c].op = "upsert" /\ featureAsk[c].entity = e
Compacting(c) == featurePc[c] = "read" /\ featureAsk[c].op = "compact"

FeatureInit ==
  /\ hot = [e \in Entities |-> NoRow] /\ cold = {} /\ tick = 0
  /\ featurePc = [c \in FeatureCalls |-> "idle"]
  /\ featureAsk = [c \in FeatureCalls |-> NoFeatureAsk]
  /\ readHot = [c \in FeatureCalls |-> NoRow]
  /\ scanned = [c \in FeatureCalls |-> {}]
  /\ latest = [e \in Entities |-> NoValue]
  /\ upsertRaced = [e \in Entities |-> FALSE]
  /\ scanRaced = FALSE

-------------------------------------------------------------------------------
(* upsert_feature_value, which compute_feature_value calls too: the time   *)
(* of expiry is taken before the query.                                    *)
UpsertRead(c, e, v) ==
  /\ featurePc[c] = "idle"
  /\ featurePc' = [featurePc EXCEPT ![c] = "read"]
  /\ featureAsk' = [featureAsk EXCEPT ![c] =
       [op |-> "upsert", entity |-> e, value |-> v, expires |-> tick + Ttl]]
  /\ readHot' = [readHot EXCEPT ![c] = hot[e]]
  /\ upsertRaced' = [upsertRaced EXCEPT ![e] =
       @ \/ \E d \in FeatureCalls : Upserting(d, e) \/ Compacting(d)]
  /\ UNCHANGED <<hot, cold, tick, scanned, latest, scanRaced>>

(* The row that was read gets the columns that are new; a row that is gone *)
(* fails the flush.                                                        *)
(* Mutant of UpsertUpdate: the hash is left as it was.                     *)
UpsertUpdateValueOnly(c) ==
  LET ask == featureAsk[c]
      read == readHot[c]
  IN /\ Upserting(c, ask.entity) /\ read # NoRow /\ hot[ask.entity].id = read.id
     /\ hot' = [hot EXCEPT ![ask.entity].value = Column(@, read.value, ask.value),
                           ![ask.entity].expires = Column(@, read.expires, ask.expires)]
     /\ latest' = [latest EXCEPT ![ask.entity] = ask.value]
     /\ featurePc' = [featurePc EXCEPT ![c] = "done"]
     /\ UNCHANGED <<cold, tick, featureAsk, readHot, scanned, upsertRaced, scanRaced>>

UpsertUpdate(c) ==
  LET ask == featureAsk[c]
      read == readHot[c]
  IN /\ Upserting(c, ask.entity) /\ read # NoRow /\ hot[ask.entity].id = read.id
     /\ hot' = [hot EXCEPT ![ask.entity].value = Column(@, read.value, ask.value),
                           ![ask.entity].hash = Column(@, read.hash, Hash(ask.value)),
                           ![ask.entity].expires = Column(@, read.expires, ask.expires)]
     /\ latest' = [latest EXCEPT ![ask.entity] = ask.value]
     /\ featurePc' = [featurePc EXCEPT ![c] = "done"]
     /\ UNCHANGED <<cold, tick, featureAsk, readHot, scanned, upsertRaced, scanRaced>>

(* Nothing was found: a new row, unless another call was first.            *)
UpsertInsert(c) ==
  LET ask == featureAsk[c]
  IN /\ Upserting(c, ask.entity) /\ readHot[c] = NoRow /\ hot[ask.entity] = NoRow
     /\ hot' = [hot EXCEPT ![ask.entity] =
          [id |-> c, value |-> ask.value, hash |-> Hash(ask.value), expires |-> ask.expires]]
     /\ latest' = [latest EXCEPT ![ask.entity] = ask.value]
     /\ featurePc' = [featurePc EXCEPT ![c] = "done"]
     /\ UNCHANGED <<cold, tick, featureAsk, readHot, scanned, upsertRaced, scanRaced>>

Expired(e) == hot[e] # NoRow /\ hot[e].expires < tick

CompactScan(c) ==
  /\ featurePc[c] = "idle"
  /\ featurePc' = [featurePc EXCEPT ![c] = "read"]
  /\ featureAsk' = [featureAsk EXCEPT ![c] = [op |-> "compact"]]
  /\ scanned' = [scanned EXCEPT ![c] =
       {[entity |-> e, row |-> hot[e]] : e \in {x \in Entities : Expired(x)}}]
  /\ upsertRaced' = [e \in Entities |-> upsertRaced[e] \/ \E d \in FeatureCalls : Upserting(d, e)]
  /\ scanRaced' = (scanRaced \/ \E d \in FeatureCalls : Compacting(d))
  /\ UNCHANGED <<hot, cold, tick, readHot, latest>>

(* A cold row for each row found, as it was found, and a DELETE of each by *)
(* its id; of a row that is gone SQLAlchemy only warns.                    *)
(* Mutants of CompactCommit: the hot rows stay; nothing is archived.       *)
CompactCommitKeeping(c) ==
  /\ Compacting(c)
  /\ cold' = cold \cup {[entity |-> s.entity, id |-> s.row.id, value |-> s.row.value, by |-> c] :
                          s \in scanned[c]}
  /\ featurePc' = [featurePc EXCEPT ![c] = "done"]
  /\ UNCHANGED <<hot, tick, featureAsk, readHot, scanned, latest, upsertRaced, scanRaced>>

CompactCommitDropping(c) ==
  /\ Compacting(c)
  /\ hot' = [e \in Entities |->
       IF \E s \in scanned[c] : s.row.id = hot[e].id THEN NoRow ELSE hot[e]]
  /\ featurePc' = [featurePc EXCEPT ![c] = "done"]
  /\ UNCHANGED <<cold, tick, featureAsk, readHot, scanned, latest, upsertRaced, scanRaced>>

CompactCommit(c) ==
  /\ Compacting(c)
  /\ cold' = cold \cup {[entity |-> s.entity, id |-> s.row.id, value |-> s.row.value, by |-> c] :
                          s \in scanned[c]}
  /\ hot' = [e \in Entities |->
       IF \E s \in scanned[c] : s.row.id = hot[e].id THEN NoRow ELSE hot[e]]
  /\ featurePc' = [featurePc EXCEPT ![c] = "done"]
  /\ UNCHANGED <<tick, featureAsk, readHot, scanned, latest, upsertRaced, scanRaced>>

(* The unique constraint, the vanished row, or an error of the database.   *)
FeatureFails(c) ==
  /\ featurePc[c] = "read"
  /\ featurePc' = [featurePc EXCEPT ![c] = "failed"]
  /\ UNCHANGED <<hot, cold, tick, featureAsk, readHot, scanned, latest, upsertRaced, scanRaced>>

FeatureTick ==
  /\ tick < MaxTick
  /\ tick' = tick + 1
  /\ UNCHANGED <<hot, cold, featurePc, featureAsk, readHot, scanned, latest, upsertRaced, scanRaced>>

FeatureNext ==
  \/ \E c \in FeatureCalls :
       \/ \E e \in Entities, v \in Values : UpsertRead(c, e, v)
       \/ UpsertUpdate(c) \/ UpsertInsert(c) \/ CompactScan(c) \/ CompactCommit(c) \/ FeatureFails(c)
  \/ FeatureTick

FeatureSpec == FeatureInit /\ [][FeatureNext]_featureVars

-------------------------------------------------------------------------------
HotRows == [id : FeatureCalls, value : Values, hash : {Hash(v) : v \in Values}, expires : Nat]

(* Every variable has its type.                                            *)
FeatureTypeOK ==
  /\ hot \in [Entities -> {NoRow} \cup HotRows]
  /\ cold \subseteq [entity : Entities, id : FeatureCalls, value : Values, by : FeatureCalls]
  /\ tick \in 0..MaxTick
  /\ featurePc \in [FeatureCalls -> {"idle", "read", "done", "failed"}]
  /\ featureAsk \in [FeatureCalls -> {NoFeatureAsk} \cup [op : {"compact"}]
       \cup [op : {"upsert"}, entity : Entities, value : Values, expires : Nat]]
  /\ readHot \in [FeatureCalls -> {NoRow} \cup HotRows]
  /\ scanned \in [FeatureCalls -> SUBSET [entity : Entities, row : HotRows]]
  /\ latest \in [Entities -> Values \cup {NoValue}]
  /\ upsertRaced \in [Entities -> BOOLEAN] /\ scanRaced \in BOOLEAN

(* Whatever overlaps, the hash of a hot row is the hash of its value, so   *)
(* the consistency check never fails for a value the service has written:  *)
(* of two upserts at once, each writes both columns or neither.            *)
HashAgrees == \A e \in Entities : hot[e] # NoRow => hot[e].hash = Hash(hot[e].value)

(* The last value of an entity whose upserts overlapped with nothing is    *)
(* hot, or, once it had expired, in the cold store.                        *)
LatestKept ==
  \A e \in Entities : ~upsertRaced[e] /\ latest[e] # NoValue =>
    IF hot[e] # NoRow THEN hot[e].value = latest[e]
    ELSE \E r \in cold : r.entity = e /\ r.value = latest[e]

(* Unless two compactions overlapped, a hot row is archived at most once,  *)
(* and then it is hot no more.                                             *)
ArchivedOnce ==
  ~scanRaced =>
    /\ \A r, s \in cold : r.id = s.id => r = s
    /\ \A r \in cold, e \in Entities : hot[e].id # r.id
===============================================================================
