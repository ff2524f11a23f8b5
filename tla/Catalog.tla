------------------------------- MODULE Catalog -------------------------------
(***************************************************************************)
(* The list of models in settings.json (state/config.go) and what renews   *)
(* it: an application that opens asks the gateway for its models and       *)
(* merges them (command/actions.go, runtime_build.go), a command sets or   *)
(* discovers models, and an open application writes the whole of the       *)
(* settings it holds whenever one of them is changed.                      *)
(*                                                                         *)
(* The gateway lists a model by id and by name; a model set by hand has    *)
(* one word for both.  Limits of context are left out: a listed model      *)
(* always has one.                                                         *)
(***************************************************************************)
EXTENDS Naturals, Sequences, SequencesExt

CONSTANTS
    Apps,         \* processes that hold the settings
    Listings,     \* lists the gateway may answer with, sorted by id
    Labels,       \* the words a user sets a model by
    Rank,         \* label -> rank of a model of that name: a pro first, then its score
    M3Labels,     \* labels that name the model of a first run
    NoModel,      \* an active model that is not set
    MaxListings, MaxSets   \* bounds on discoveries begun and on models set by hand

ASSUME CatalogAssumption ==
    /\ Rank \in [Labels -> Nat] /\ NoModel \notin Labels /\ M3Labels \subseteq Labels
    /\ Listings \subseteq Seq([id : Labels, name : Labels])
    /\ MaxListings \in Nat /\ MaxSets \in Nat

VARIABLES
    settings,   \* settings.json: models, active model, whether the choice is pinned
    apps,       \* process -> the settings it holds and what it does with them
    discoveries, sets,
    listed,     \* history: ids the gateway has listed
    added,      \* history: models the user has set
    crossed,    \* history: an entry was replaced by one of its name and another id
    lapsed,     \* history: a process wrote settings it had read before another's write
    refused     \* history: settings that could not be written

catalogVars == <<settings, apps, discoveries, sets, listed, added, crossed, lapsed, refused>>

Ids(models) == {models[i].id : i \in DOMAIN models}

\* ValidateSettings: an id twice is refused.
Valid(s) == \A i, j \in DOMAIN s.models : s.models[i].id = s.models[j].id => i = j

-----------------------------------------------------------------------------
(* Operations on the list.                                                 *)

\* modelExists: by id or by name.
Exists(models, label) == \E i \in DOMAIN models : label \in {models[i].id, models[i].name}

\* The model AutoAssignModels takes: the first of the highest rank.
Preferred(models) ==
    LET best == {i \in DOMAIN models : \A j \in DOMAIN models : Rank[models[j].name] <= Rank[models[i].name]}
    IN  models[CHOOSE i \in best : \A j \in best : i <= j].id

AutoAssignModels(s) ==
    IF s.models = <<>> \/ Exists(s.models, s.active) THEN s
    ELSE [s EXCEPT !.active = Preferred(s.models)]

\* AssignFreshDefaultModels, where nothing was chosen yet; AutoAssignModels elsewhere.
AssignModels(s) ==
    LET fresh == {i \in DOMAIN s.models : {s.models[i].id, s.models[i].name} \cap M3Labels # {}}
    IN  IF s.active = NoModel /\ fresh # {}
        THEN [s EXCEPT !.active = s.models[CHOOSE i \in fresh : \A j \in fresh : i <= j].id]
        ELSE AutoAssignModels(s)

\* The entry UpsertModel replaces, 0 for none: the first with this id or this name.
EntryFor(models, model) ==
    LET same == {i \in DOMAIN models : models[i].id = model.id \/ models[i].name = model.name}
    IN  IF same = {} THEN 0 ELSE CHOOSE i \in same : \A j \in same : i <= j

UpsertModel(models, model) ==
    LET i == EntryFor(models, model)
    IN  IF i = 0 THEN Append(models, model) ELSE [models EXCEPT ![i] = model]

\* A model the gateway lists.
Endpoint(entry) == [id |-> entry.id, name |-> entry.name, source |-> "endpoint"]

\* UpsertModel of every listed model, in the order of their ids.
Upserted(models, listing) == FoldLeft(LAMBDA ms, e : UpsertModel(ms, Endpoint(e)), models, listing)

\* Does merging the list replace an entry by one with another id?
Crosses(models, listing) ==
    \E k \in 1..Len(listing) :
        LET before == Upserted(models, SubSeq(listing, 1, k - 1)) i == EntryFor(before, listing[k])
        IN  i # 0 /\ before[i].id # listing[k].id

\* A mutated form: models set by hand are pruned too.
IsUnlisted(model, fresh) == model.id \notin fresh

\* pruneStaleDiscoveredModels: not the active model, not one added by hand, and
\* nothing for an empty list.
IsStale(model, fresh) == model.source = "endpoint" /\ model.id \notin fresh

WithoutStale(models, fresh, active) ==
    FoldLeft(LAMBDA ms, m : IF IsStale(m, fresh) /\ m.id # active THEN ms ELSE Append(ms, m), <<>>, models)

PruneStale(s, listing) ==
    IF listing = <<>> THEN s
    ELSE [s EXCEPT !.models = WithoutStale(@, {listing[i].id : i \in DOMAIN listing}, s.active)]

AddDiscoveredModels(s, listing) ==
    AssignModels(PruneStale([s EXCEPT !.models = Upserted(@, listing)], listing))

-----------------------------------------------------------------------------
(* The file.                                                               *)

Closed == [at |-> "closed", held |-> [models |-> <<>>, active |-> NoModel, pinned |-> FALSE], behind |-> FALSE]

\* SaveSettings: the normalised settings replace the file, if they are valid.  Those
\* who read it before are behind from now on.
SaveSettings(p, s, at) ==
    IF Valid(s)
    THEN /\ settings' = AutoAssignModels(s)
         /\ apps' = [q \in Apps |-> IF q = p THEN [at |-> at, held |-> s, behind |-> FALSE]
                                    ELSE IF apps[q].at = "closed" THEN apps[q] ELSE [apps[q] EXCEPT !.behind = TRUE]]
         /\ lapsed' = (lapsed \/ apps[p].behind)
         /\ UNCHANGED refused
    ELSE /\ refused' = TRUE
         /\ apps' = [apps EXCEPT ![p] = IF @.at = "open" THEN @ ELSE Closed]
         /\ UNCHANGED <<settings, lapsed>>

\* openApplicationCore, or `config discover`: LoadSettings, then the gateway is asked.
LoadSettings(p, at) ==
    /\ apps[p].at = "closed" /\ discoveries < MaxListings /\ discoveries' = discoveries + 1
    /\ apps' = [apps EXCEPT ![p] = [at |-> at, held |-> AutoAssignModels(settings), behind |-> FALSE]]
    /\ UNCHANGED <<settings, sets, listed, added, crossed, lapsed, refused>>

\* The answer is merged and written.  Opening ignores an empty list, and cannot go
\* on when the settings are refused; `config discover` ends with the write; an open
\* application asks when a key is set and it has no models (setAPIKey).
Discover(p, listing) ==
    LET held == apps[p].held IN
    /\ \/ apps[p].at = "discovering"
       \/ apps[p].at = "opening" /\ listing # <<>>
       \/ apps[p].at = "open" /\ held.models = <<>>
    /\ listed' = listed \union {listing[i].id : i \in DOMAIN listing}
    /\ crossed' = (crossed \/ Crosses(held.models, listing))
    /\ SaveSettings(p, AddDiscoveredModels(held, listing), IF apps[p].at = "discovering" THEN "closed" ELSE "open")
    /\ UNCHANGED <<discoveries, sets, added>>

\* The gateway was not asked, or did not answer.
OfflineStart(p) ==
    /\ apps[p].at \in {"opening", "discovering"}
    /\ apps' = [apps EXCEPT ![p] = IF @.at = "opening" THEN [@ EXCEPT !.at = "open"] ELSE Closed]
    /\ UNCHANGED <<settings, discoveries, sets, listed, added, crossed, lapsed, refused>>

\* `config set model`: the model is added or replaced, made active and pinned.
SetModel(label) ==
    LET model == [id |-> label, name |-> label, source |-> "manual"]
        loaded == AutoAssignModels(settings)
        i == EntryFor(loaded.models, model)
        set == [models |-> UpsertModel(loaded.models, model), active |-> label, pinned |-> TRUE]
    IN  /\ sets < MaxSets /\ sets' = sets + 1
        /\ crossed' = (crossed \/ (i # 0 /\ loaded.models[i].id # label))
        /\ IF Valid(set)
           THEN /\ settings' = set /\ added' = added \union {label}
                /\ apps' = [q \in Apps |-> IF apps[q].at = "closed" THEN apps[q] ELSE [apps[q] EXCEPT !.behind = TRUE]]
                /\ UNCHANGED refused
           ELSE refused' = TRUE /\ UNCHANGED <<settings, apps, added>>
        /\ UNCHANGED <<discoveries, listed, lapsed>>

\* A setting is changed in an open application: all it holds is written.
SaveHeld(p) ==
    /\ apps[p].at = "open" /\ SaveSettings(p, apps[p].held, "open")
    /\ UNCHANGED <<discoveries, sets, listed, added, crossed>>

\* applyModelSwitch, by the advisor or for a model that is missing (reconcileCatalog):
\* in what the application holds, and never when the choice is pinned.
SwitchModel(p, id) ==
    /\ apps[p].at = "open" /\ ~apps[p].held.pinned /\ id \in Ids(apps[p].held.models)
    /\ id # apps[p].held.active
    /\ apps' = [apps EXCEPT ![p].held.active = id]
    /\ UNCHANGED <<settings, discoveries, sets, listed, added, crossed, lapsed, refused>>

CloseApp(p) ==
    /\ apps[p].at = "open" /\ apps' = [apps EXCEPT ![p] = Closed]
    /\ UNCHANGED <<settings, discoveries, sets, listed, added, crossed, lapsed, refused>>

-----------------------------------------------------------------------------

\* The first run: no settings file, or one with a model set by hand.
CatalogInit ==
    /\ settings = [models |-> <<>>, active |-> NoModel, pinned |-> FALSE]
    /\ apps = [p \in Apps |-> Closed]
    /\ discoveries = 0 /\ sets = 0 /\ listed = {} /\ added = {}
    /\ crossed = FALSE /\ lapsed = FALSE /\ refused = FALSE

CatalogNext ==
    \/ \E p \in Apps :
        \/ \E at \in {"opening", "discovering"} : LoadSettings(p, at)
        \/ \E l \in Listings : Discover(p, l)
        \/ OfflineStart(p) \/ SaveHeld(p) \/ CloseApp(p)
        \/ \E id \in Labels : SwitchModel(p, id)
    \/ \E label \in Labels : SetModel(label)

-----------------------------------------------------------------------------

\* The active model can be asked for: it is in the list by its id (resolveModel).
Usable(s) == s.active \in Ids(s.models)

\* Renewing the list never strands a session: while no entry changes its id and no
\* process writes over another, every list keeps its active model, the model the
\* user pinned stays active in the file, and settings are always accepted.
RefreshStrandsNothing ==
    ~crossed =>
        /\ ~refused
        /\ \A s \in {settings} \union {apps[p].held : p \in Apps} : s.models # <<>> => Usable(s)
        /\ (settings.pinned /\ ~lapsed) => settings.active \in added

\* A model the user added stays in the list, also when the gateway does not know
\* it: it goes only after the gateway has listed it once, or another process wrote
\* over it.
AddedIsKept ==
    (~crossed /\ ~lapsed) => added \subseteq Ids(settings.models) \union listed

\* Renewing the list keeps what the sessions and the user chose.
CatalogIsKept == RefreshStrandsNothing /\ AddedIsKept
=============================================================================
