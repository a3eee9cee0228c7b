---------------------------- MODULE AssetCatalog ----------------------------
(***************************************************************************)
(* The asset catalog: manifests that name a blob of content, two kinds of  *)
(* root sets that retain manifests, a collection of what no root retains,  *)
(* a read-only report of what a collection would do, and bundles that      *)
(* carry a catalog's content to another.  A command works on a copy and    *)
(* swaps it in, or leaves the catalog as it was.                           *)
(* Source: src/src/assets.cpp, src/include/omniweft/assets.hpp.            *)
(*                                                                         *)
(* An asset's identifier is the hash of its manifest and a blob's that of  *)
(* its bytes, so a bundle is the sets of both; a bundle with a duplicate,  *)
(* a bad hash, path, codec or length is one of those that do not decode.   *)
(***************************************************************************)
EXTENDS Integers, FiniteSets, Functions

CONSTANTS
  Assets,         \* manifests, by AssetId
  Blobs,
  Content,        \* the blob a manifest names
  Size,           \* a blob's decoded length
  Names,          \* names of history roots
  ManifestLimit, BlobLimit, HistoryLimit, RootsLimit, ByteLimit,
  LastRevision    \* the last revision

ASSUME CatalogAssumption ==
  /\ IsFiniteSet(Assets) /\ IsFiniteSet(Blobs) /\ IsFiniteSet(Names)
  /\ Content \in [Assets -> Blobs] /\ Size \in [Blobs -> Nat]
  /\ {ManifestLimit, BlobLimit, HistoryLimit, RootsLimit, ByteLimit, LastRevision} \subseteq Nat

VARIABLES
  revision, assets, blobs,  \* of Catalog::state_
  current,                  \* current_roots
  named,                    \* the names in history_roots
  history,                  \* the set of each of them
  report                    \* the last report a reader was given

content == <<assets, blobs>>
rootSets == <<current, named, history>>
catalogVars == <<revision, content, rootSets, report>>

NoReport == [revision |-> -1, removable_assets |-> {}, removable_blobs |-> {}]

CatalogInit ==
  /\ revision = 0 /\ assets = {} /\ blobs = {}
  /\ current = {} /\ named = {} /\ history = [n \in Names |-> {}]
  /\ report = NoReport

\* What a command needs before it is looked at, and what it does when it commits.
Commits == revision < LastRevision /\ revision' = revision + 1

-----------------------------------------------------------------------------
(* Bundles                                                                 *)

Bundles == [assets : SUBSET Assets, blobs : SUBSET Blobs]

Quota(manifests, contents) ==
  /\ Cardinality(manifests) <= ManifestLimit /\ Cardinality(contents) <= BlobLimit
  /\ SumFunctionOnSet(Size, contents) <= ByteLimit

\* decode_bundle: no manifest without its blob and no blob without a manifest.
Decodes(bundle) ==
  /\ Quota(bundle.assets, bundle.blobs)
  /\ bundle.blobs = {Content[a] : a \in bundle.assets}

\* Mutated form of Import: what the catalog has already is not counted.
ImportBeyondQuota(bundle) ==
  /\ Commits
  /\ Decodes(bundle)
  /\ assets' = assets \cup bundle.assets /\ blobs' = blobs \cup bundle.blobs
  /\ UNCHANGED <<rootSets, report>>

Import(bundle) ==
  /\ Commits
  /\ Decodes(bundle)
  /\ assets' = assets \cup bundle.assets /\ blobs' = blobs \cup bundle.blobs
  /\ Quota(assets', blobs')
  /\ UNCHANGED <<rootSets, report>>

Export == [assets |-> assets, blobs |-> blobs]

-----------------------------------------------------------------------------
(* Roots, collection and the report                                        *)

Roots(ids) == Cardinality(ids) <= RootsLimit /\ ids \subseteq assets

SetCurrentRoots(ids) ==
  /\ Commits /\ Roots(ids)
  /\ current' = ids
  /\ UNCHANGED <<content, named, history, report>>

SetHistoryRoots(name, ids) ==
  /\ Commits /\ Roots(ids)
  /\ name \in named \/ Cardinality(named) < HistoryLimit
  /\ named' = named \cup {name} /\ history' = [history EXCEPT ![name] = ids]
  /\ UNCHANGED <<content, current, report>>

RemoveHistoryRoots(name) ==
  /\ Commits
  /\ named' = named \ {name} /\ history' = [history EXCEPT ![name] = {}]
  /\ UNCHANGED <<content, current, report>>

\* Mutated form of Retained: history roots are forgotten.
RetainedNow == current

\* The manifests collect keeps.
Retained == current \cup UNION {history[n] : n \in named}

Collect ==
  /\ Commits
  /\ assets' = assets \cap Retained
  /\ blobs' = blobs \cap {Content[a] : a \in assets'}
  /\ UNCHANGED <<rootSets, report>>

\* inspect_retention's rows: which root sets keep a manifest, which manifests a blob.
RootsOf(a) == {n \in named : a \in history[n]}
Retaining(b) == {a \in assets : Content[a] = b /\ (a \in current \/ RootsOf(a) # {})}

\* Mutated form of InspectRetention: a blob is removable with any manifest of its.
InspectHastily ==
  /\ report' = [revision |-> revision,
                removable_assets |-> {a \in assets : a \notin current /\ RootsOf(a) = {}},
                removable_blobs |-> {b \in blobs : \E a \in assets :
                                       Content[a] = b /\ a \notin current /\ RootsOf(a) = {}}]
  /\ UNCHANGED <<revision, content, rootSets>>

\* inspect_retention, which answers for the catalog's own revision only.
InspectRetention ==
  /\ report' = [revision |-> revision,
                removable_assets |-> {a \in assets : a \notin current /\ RootsOf(a) = {}},
                removable_blobs |-> {b \in blobs : Retaining(b) = {}}]
  /\ UNCHANGED <<revision, content, rootSets>>

CatalogNext ==
  \/ \E bundle \in Bundles : Import(bundle)
  \/ \E ids \in SUBSET Assets :
       SetCurrentRoots(ids) \/ \E name \in Names : SetHistoryRoots(name, ids)
  \/ \E name \in Names : RemoveHistoryRoots(name)
  \/ Collect \/ InspectRetention

CatalogSpec == CatalogInit /\ [][CatalogNext]_catalogVars

-----------------------------------------------------------------------------

\* The types of the variables.
TypeOK ==
  /\ revision \in 0 .. LastRevision
  /\ assets \subseteq Assets /\ blobs \subseteq Blobs
  /\ current \in SUBSET Assets
  /\ named \subseteq Names /\ history \in [Names -> SUBSET Assets]
  /\ report \in [revision : -1 .. LastRevision,
                 removable_assets : SUBSET Assets, removable_blobs : SUBSET Blobs]

(***************************************************************************)
(* What a root retains is there: its manifest and its content, whatever    *)
(* was imported, re-rooted and collected in between.                       *)
(***************************************************************************)
RootsResolve ==
  \A a \in current \cup UNION {history[n] : n \in named} :
    a \in assets /\ Content[a] \in blobs

(***************************************************************************)
(* A catalog can always be carried over: what export_bundle writes is a    *)
(* bundle that an empty catalog imports, since no operation leaves a       *)
(* manifest without its blob, a blob without a manifest, or more of them   *)
(* than a bundle may have.                                                 *)
(***************************************************************************)
ExportImports == Decodes(Export)

(***************************************************************************)
(* A report foretells the collection: if one follows at the report's       *)
(* revision it removes exactly the manifests and blobs the report names,   *)
(* although the two are computed in different ways.                        *)
(***************************************************************************)
ReportForetells ==
  [][Collect /\ report.revision = revision =>
       /\ assets \ assets' = report.removable_assets
       /\ blobs \ blobs' = report.removable_blobs]_catalogVars
=============================================================================
