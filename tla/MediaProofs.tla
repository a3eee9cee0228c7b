----------------------------- MODULE MediaProofs -----------------------------
(***************************************************************************)
(* Theorems about the asset catalog and about the presentation run, which  *)
(* share the lemmas about sums and nothing else.                           *)
(*                                                                         *)
(* The catalog, for any manifests, contents and limits: what roots retain  *)
(* is stored, an export can be imported, and a report foretells the        *)
(* collection.                                                             *)
(*                                                                         *)
(* The run, for every set of extents, budgets and revisions and however    *)
(* the GPU, the window and the calls behave.  The argument: a fence is     *)
(* pending as long as the GPU works, nothing is destroyed before pending   *)
(* is empty, and work is only begun at places where everything it uses has *)
(* been made.  A packet is followed through the mesh and the readback      *)
(* buffers to the captures and to the window.  Every object has a place in *)
(* the order of construction after, and in that of destruction before,     *)
(* what it was made from, so the orders may stop anywhere; and the bytes   *)
(* counted are the sum over the memories that exist.                       *)
(***************************************************************************)
EXTENDS AssetCatalog, Renderer, SumTheorems, TLAPS

-----------------------------------------------------------------------------
(* The asset catalog                                                       *)

\* What the two root sets keep is stored.
Kept ==
  /\ current \subseteq assets
  /\ \A n \in named : history[n] \subseteq assets
  /\ history \in [Names -> SUBSET Assets] /\ named \subseteq Names
  /\ assets \subseteq Assets
  /\ \A a \in assets : Content[a] \in blobs

RemovableAssets == {a \in assets : a \notin current /\ RootsOf(a) = {}}
RemovableBlobs == {b \in blobs : Retaining(b) = {}}

\* A report of the present revision is what the present state says.
Fresh ==
  /\ revision \in Nat
  /\ report.revision = revision =>
       report.removable_assets = RemovableAssets /\ report.removable_blobs = RemovableBlobs
  /\ report.revision \in Int /\ report.revision <= revision

CatalogInv == Kept /\ Fresh

-----------------------------------------------------------------------------

(***************************************************************************)
(* collect's retained set is the rule of the report, row by row.           *)
(***************************************************************************)
LEMMA RetainedByRow ==
  ASSUME NEW a
  PROVE  a \in Retained <=> a \in current \/ RootsOf(a) # {}
  BY DEF Retained, RootsOf

(***************************************************************************)
(* What collect removes is what a report of this state lists.              *)
(***************************************************************************)
LEMMA CollectRemovesListed ==
  ASSUME Collect
  PROVE  /\ assets \ assets' = RemovableAssets
         /\ blobs \ blobs' = RemovableBlobs
<1>1. assets' = assets \cap Retained /\ blobs' = blobs \cap {Content[a] : a \in assets'}
  BY DEF Collect
<1>2. assets \ assets' = {a \in assets : a \notin Retained}
  BY <1>1
<1>3. assets \ assets' = RemovableAssets
  BY <1>2, RetainedByRow DEF RemovableAssets
<1>4. \A b : Retaining(b) = {a \in assets' : Content[a] = b}
  BY <1>1, RetainedByRow DEF Retaining
<1>5. \A b : b \in {Content[a] : a \in assets'} <=> Retaining(b) # {}
  BY <1>4
<1>6. blobs \ blobs' = RemovableBlobs
  BY <1>1, <1>5 DEF RemovableBlobs
<1> QED BY <1>3, <1>6

(***************************************************************************)
(* The empty catalog keeps what its roots, there are none, retain.         *)
(***************************************************************************)
LEMMA InitCatalog == CatalogInit => CatalogInv
  BY DEF CatalogInit, CatalogInv, Kept, Fresh, NoReport

(***************************************************************************)
(* Every command keeps the roots' manifests and their blobs.               *)
(***************************************************************************)
LEMMA StepKept ==
  ASSUME Kept, [CatalogNext]_catalogVars
  PROVE  Kept'
<1> USE CatalogAssumption DEF Kept
<1>1. ASSUME NEW bundle \in Bundles, Import(bundle)
      PROVE  Kept'
  BY <1>1 DEF Import, Decodes, Bundles, rootSets
<1>2. ASSUME NEW ids \in SUBSET Assets, SetCurrentRoots(ids)
      PROVE  Kept'
  BY <1>2 DEF SetCurrentRoots, Roots, content
<1>3. ASSUME NEW ids \in SUBSET Assets, NEW name \in Names, SetHistoryRoots(name, ids)
      PROVE  Kept'
  BY <1>3 DEF SetHistoryRoots, Roots, content
<1>4. ASSUME NEW name \in Names, RemoveHistoryRoots(name)
      PROVE  Kept'
  BY <1>4 DEF RemoveHistoryRoots, content
<1>5. ASSUME Collect
      PROVE  Kept'
  <2>1. UNCHANGED rootSets /\ assets' = assets \cap Retained
        /\ blobs' = blobs \cap {Content[a] : a \in assets'}
    BY <1>5 DEF Collect
  <2>2. current \subseteq Retained /\ \A n \in named : history[n] \subseteq Retained
    BY DEF Retained
  <2> QED BY <2>1, <2>2 DEF rootSets
<1>6. ASSUME InspectRetention
      PROVE  Kept'
  BY <1>6 DEF InspectRetention, content, rootSets
<1>7. ASSUME UNCHANGED catalogVars
      PROVE  Kept'
  BY <1>7 DEF catalogVars, content, rootSets
<1> QED BY <1>1, <1>2, <1>3, <1>4, <1>5, <1>6, <1>7 DEF CatalogNext

(***************************************************************************)
(* Every command leaves the reports it makes stale behind its revision.    *)
(***************************************************************************)
LEMMA StepFresh ==
  ASSUME Fresh, [CatalogNext]_catalogVars
  PROVE  Fresh'
<1>1. ASSUME Commits, UNCHANGED report
      PROVE  Fresh'
  BY <1>1 DEF Fresh, Commits
<1>2. ASSUME InspectRetention
      PROVE  Fresh'
  <2>1. UNCHANGED <<revision, assets, blobs, current, named, history>>
    BY <1>2 DEF InspectRetention, content, rootSets
  <2>2. RemovableAssets' = RemovableAssets /\ RemovableBlobs' = RemovableBlobs
    BY <2>1 DEF RemovableAssets, RemovableBlobs, Retaining, RootsOf
  <2>3. report' = [revision |-> revision, removable_assets |-> RemovableAssets,
                   removable_blobs |-> RemovableBlobs]
    BY <1>2 DEF InspectRetention, RemovableAssets, RemovableBlobs
  <2> QED BY <2>1, <2>2, <2>3 DEF Fresh
<1>3. ASSUME UNCHANGED catalogVars
      PROVE  Fresh'
  BY <1>3 DEF Fresh, catalogVars, content, rootSets, RemovableAssets, RemovableBlobs, Retaining, RootsOf
<1> QED BY <1>1, <1>2, <1>3 DEF CatalogNext, Import, SetCurrentRoots, SetHistoryRoots,
                               RemoveHistoryRoots, Collect

(***************************************************************************)
(* For any manifests and limits, what a root set retains is in the         *)
(* catalog with its content.                                               *)
(***************************************************************************)
THEOREM RootsStored == CatalogSpec => []RootsResolve
<1>1. CatalogInv /\ [CatalogNext]_catalogVars => CatalogInv'
  BY StepKept, StepFresh DEF CatalogInv
<1>2. CatalogInv => RootsResolve
  BY DEF CatalogInv, Kept, RootsResolve
<1> QED BY InitCatalog, <1>1, <1>2, PTL DEF CatalogSpec

(***************************************************************************)
(* For any catalog, a collection at a report's revision removes exactly    *)
(* what the report lists.                                                  *)
(***************************************************************************)
THEOREM ReportsForetell == CatalogSpec => ReportForetells
<1>1. CatalogInv /\ [CatalogNext]_catalogVars => CatalogInv'
  BY StepKept, StepFresh DEF CatalogInv
<1>2. ASSUME CatalogInv, Collect, report.revision = revision
      PROVE  /\ assets \ assets' = report.removable_assets
             /\ blobs \ blobs' = report.removable_blobs
  BY <1>2, CollectRemovesListed DEF CatalogInv, Fresh
<1>3. CatalogInv /\ [CatalogNext]_catalogVars =>
        [Collect /\ report.revision = revision =>
           /\ assets \ assets' = report.removable_assets
           /\ blobs \ blobs' = report.removable_blobs]_catalogVars
  BY <1>2
<1> QED BY InitCatalog, <1>1, <1>3, PTL DEF CatalogSpec, ReportForetells

\* What an export holds: no more than a bundle may, and blobs exactly of its manifests.
Exportable == Quota(assets, blobs) /\ blobs = {Content[a] : a \in assets}

LEMMA InitExportable == CatalogInit => Exportable
<1>1. Cardinality({}) = 0 /\ SumFunctionOnSet(Size, {}) = 0
  BY FS_EmptySet, SumEmpty
<1>2. 0 <= ManifestLimit /\ 0 <= BlobLimit /\ 0 <= ByteLimit
  BY CatalogAssumption
<1> QED
  BY <1>1, <1>2 DEF CatalogInit, Exportable, Quota

(***************************************************************************)
(* What fits a bundle fits with less in it.                                *)
(***************************************************************************)
LEMMA QuotaOfPart ==
  ASSUME NEW A \in SUBSET Assets, NEW B \in SUBSET Blobs, Quota(A, B),
         NEW C \in SUBSET A, NEW D \in SUBSET B
  PROVE  Quota(C, D)
<1>1. IsFiniteSet(A) /\ IsFiniteSet(B)
  BY CatalogAssumption, FS_Subset
<1>2. \A b \in B : Size[b] \in Nat
  BY CatalogAssumption
<1>3. Cardinality(C) <= Cardinality(A) /\ Cardinality(D) <= Cardinality(B)
  BY <1>1, FS_Subset
<1>4. SumFunctionOnSet(Size, D) <= SumFunctionOnSet(Size, B)
  BY <1>1, <1>2, SumSubset
<1>5. /\ {Cardinality(A), Cardinality(B), Cardinality(C), Cardinality(D)} \subseteq Nat
      /\ {SumFunctionOnSet(Size, D), SumFunctionOnSet(Size, B)} \subseteq Nat
  <2>1. IsFiniteSet(C) /\ IsFiniteSet(D) /\ \A b \in D : Size[b] \in Nat
    BY <1>1, <1>2, FS_Subset
  <2> QED BY <1>1, <1>2, <2>1, FS_CardinalityType, SumNat
<1>6. {ManifestLimit, BlobLimit, ByteLimit} \subseteq Nat
  BY CatalogAssumption
<1> QED BY <1>3, <1>4, <1>5, <1>6 DEF Quota

(***************************************************************************)
(* An import is counted with what is there, a collection leaves less.      *)
(***************************************************************************)
LEMMA StepExportable ==
  ASSUME Kept, Exportable, [CatalogNext]_catalogVars
  PROVE  Exportable'
<1>1. ASSUME NEW bundle \in Bundles, Import(bundle)
      PROVE  Exportable'
  BY <1>1 DEF Import, Decodes, Exportable
<1>2. ASSUME Collect
      PROVE  Exportable'
  <2>1. assets' = assets \cap Retained /\ blobs' = blobs \cap {Content[a] : a \in assets'}
    BY <1>2 DEF Collect
  <2>2. blobs' = {Content[a] : a \in assets'}
    BY <2>1 DEF Exportable
  <2>3. assets \subseteq Assets /\ blobs \subseteq Blobs
    BY CatalogAssumption DEF Kept, Exportable
  <2>4. Quota(assets', blobs')
    BY <2>1, <2>3, QuotaOfPart DEF Exportable
  <2> QED BY <2>2, <2>4 DEF Exportable
<1>3. ASSUME UNCHANGED content
      PROVE  Exportable'
  BY <1>3 DEF content, Exportable
<1> QED BY <1>1, <1>2, <1>3 DEF CatalogNext, SetCurrentRoots, SetHistoryRoots, RemoveHistoryRoots,
                               InspectRetention, catalogVars

(***************************************************************************)
(* For any manifests, sizes and limits, what a catalog holds can always be *)
(* exported and imported by an empty one.                                  *)
(***************************************************************************)
THEOREM ExportsImport == CatalogSpec => []ExportImports
<1>1. CatalogInv /\ Exportable /\ [CatalogNext]_catalogVars => CatalogInv' /\ Exportable'
  BY StepKept, StepFresh, StepExportable DEF CatalogInv
<1>2. Exportable => ExportImports
  BY DEF Exportable, ExportImports, Decodes, Export
<1> QED BY InitCatalog, InitExportable, <1>1, <1>2, PTL DEF CatalogSpec

-----------------------------------------------------------------------------
(* The presentation run                                                    *)

SetUpNames == {"sdl", "window", "instance", "messenger", "surface", "device", "command_pool",
               "rendered", "acquire_fence", "graphics_fence", "present_fence", "vertices", "indices"}
SwapNames == {"swapchain", "color", "ids", "depth", "color_read", "id_read", "depth_read",
              "render_pass", "framebuffer", "vertex_shader", "fragment_shader",
              "pipeline_layout", "pipeline"}
Parts == {"object", "memory", "view"}

\* Which names have memory, and which a view.
Imaged == {"color", "ids", "depth"}
Buffered == Imaged \cup {"vertices", "indices", "color_read", "id_read", "depth_read"}
AllNames == SetUpNames \cup SwapNames

\* The objects by their names.
Things ==
  {o \in [of : AllNames, part : Parts] : /\ o.part = "memory" => o.of \in Buffered
                                         /\ o.part = "view" => o.of \in Imaged}

\* The place of a name in the order of construction, and in that of destruction.
UpPlace ==
  [sdl |-> 1, window |-> 2, instance |-> 3, messenger |-> 4, surface |-> 5, device |-> 6,
   command_pool |-> 7, rendered |-> 8, acquire_fence |-> 9, graphics_fence |-> 10,
   present_fence |-> 11, vertices |-> 12, indices |-> 13, swapchain |-> 14, color |-> 15,
   ids |-> 16, depth |-> 17, color_read |-> 18, id_read |-> 19, depth_read |-> 20,
   render_pass |-> 21, framebuffer |-> 22, vertex_shader |-> 23, fragment_shader |-> 24,
   pipeline_layout |-> 25, pipeline |-> 26]
DownPlace ==
  [pipeline |-> 1, pipeline_layout |-> 2, vertex_shader |-> 3, fragment_shader |-> 4,
   framebuffer |-> 5, render_pass |-> 6, color |-> 7, ids |-> 8, depth |-> 9,
   color_read |-> 10, id_read |-> 11, depth_read |-> 12, swapchain |-> 13, vertices |-> 14,
   indices |-> 15, rendered |-> 16, graphics_fence |-> 17, present_fence |-> 18,
   acquire_fence |-> 19, command_pool |-> 20, device |-> 21, surface |-> 22, messenger |-> 23,
   instance |-> 24, window |-> 25, sdl |-> 26]

\* The place of an object: views come last of an image, or first.
Place(P, v, o) == 4 * P[o.of] + (IF o.part = "object" THEN 1 ELSE IF o.part = "memory" THEN 2 ELSE v)

\* A sequence of all objects of the names at places a to b, in their order.
Sorted(P, v, s, a, b) ==
  /\ s \in Seq(Things)
  /\ Elements(s) = {o \in Things : P[o.of] \in a .. b}
  /\ \A i \in 1 .. Len(s) : \A j \in 1 .. Len(s) : i < j => Place(P, v, s[i]) < Place(P, v, s[j])

(***************************************************************************)
(* What one step of an order destroys or makes is sorted, and so are two   *)
(* sorted sequences, one after the other.                                  *)
(***************************************************************************)
LEMMA SortedPiece ==
  ASSUME NEW P, \A n \in AllNames : P[n] \in Nat, \A m, n \in AllNames : P[m] = P[n] => m = n,
         NEW b \in AllNames
  PROVE  /\ b \notin Buffered => Sorted(P, 0, One(b), P[b], P[b]) /\ Sorted(P, 3, One(b), P[b], P[b])
         /\ b \in Buffered \ Imaged =>
              Sorted(P, 0, Buffer(b), P[b], P[b]) /\ Sorted(P, 3, Buffer(b), P[b], P[b])
         /\ b \in Imaged => Sorted(P, 0, FreeImage(b), P[b], P[b]) /\ Sorted(P, 3, Image(b), P[b], P[b])
<1> DEFINE o == [of |-> b, part |-> "object"]
           m == [of |-> b, part |-> "memory"]
           w == [of |-> b, part |-> "view"]
<1>1. {x \in Things : P[x.of] \in P[b] .. P[b]} = {x \in Things : x.of = b}
  BY DEF Things
<1>2. \A v : Place(P, v, o) = 4 * P[b] + 1 /\ Place(P, v, m) = 4 * P[b] + 2 /\ Place(P, v, w) = 4 * P[b] + v
  BY DEF Place
<1>3. CASE b \notin Buffered
  <2>1. o \in Things /\ {x \in Things : x.of = b} = {o}
    <3>1. b \notin Imaged
      BY <1>3 DEF Buffered
    <3>2. ASSUME NEW x \in Things, x.of = b PROVE x = o
      <4>1. x \in [of : AllNames, part : Parts]
        BY <3>2 DEF Things
      <4>2. (x.part = "memory" => x.of \in Buffered) /\ (x.part = "view" => x.of \in Imaged)
        BY <3>2 DEF Things
      <4>3. x.part = "object"
        BY <1>3, <3>1, <3>2, <4>1, <4>2 DEF Parts
      <4> QED BY <3>2, <4>1, <4>3
    <3>3. o \in Things
      BY DEF Things, Parts
    <3> QED BY <3>2, <3>3
  <2>2. One(b) \in Seq(Things) /\ Len(One(b)) = 1 /\ Elements(One(b)) = {o}
    BY <2>1 DEF One, Elements
  <2> QED BY <1>1, <1>3, <2>1, <2>2 DEF Sorted, Imaged, Buffered
<1>4. CASE b \in Buffered \ Imaged
  <2>1. o \in Things /\ m \in Things /\ {x \in Things : x.of = b} = {o, m}
    BY <1>4 DEF Things, Parts
  <2>2. /\ Buffer(b) \in Seq(Things) /\ Len(Buffer(b)) = 2 /\ Elements(Buffer(b)) = {o, m}
        /\ Buffer(b)[1] = o /\ Buffer(b)[2] = m
    BY <2>1 DEF Buffer, Elements
  <2> QED BY <1>1, <1>2, <1>4, <2>1, <2>2 DEF Sorted
<1>5. CASE b \in Imaged
  <2>1. o \in Things /\ m \in Things /\ w \in Things /\ {x \in Things : x.of = b} = {o, m, w}
    BY <1>5 DEF Things, Parts, Buffered
  <2>2. Image(b) = <<o, m>> \o <<w>> /\ FreeImage(b) = <<w>> \o <<o, m>>
    BY DEF Image, FreeImage, Buffer
  <2> HIDE DEF o, m, w
  <2>3. <<o, m>> \in Seq(Things) /\ <<w>> \in Seq(Things)
    BY <2>1
  <2>4. /\ Image(b) \in Seq(Things) /\ Len(Image(b)) = 3
        /\ Image(b)[1] = o /\ Image(b)[2] = m /\ Image(b)[3] = w
        /\ FreeImage(b) \in Seq(Things) /\ Len(FreeImage(b)) = 3
        /\ FreeImage(b)[1] = w /\ FreeImage(b)[2] = o /\ FreeImage(b)[3] = m
    BY <2>2, <2>3
  <2>5. Elements(Image(b)) = {o, m, w} /\ Elements(FreeImage(b)) = {o, m, w}
    BY <2>4 DEF Elements
  <2>6. \A i, j \in 1 .. 3 : i < j => /\ Place(P, 3, Image(b)[i]) < Place(P, 3, Image(b)[j])
                                      /\ Place(P, 0, FreeImage(b)[i]) < Place(P, 0, FreeImage(b)[j])
    BY <1>2, <2>4
  <2> QED BY <1>1, <1>5, <2>1, <2>4, <2>6, <2>5 DEF Sorted, Buffered
<1> QED BY <1>3, <1>4, <1>5

LEMMA SortedJoin ==
  ASSUME NEW P, \A n \in AllNames : P[n] \in Nat, NEW v \in {0, 3},
         NEW a \in Nat, NEW b \in Nat, NEW c \in Nat, a <= b + 1, b <= c,
         NEW s, NEW t, Sorted(P, v, s, a, b), Sorted(P, v, t, b + 1, c)
  PROVE  Sorted(P, v, s \o t, a, c)
<1> DEFINE u == s \o t
<1>1. s \in Seq(Things) /\ t \in Seq(Things)
  BY DEF Sorted
<1>2. u \in Seq(Things) /\ Len(u) = Len(s) + Len(t) /\ Len(s) \in Nat /\ Len(t) \in Nat
  BY <1>1
<1>3. /\ \A i \in 1 .. Len(s) : u[i] = s[i]
      /\ \A i \in 1 .. Len(u) : ~(i <= Len(s)) => i - Len(s) \in 1 .. Len(t) /\ u[i] = t[i - Len(s)]
      /\ \A i \in 1 .. Len(t) : u[i + Len(s)] = t[i]
  BY <1>1, <1>2
<1>4. DOMAIN s = 1 .. Len(s) /\ DOMAIN t = 1 .. Len(t) /\ DOMAIN u = 1 .. Len(u)
  BY <1>1, <1>2
<1> HIDE DEF u
<1>5. Elements(u) = Elements(s) \cup Elements(t)
  <2>1. \A x \in Elements(s) : x \in Elements(u)
    BY <1>2, <1>3, <1>4 DEF Elements
  <2>2. \A x \in Elements(t) : x \in Elements(u)
    <3> TAKE x \in Elements(t)
    <3>1. PICK i \in 1 .. Len(t) : x = t[i]
      BY <1>4 DEF Elements
    <3>2. i + Len(s) \in 1 .. Len(u)
      BY <1>2
    <3>3. u[i + Len(s)] = x
      BY <1>3, <3>1
    <3> QED BY <1>4, <3>2, <3>3 DEF Elements
  <2>3. \A x \in Elements(u) : x \in Elements(s) \/ x \in Elements(t)
    <3> TAKE x \in Elements(u)
    <3>1. PICK i \in 1 .. Len(u) : x = u[i]
      BY <1>4 DEF Elements
    <3>2. CASE i <= Len(s)
      BY <1>2, <1>3, <1>4, <3>1, <3>2 DEF Elements
    <3>3. CASE ~(i <= Len(s))
      BY <1>3, <1>4, <3>1, <3>3 DEF Elements
    <3> QED BY <3>2, <3>3
  <2> QED BY <2>1, <2>2, <2>3
<1>6. \A o \in Things : P[o.of] \in Nat
  BY DEF Things
<1>7. Elements(u) = {o \in Things : P[o.of] \in a .. c}
  BY <1>5, <1>6 DEF Sorted
<1>8. \A o \in Things : \A k \in Nat :
        /\ P[o.of] <= k => Place(P, v, o) < 4 * (k + 1)
        /\ k <= P[o.of] => 4 * k <= Place(P, v, o)
        /\ Place(P, v, o) \in Int
  BY <1>6 DEF Place
<1>9. ASSUME NEW i \in 1 .. Len(u), NEW j \in 1 .. Len(u), i < j
      PROVE  Place(P, v, u[i]) < Place(P, v, u[j])
  <2>1. CASE j <= Len(s)
    <3>1. i \in 1 .. Len(s) /\ j \in 1 .. Len(s)
      BY <1>2, <1>9, <2>1
    <3> QED BY <1>3, <1>9, <3>1 DEF Sorted
  <2>2. CASE ~(i <= Len(s))
    <3>1. ~(j <= Len(s)) /\ i - Len(s) < j - Len(s)
      BY <1>2, <1>9, <2>2
    <3>2. i - Len(s) \in 1 .. Len(t) /\ u[i] = t[i - Len(s)]
      BY <1>3, <2>2
    <3>3. j - Len(s) \in 1 .. Len(t) /\ u[j] = t[j - Len(s)]
      BY <1>3, <3>1
    <3> QED BY <3>1, <3>2, <3>3 DEF Sorted
  <2>3. CASE i <= Len(s) /\ ~(j <= Len(s))
    <3>1. u[i] = s[i] /\ i \in 1 .. Len(s) /\ u[j] = t[j - Len(s)] /\ j - Len(s) \in 1 .. Len(t)
      <4>1. i \in 1 .. Len(s)
        BY <1>2, <2>3
      <4>2. u[i] = s[i]
        BY <1>3, <4>1
      <4>3. j - Len(s) \in 1 .. Len(t) /\ u[j] = t[j - Len(s)]
        BY <1>3, <2>3
      <4> QED BY <4>1, <4>2, <4>3
    <3>2. u[i] \in Elements(s) /\ u[j] \in Elements(t)
      BY <1>4, <3>1 DEF Elements
    <3>3. /\ u[i] \in Things /\ P[u[i].of] \in a .. b
          /\ u[j] \in Things /\ P[u[j].of] \in b + 1 .. c
      BY <3>2 DEF Sorted
    <3>4. P[u[i].of] <= b /\ b + 1 <= P[u[j].of] /\ b + 1 \in Nat
      BY <3>3
    <3>5. Place(P, v, u[i]) < 4 * (b + 1) /\ Place(P, v, u[i]) \in Int
      BY <1>8, <3>3, <3>4
    <3>6. 4 * (b + 1) <= Place(P, v, u[j]) /\ Place(P, v, u[j]) \in Int
      BY <1>8, <3>3, <3>4
    <3> QED BY <3>5, <3>6
  <2> QED BY <1>2, <2>1, <2>2, <2>3
<1> QED BY <1>2, <1>7, <1>9 DEF Sorted, u

(***************************************************************************)
(* The places are numbers from 1 to 26, no two names at the same.          *)
(***************************************************************************)
LEMMA UpPlaces ==
  /\ \A n \in AllNames : UpPlace[n] \in 1 .. 26
  /\ \A m, n \in AllNames : UpPlace[m] = UpPlace[n] => m = n
  BY DEF AllNames, SetUpNames, SwapNames, UpPlace

LEMMA DownPlaces ==
  /\ \A n \in AllNames : DownPlace[n] \in 1 .. 26
  /\ \A m, n \in AllNames : DownPlace[m] = DownPlace[n] => m = n
  BY DEF AllNames, SetUpNames, SwapNames, DownPlace

\* The order of construction, from the names at one place to those at another.
Up(s, a, b) == Sorted(UpPlace, 3, s, a, b)
UpPiece(s, k) == Up(s, k, k)

LEMMA UpThen ==
  ASSUME NEW s, NEW t, NEW a \in Nat, NEW b \in Nat, NEW k \in Nat,
         Up(s, a, b), UpPiece(t, k), a <= b, k = b + 1
  PROVE  Up(s \o t, a, k)
  BY UpPlaces, SortedJoin DEF Up, UpPiece

LEMMA UpPieces ==
  /\ UpPiece(One("sdl"), 1) /\ UpPiece(One("window"), 2)
  /\ UpPiece(One("instance"), 3) /\ UpPiece(One("messenger"), 4)
  /\ UpPiece(One("surface"), 5) /\ UpPiece(One("device"), 6)
  /\ UpPiece(One("command_pool"), 7) /\ UpPiece(One("rendered"), 8)
  /\ UpPiece(One("acquire_fence"), 9) /\ UpPiece(One("graphics_fence"), 10)
  /\ UpPiece(One("present_fence"), 11) /\ UpPiece(Buffer("vertices"), 12)
  /\ UpPiece(Buffer("indices"), 13) /\ UpPiece(One("swapchain"), 14)
  /\ UpPiece(Image("color"), 15) /\ UpPiece(Image("ids"), 16)
  /\ UpPiece(Image("depth"), 17) /\ UpPiece(Buffer("color_read"), 18)
  /\ UpPiece(Buffer("id_read"), 19) /\ UpPiece(Buffer("depth_read"), 20)
  /\ UpPiece(One("render_pass"), 21) /\ UpPiece(One("framebuffer"), 22)
  /\ UpPiece(One("vertex_shader"), 23) /\ UpPiece(One("fragment_shader"), 24)
  /\ UpPiece(One("pipeline_layout"), 25) /\ UpPiece(One("pipeline"), 26)
  BY UpPlaces, SortedPiece DEF UpPiece, Up, UpPlace, AllNames, SetUpNames, SwapNames, Buffered, Imaged

LEMMA SetUpSorted == Up(SetUp, 1, 13)
<1> DEFINE s1 == One("sdl") \o One("window") \o One("instance") \o One("messenger")
           s2 == s1 \o One("surface") \o One("device") \o One("command_pool")
           s3 == s2 \o One("rendered") \o One("acquire_fence") \o One("graphics_fence")
           s4 == s3 \o One("present_fence") \o Buffer("vertices") \o Buffer("indices")
<1>0. Up(One("sdl"), 1, 1)
  BY UpPieces DEF UpPiece
<1>1. Up(s1, 1, 4)
  BY <1>0, UpPieces, UpThen
<1> HIDE DEF s1
<1>2. Up(s2, 1, 7)
  BY <1>1, UpPieces, UpThen
<1> HIDE DEF s2
<1>3. Up(s3, 1, 10)
  BY <1>2, UpPieces, UpThen
<1> HIDE DEF s3
<1>4. Up(s4, 1, 13)
  BY <1>3, UpPieces, UpThen
<1> HIDE DEF s4
<1> QED
  BY <1>4 DEF SetUp, s1, s2, s3, s4

LEMMA BuildUpSorted == Up(BuildUp, 14, 26)
<1> DEFINE s1 == One("swapchain") \o Image("color") \o Image("ids") \o Image("depth")
           s2 == s1 \o Buffer("color_read") \o Buffer("id_read") \o Buffer("depth_read")
           s3 == s2 \o One("render_pass") \o One("framebuffer") \o One("vertex_shader")
           s4 == s3 \o One("fragment_shader") \o One("pipeline_layout") \o One("pipeline")
<1>0. Up(One("swapchain"), 14, 14)
  BY UpPieces DEF UpPiece
<1>1. Up(s1, 14, 17)
  BY <1>0, UpPieces, UpThen
<1> HIDE DEF s1
<1>2. Up(s2, 14, 20)
  BY <1>1, UpPieces, UpThen
<1> HIDE DEF s2
<1>3. Up(s3, 14, 23)
  BY <1>2, UpPieces, UpThen
<1> HIDE DEF s3
<1>4. Up(s4, 14, 26)
  BY <1>3, UpPieces, UpThen
<1> HIDE DEF s4
<1> QED
  BY <1>4 DEF BuildUp, s1, s2, s3, s4

\* The order of destruction, from the names at one place to those at another.
Down(s, a, b) == Sorted(DownPlace, 0, s, a, b)
DownPiece(s, k) == Down(s, k, k)

LEMMA DownThen ==
  ASSUME NEW s, NEW t, NEW a \in Nat, NEW b \in Nat, NEW k \in Nat,
         Down(s, a, b), DownPiece(t, k), a <= b, k = b + 1
  PROVE  Down(s \o t, a, k)
  BY DownPlaces, SortedJoin DEF Down, DownPiece

LEMMA DownPieces ==
  /\ DownPiece(One("pipeline"), 1) /\ DownPiece(One("pipeline_layout"), 2)
  /\ DownPiece(One("vertex_shader"), 3) /\ DownPiece(One("fragment_shader"), 4)
  /\ DownPiece(One("framebuffer"), 5) /\ DownPiece(One("render_pass"), 6)
  /\ DownPiece(FreeImage("color"), 7) /\ DownPiece(FreeImage("ids"), 8)
  /\ DownPiece(FreeImage("depth"), 9) /\ DownPiece(Buffer("color_read"), 10)
  /\ DownPiece(Buffer("id_read"), 11) /\ DownPiece(Buffer("depth_read"), 12)
  /\ DownPiece(One("swapchain"), 13) /\ DownPiece(Buffer("vertices"), 14)
  /\ DownPiece(Buffer("indices"), 15) /\ DownPiece(One("rendered"), 16)
  /\ DownPiece(One("graphics_fence"), 17) /\ DownPiece(One("present_fence"), 18)
  /\ DownPiece(One("acquire_fence"), 19) /\ DownPiece(One("command_pool"), 20)
  /\ DownPiece(One("device"), 21) /\ DownPiece(One("surface"), 22)
  /\ DownPiece(One("messenger"), 23) /\ DownPiece(One("instance"), 24)
  /\ DownPiece(One("window"), 25) /\ DownPiece(One("sdl"), 26)
<1>1. /\ \A b \in AllNames \ Buffered : DownPiece(One(b), DownPlace[b])
      /\ \A b \in Buffered \ Imaged : b \in AllNames => DownPiece(Buffer(b), DownPlace[b])
      /\ \A b \in Imaged : b \in AllNames => DownPiece(FreeImage(b), DownPlace[b])
  BY DownPlaces, SortedPiece DEF DownPiece, Down
<1>2. /\ DownPiece(One("pipeline"), 1) /\ DownPiece(One("pipeline_layout"), 2)
      /\ DownPiece(One("vertex_shader"), 3) /\ DownPiece(One("fragment_shader"), 4)
      /\ DownPiece(One("framebuffer"), 5) /\ DownPiece(One("render_pass"), 6)
      /\ DownPiece(One("swapchain"), 13) /\ DownPiece(One("rendered"), 16)
  <2>1. {"pipeline", "pipeline_layout", "vertex_shader", "fragment_shader", "framebuffer",
         "render_pass", "swapchain", "rendered"} \subseteq AllNames \ Buffered
    BY DEF AllNames, SetUpNames, SwapNames, Buffered, Imaged
  <2> QED BY <1>1, <2>1 DEF DownPlace
<1>3. /\ DownPiece(One("graphics_fence"), 17) /\ DownPiece(One("present_fence"), 18)
      /\ DownPiece(One("acquire_fence"), 19) /\ DownPiece(One("command_pool"), 20)
      /\ DownPiece(One("device"), 21) /\ DownPiece(One("surface"), 22)
      /\ DownPiece(One("messenger"), 23) /\ DownPiece(One("instance"), 24)
  <2>1. {"graphics_fence", "present_fence", "acquire_fence", "command_pool", "device",
         "surface", "messenger", "instance"} \subseteq AllNames \ Buffered
    BY DEF AllNames, SetUpNames, SwapNames, Buffered, Imaged
  <2> QED BY <1>1, <2>1 DEF DownPlace
<1>4. /\ DownPiece(One("window"), 25) /\ DownPiece(One("sdl"), 26)
  <2>1. {"window", "sdl"} \subseteq AllNames \ Buffered
    BY DEF AllNames, SetUpNames, SwapNames, Buffered, Imaged
  <2> QED BY <1>1, <2>1 DEF DownPlace
<1>5. /\ DownPiece(Buffer("color_read"), 10) /\ DownPiece(Buffer("id_read"), 11)
      /\ DownPiece(Buffer("depth_read"), 12) /\ DownPiece(Buffer("vertices"), 14)
      /\ DownPiece(Buffer("indices"), 15)
  <2>1. {"color_read", "id_read", "depth_read", "vertices", "indices"}
          \subseteq (Buffered \ Imaged) \cap AllNames
    BY DEF AllNames, SetUpNames, SwapNames, Buffered, Imaged
  <2> QED BY <1>1, <2>1 DEF DownPlace
<1>6. /\ DownPiece(FreeImage("color"), 7) /\ DownPiece(FreeImage("ids"), 8)
      /\ DownPiece(FreeImage("depth"), 9)
  <2>1. {"color", "ids", "depth"} \subseteq Imaged \cap AllNames
    BY DEF AllNames, SetUpNames, SwapNames, Buffered, Imaged
  <2> QED BY <1>1, <2>1 DEF DownPlace
<1> QED BY <1>2, <1>3, <1>4, <1>5, <1>6

LEMMA RetireOrderSorted == Down(RetireOrder, 1, 13)
<1> DEFINE s1 == One("pipeline") \o One("pipeline_layout") \o One("vertex_shader") \o One("fragment_shader")
           s2 == s1 \o One("framebuffer") \o One("render_pass") \o FreeImage("color")
           s3 == s2 \o FreeImage("ids") \o FreeImage("depth") \o Buffer("color_read")
           s4 == s3 \o Buffer("id_read") \o Buffer("depth_read") \o One("swapchain")
<1>0. Down(One("pipeline"), 1, 1)
  BY DownPieces DEF DownPiece
<1>1. Down(s1, 1, 4)
  BY <1>0, DownPieces, DownThen
<1> HIDE DEF s1
<1>2. Down(s2, 1, 7)
  BY <1>1, DownPieces, DownThen
<1> HIDE DEF s2
<1>3. Down(s3, 1, 10)
  BY <1>2, DownPieces, DownThen
<1> HIDE DEF s3
<1>4. Down(s4, 1, 13)
  BY <1>3, DownPieces, DownThen
<1> HIDE DEF s4
<1> QED
  BY <1>4 DEF RetireOrder, s1, s2, s3, s4

LEMMA TeardownOrderSorted == Down(TeardownOrder, 14, 26)
<1> DEFINE s1 == Buffer("vertices") \o Buffer("indices") \o One("rendered") \o One("graphics_fence")
           s2 == s1 \o One("present_fence") \o One("acquire_fence") \o One("command_pool")
           s3 == s2 \o One("device") \o One("surface") \o One("messenger")
           s4 == s3 \o One("instance") \o One("window") \o One("sdl")
<1>0. Down(Buffer("vertices"), 14, 14)
  BY DownPieces DEF DownPiece
<1>1. Down(s1, 14, 17)
  BY <1>0, DownPieces, DownThen
<1> HIDE DEF s1
<1>2. Down(s2, 14, 20)
  BY <1>1, DownPieces, DownThen
<1> HIDE DEF s2
<1>3. Down(s3, 14, 23)
  BY <1>2, DownPieces, DownThen
<1> HIDE DEF s3
<1>4. Down(s4, 14, 26)
  BY <1>3, DownPieces, DownThen
<1> HIDE DEF s4
<1> QED
  BY <1>4 DEF TeardownOrder, s1, s2, s3, s4

(***************************************************************************)
(* Every object is made once and destroyed once, retire_swapchain destroys *)
(* what recreate and pipeline make.                                        *)
(***************************************************************************)
LEMMA WholeOrders ==
  Up(SetUp \o BuildUp, 1, 26) /\ Down(RetireOrder \o TeardownOrder, 1, 26)
<1>1. Sorted(UpPlace, 3, BuildUp, 13 + 1, 26) /\ Sorted(DownPlace, 0, TeardownOrder, 13 + 1, 26)
  BY BuildUpSorted, TeardownOrderSorted DEF Up, Down
<1>2. Sorted(UpPlace, 3, SetUp, 1, 13) /\ Sorted(DownPlace, 0, RetireOrder, 1, 13)
  BY SetUpSorted, RetireOrderSorted DEF Up, Down
<1>3. (\A n \in AllNames : UpPlace[n] \in Nat) /\ (\A n \in AllNames : DownPlace[n] \in Nat)
  BY UpPlaces, DownPlaces
<1>4. Sorted(UpPlace, 3, SetUp \o BuildUp, 1, 26)
  BY <1>1, <1>2, <1>3, SortedJoin
<1>5. Sorted(DownPlace, 0, RetireOrder \o TeardownOrder, 1, 26)
  BY <1>1, <1>2, <1>3, SortedJoin
<1> QED BY <1>4, <1>5 DEF Up, Down

LEMMA PlacesOfNames ==
  ASSUME NEW n \in AllNames
  PROVE  /\ n \in SetUpNames <=> UpPlace[n] \in 1 .. 13
         /\ n \in SwapNames <=> UpPlace[n] \in 14 .. 26
         /\ n \in SwapNames <=> DownPlace[n] \in 1 .. 13
  BY DEF AllNames, SetUpNames, SwapNames, UpPlace, DownPlace

LEMMA Orders ==
  /\ Objects = Things
  /\ Elements(SetUp) = {o \in Things : o.of \in SetUpNames}
  /\ Swapped = {o \in Things : o.of \in SwapNames}
  /\ Elements(RetireOrder) = Swapped
  /\ Elements(RetireOrder \o TeardownOrder) = Objects
<1>1. \A o \in Things : o.of \in AllNames
  BY DEF Things
<1>2. Elements(SetUp) = {o \in Things : o.of \in SetUpNames}
  BY <1>1, SetUpSorted, PlacesOfNames DEF Up, Sorted
<1>3. Swapped = {o \in Things : o.of \in SwapNames}
  BY <1>1, BuildUpSorted, PlacesOfNames DEF Up, Sorted, Swapped
<1>4. Elements(RetireOrder) = {o \in Things : o.of \in SwapNames}
  BY <1>1, RetireOrderSorted, PlacesOfNames DEF Down, Sorted
<1>5. \A o \in Things : o.of \in SetUpNames \/ o.of \in SwapNames
  BY <1>1 DEF AllNames
<1>6. Objects = Things
  BY <1>2, <1>3, <1>5 DEF Objects, Swapped
<1>7. Elements(RetireOrder \o TeardownOrder) = Things
  BY <1>1, WholeOrders, DownPlaces DEF Down, Sorted
<1> QED BY <1>2, <1>3, <1>4, <1>6, <1>7

(***************************************************************************)
(* What an object is made from has an earlier place in the construction    *)
(* and a later one in the destruction.                                     *)
(***************************************************************************)
LEMMA PlaceOfThing ==
  ASSUME NEW P, \A n \in AllNames : P[n] \in Nat, NEW v \in {0, 3}, NEW o \in Things, NEW k \in Nat
  PROVE  /\ P[o.of] <= k => Place(P, v, o) < 4 * (k + 1)
         /\ k <= P[o.of] => 4 * k <= Place(P, v, o)
         /\ Place(P, v, o) \in Int
<1>1. P[o.of] \in Nat
  BY DEF Things
<1> QED BY <1>1 DEF Place

LEMMA LowerPlace ==
  ASSUME NEW P, \A n \in AllNames : P[n] \in Nat, NEW v \in {0, 3},
         NEW o \in Things, NEW p \in Things, P[o.of] < P[p.of]
  PROVE  Place(P, v, o) < Place(P, v, p)
<1>1. P[o.of] \in Nat /\ P[p.of] \in Nat
  BY DEF Things
<1>2. PICK k \in Nat : k = P[o.of]
  BY <1>1
<1>3. Place(P, v, o) < 4 * (k + 1) /\ Place(P, v, o) \in Int
  BY <1>2, PlaceOfThing
<1>4. 4 * (k + 1) <= Place(P, v, p) /\ Place(P, v, p) \in Int
  BY <1>1, <1>2, PlaceOfThing
<1> QED BY <1>3, <1>4

LEMMA MadeFromPlaced ==
  ASSUME NEW e \in MadeFrom
  PROVE  /\ e[1] \in AllNames /\ e[2] \in AllNames
         /\ UpPlace[e[2]] < UpPlace[e[1]] /\ DownPlace[e[1]] < DownPlace[e[2]]
<1> DEFINE OfDevice == {"command_pool", "rendered", "acquire_fence", "graphics_fence",
                        "present_fence", "vertices", "indices"} \cup SwapNames
<1>1. {o.of : o \in Swapped} \subseteq SwapNames
  BY Orders
<1>2. CASE e \in OfDevice \X {"device"}
  <2>1. \A n \in OfDevice : /\ n \in AllNames
                            /\ UpPlace["device"] < UpPlace[n] /\ DownPlace[n] < DownPlace["device"]
    BY DEF AllNames, SetUpNames, SwapNames, UpPlace, DownPlace
  <2>2. "device" \in AllNames /\ e[1] \in OfDevice /\ e[2] = "device"
    BY <1>2 DEF AllNames, SetUpNames
  <2> QED BY <2>1, <2>2
<1>3. CASE e \notin OfDevice \X {"device"}
  BY <1>1, <1>3 DEF MadeFrom, AllNames, SetUpNames, SwapNames, UpPlace, DownPlace
<1> QED BY <1>2, <1>3

LEMMA ParentsNamed ==
  ASSUME NEW o \in Things, NEW p \in Parents[o]
  PROVE  \/ p \in Things /\ UpPlace[p.of] < UpPlace[o.of] /\ DownPlace[o.of] < DownPlace[p.of]
         \/ o.part = "view" /\ p = Obj(o.of) /\ p \in Things
<1>1. o.of \in AllNames /\ o.part \in Parts
  BY DEF Things
<1>2. \A n \in AllNames : Obj(n) \in Things /\ Obj(n).of = n
  BY DEF Things, Obj, Parts
<1>3. CASE \E e \in MadeFrom : e[1] = o.of /\ p = Obj(e[2])
  BY <1>2, <1>3, MadeFromPlaced
<1>4. CASE o.of = "framebuffer" /\ \E i \in Imaged : p = [of |-> i, part |-> "view"]
  <2>1. PICK i \in Imaged : p = [of |-> i, part |-> "view"]
    BY <1>4
  <2>2. /\ i \in AllNames /\ UpPlace[i] < UpPlace["framebuffer"]
        /\ DownPlace["framebuffer"] < DownPlace[i]
    BY DEF Imaged, AllNames, SwapNames, UpPlace, DownPlace
  <2>3. p \in Things /\ p.of = i
    BY <2>1, <2>2 DEF Things, Parts
  <2> QED BY <1>4, <2>2, <2>3
<1>5. CASE o.part = "view" /\ p = Obj(o.of)
  BY <1>1, <1>2, <1>5
<1>6. \/ \E e \in MadeFrom : e[1] = o.of /\ p = Obj(e[2])
      \/ o.of = "framebuffer" /\ \E i \in Imaged : p = [of |-> i, part |-> "view"]
      \/ o.part = "view" /\ p = Obj(o.of)
  BY Orders DEF Parents, Imaged
<1> QED BY <1>3, <1>4, <1>5, <1>6

LEMMA ParentsPlaced ==
  ASSUME NEW o \in Objects, NEW p \in Parents[o]
  PROVE  /\ p \in Objects
         /\ UpPlace[p.of] <= UpPlace[o.of] /\ Place(UpPlace, 3, p) < Place(UpPlace, 3, o)
         /\ DownPlace[o.of] <= DownPlace[p.of] /\ Place(DownPlace, 0, o) < Place(DownPlace, 0, p)
<1>1. o \in Things /\ o.of \in AllNames
  BY Orders DEF Things
<1>2. (\A n \in AllNames : UpPlace[n] \in Nat) /\ (\A n \in AllNames : DownPlace[n] \in Nat)
  BY UpPlaces, DownPlaces
<1>3. CASE p \in Things /\ UpPlace[p.of] < UpPlace[o.of] /\ DownPlace[o.of] < DownPlace[p.of]
  <2>1. p.of \in AllNames
    BY <1>3 DEF Things
  <2> QED BY <1>1, <1>2, <1>3, <2>1, LowerPlace, Orders
<1>4. CASE o.part = "view" /\ p = Obj(o.of) /\ p \in Things
  <2>1. p.of = o.of /\ p.part = "object"
    BY <1>4 DEF Obj
  <2>2. UpPlace[o.of] \in Nat /\ DownPlace[o.of] \in Nat
    BY <1>1, <1>2
  <2>3. /\ Place(UpPlace, 3, p) = 4 * UpPlace[o.of] + 1 /\ Place(UpPlace, 3, o) = 4 * UpPlace[o.of] + 3
        /\ Place(DownPlace, 0, p) = 4 * DownPlace[o.of] + 1 /\ Place(DownPlace, 0, o) = 4 * DownPlace[o.of] + 0
    BY <1>4, <2>1 DEF Place
  <2> QED BY <1>4, <2>1, <2>2, <2>3, Orders
<1> QED BY <1>1, <1>3, <1>4, ParentsNamed

LEMMA NoLater ==
  ASSUME NEW m \in AllNames, NEW n \in AllNames, NEW h \in Nat
  PROVE  /\ UpPlace[m] <= UpPlace[n] /\ UpPlace[n] <= h => UpPlace[m] \in 1 .. h
         /\ DownPlace[m] <= DownPlace[n] /\ DownPlace[n] <= h => DownPlace[m] \in 1 .. h
<1>1. /\ UpPlace[m] \in 1 .. 26 /\ UpPlace[n] \in 1 .. 26
      /\ DownPlace[m] \in 1 .. 26 /\ DownPlace[n] \in 1 .. 26
  BY UpPlaces, DownPlaces
<1> QED BY <1>1

LEMMA PlacesAreNumbers ==
  ASSUME NEW o \in Things
  PROVE  Place(UpPlace, 3, o) \in Int /\ Place(DownPlace, 0, o) \in Int
<1>1. UpPlace[o.of] \in 1 .. 26 /\ DownPlace[o.of] \in 1 .. 26
  BY UpPlaces, DownPlaces DEF Things
<1> QED BY <1>1 DEF Place

-----------------------------------------------------------------------------

(***************************************************************************)
(* What retire_swapchain destroys was not made by initialize_capacity, and *)
(* a swapchain and the messenger are made where their names say.           *)
(***************************************************************************)
LEMMA Apart ==
  /\ Elements(RetireOrder) \cap Elements(SetUp) = {}
  /\ Obj("swapchain") \notin Elements(SetUp)
  /\ Obj("messenger") \notin Swapped
<1>1. SetUpNames \cap SwapNames = {}
  BY DEF SetUpNames, SwapNames
<1>2. Obj("swapchain").of \in SwapNames /\ Obj("messenger").of \in SetUpNames
  BY DEF Obj, SwapNames, SetUpNames
<1> QED
  BY <1>1, <1>2, Orders

LEMMA Indexed ==
  /\ Len(SetUp) \in Nat /\ DOMAIN SetUp = 1 .. Len(SetUp)
  /\ Len(BuildUp) \in Nat /\ DOMAIN BuildUp = 1 .. Len(BuildUp)
<1>1. SetUp \in Seq(Things) /\ BuildUp \in Seq(Things)
  BY SetUpSorted, BuildUpSorted DEF Up, Sorted
<1> QED BY <1>1

(***************************************************************************)
(* The GPU uses objects of the run, and never the messenger.               *)
(***************************************************************************)
LEMMA UsesObjects ==
  ASSUME NEW f \in Fences
  PROVE  Uses(f) \subseteq Objects /\ Obj("messenger") \notin Uses(f)
<1>1. Obj("messenger").of = "messenger" /\ Obj("messenger") \notin Swapped
  BY Apart DEF Obj
<1>2. CASE f = "acquire"
  BY <1>1, <1>2 DEF Uses
<1>3. CASE f = "present"
  BY <1>1, <1>3 DEF Uses
<1>4. CASE f = "graphics"
  BY <1>1, <1>4 DEF Uses
<1> QED
  BY <1>2, <1>3, <1>4 DEF Fences

-----------------------------------------------------------------------------

Thens == {"recreate", "ready", "acquire", "undrawn", "drawn"}

\* Where the host stands between construction and cleanup, and where it uses
\* the swapchain.
Driving == {"acquire", "acquired", "submit", "present", "capture"}
Running == Driving \cup {"recreate", "ready", "draw", "undrawn", "sized", "drawn", "completed",
                         "await"}

\* The GPU's work is waited for before anything is destroyed.
Waited ==
  /\ flying \subseteq pending /\ pending \subseteq Fences
  /\ at \in {"retire", "teardown"} => pending = {}

\* The two constructions, and what a retirement leaves.
Building ==
  /\ at = "construct" => \/ then = "recreate" /\ todo = SetUp /\ live = {}
                         \/ then # "recreate" /\ todo = BuildUp
  /\ at = "retire" => todo = RetireOrder
  /\ at \in Running \cup {"retire"} => then # "recreate"
  /\ at \in Running \cup {"retire"} \/ (at = "construct" /\ then # "recreate")
       => Elements(SetUp) \subseteq live

\* A swapchain that exists is complete, and the host draws only with one.
Whole ==
  /\ at \in Running /\ Obj("swapchain") \in live => Objects \subseteq live
  /\ at \in Driving => Objects \subseteq live

\* A resize on the way to a drawing finds a window with pixels.
Visible == at = "sized" \/ (at = "recreate" /\ then = "acquire") =>
             window.extent # 0 /\ ~window.minimized

IInv == then \in Thens /\ Waited /\ Building /\ Whole /\ Visible /\ InFlightIsAlive

LEMMA StaysAlive ==
  ASSUME InFlightIsAlive, flying' \subseteq flying, live \subseteq live'
  PROVE  InFlightIsAlive'
  BY DEF InFlightIsAlive

LEMMA BecomesAlive ==
  ASSUME InFlightIsAlive, NEW f \in Fences, flying' = flying \cup {f}, live' = live,
         Objects \subseteq live
  PROVE  InFlightIsAlive'
  BY UsesObjects DEF InFlightIsAlive

LEMMA InitInv == Init => IInv
  BY DEF Init, IInv, Waited, Building, Whole, Visible, Thens, Running, Driving, InFlightIsAlive

(***************************************************************************)
(* Every action keeps IInv.                                                *)
(***************************************************************************)
LEMMA StepInv == IInv /\ [Next]_vars => IInv'
<1> SUFFICES ASSUME IInv, [Next]_vars PROVE IInv'
  OBVIOUS
<1> USE DEF owned, gpu, around, run
<1>1. CASE Sized
  BY <1>1, StaysAlive DEF Sized, Worked, IInv, Waited, Building, Whole, Visible, Thens, Running, Driving
<1>2. CASE AcquireNothing
  BY <1>2, StaysAlive DEF AcquireNothing, IInv, Waited, Building, Whole, Visible, Thens, Running, Driving
<1>3. CASE Upload
  BY <1>3, StaysAlive DEF Upload, Worked, IInv, Waited, Building, Whole, Visible, Thens, Running, Driving
<1>4. CASE Capture
  BY <1>4, StaysAlive DEF Capture, Worked, IInv, Waited, Building, Whole, Visible, Thens, Running, Driving
<1>5. CASE NextStep
  BY <1>5, StaysAlive DEF NextStep, IInv, Waited, Building, Whole, Visible, Thens, Running, Driving
<1>6. CASE Retry
  BY <1>6, StaysAlive DEF Retry, IInv, Waited, Building, Whole, Visible, Thens, Running, Driving
<1>7. CASE Drawn
  BY <1>7, StaysAlive DEF Drawn, IInv, Waited, Building, Whole, Visible, Thens, Running, Driving
<1>8. CASE Finish
  BY <1>8, StaysAlive DEF Finish, IInv, Waited, Building, Whole, Visible, Thens, Running, Driving
<1>9. CASE LiveEnd
  BY <1>9, StaysAlive DEF LiveEnd, IInv, Waited, Building, Whole, Visible, Thens, Running, Driving
<1>10. CASE Report
  BY <1>10, StaysAlive DEF Report, Worked, IInv, Waited, Building, Whole, Visible, Thens, Running, Driving
<1>11. CASE Fails
  BY <1>11, StaysAlive DEF Fails, IInv, Waited, Building, Whole, Visible, Thens, Running, Driving
<1>12. CASE Draw
  BY <1>12, StaysAlive, RendererAssumption DEF Draw, Pump, InTime, IInv, Waited, Building, Whole, Visible, Thens, Running, Driving
<1>13. CASE Await
  BY <1>13, StaysAlive DEF Await, Pump, InTime, IInv, Waited, Building, Whole, Visible, Thens, Running, Driving
<1>14. CASE Browse
  BY <1>14, StaysAlive DEF Browse, Pump, IInv, Waited, Building, Whole, Visible, Thens, Running, Driving
<1>15. CASE LiveTurn
  BY <1>15, StaysAlive DEF LiveTurn, Pump, InTime, IInv, Waited, Building, Whole, Visible, Thens, Running, Driving
<1>16. CASE Recreate
  BY <1>16, StaysAlive, RendererAssumption DEF Recreate, Worked, IInv, Waited, Building, Whole, Visible, Thens, Running, Driving
<1>17. CASE Teardown
  BY <1>17, StaysAlive DEF Teardown, Worked, IInv, Waited, Building, Whole, Visible, Thens, Running, Driving
<1>18. CASE Lapse \/ Publish \/ OwnerStops
  BY <1>18, StaysAlive DEF Lapse, Publish, OwnerStops, Watched, IInv, Waited, Building, Whole, Visible, Thens, Running, Driving
<1>19. CASE UNCHANGED vars
  BY <1>19, StaysAlive DEF vars, IInv, Waited, Building, Whole, Visible, Thens, Running, Driving
<1>20. CASE \E f \in Fences : WaitFor(f)
  BY <1>20, StaysAlive DEF WaitFor, Waiting, IInv, Waited, Building, Whole, Visible, Thens, Running, Driving
<1>21. CASE \E f \in Fences : Complete(f)
  BY <1>21, StaysAlive DEF Complete, IInv, Waited, Building, Whole, Visible, Thens, Running, Driving
<1>22. CASE Make
  <2>1. PICK n \in 1 .. Len(todo) : LET made == {todo[i] : i \in 1 .. n} IN
          /\ live' = live \cup made
          /\ at' = IF n = Len(todo) THEN then ELSE "cleanup"
    BY <1>22 DEF Make
  <2>2. /\ at = "construct" /\ then' = (IF then = "recreate" THEN "ready" ELSE then)
        /\ UNCHANGED <<flying, pending>>
    BY <1>22 DEF Make
  <2>3. InFlightIsAlive'
    BY <2>1, <2>2, StaysAlive DEF IInv
  <2>4. CASE at' = "cleanup"
    BY <2>2, <2>3, <2>4 DEF IInv, Waited, Building, Whole, Visible, Thens, Running, Driving
  <2>5. CASE at' # "cleanup"
    <3>1. n = Len(todo) /\ at' = then
      BY <2>1, <2>5
    <3>2. CASE then = "recreate"
      <4>1. todo = SetUp /\ live = {}
        BY <2>2, <3>2 DEF IInv, Building
      <4>2. live' = Elements(SetUp)
        BY <2>1, <3>1, <4>1, Indexed DEF Elements
      <4> QED
        BY <2>2, <2>3, <3>1, <3>2, <4>2, Apart
           DEF IInv, Waited, Building, Whole, Visible, Thens, Running, Driving
    <3>3. CASE then # "recreate"
      <4>1. todo = BuildUp /\ Elements(SetUp) \subseteq live
        BY <2>2, <3>3 DEF IInv, Building
      <4>2. live' = live \cup Elements(BuildUp)
        BY <2>1, <3>1, <4>1, Indexed DEF Elements
      <4>3. Objects \subseteq live'
        BY <4>1, <4>2 DEF Objects
      <4> QED
        BY <2>2, <2>3, <3>1, <3>3, <4>1, <4>2, <4>3
           DEF IInv, Waited, Building, Whole, Visible, Thens, Running, Driving
    <3> QED
      BY <3>2, <3>3
  <2> QED
    BY <2>4, <2>5
<1>23. CASE Destroy
  <2>1. /\ at \in {"retire", "teardown"} /\ pending = {} /\ flying = {}
        /\ UNCHANGED <<then, pending, flying>>
        /\ live' = live \ Elements(todo)
    BY <1>23 DEF Destroy, IInv, Waited
  <2>2. InFlightIsAlive'
    BY <2>1 DEF InFlightIsAlive
  <2>3. CASE at = "retire" /\ at' = "construct" /\ todo' = BuildUp
    <3>1. Elements(SetUp) \subseteq live'
      BY <2>1, <2>3, Apart DEF IInv, Building
    <3> QED
      BY <2>1, <2>2, <2>3, <3>1 DEF IInv, Waited, Building, Whole, Visible, Thens, Running, Driving
  <2>4. CASE at' = "gone"
    BY <2>1, <2>2, <2>4 DEF IInv, Waited, Building, Whole, Visible, Thens, Running, Driving
  <2> QED
    BY <1>23, <2>3, <2>4 DEF Destroy
<1>24. CASE Acquire
  <2>1. InFlightIsAlive'
    BY <1>24, BecomesAlive DEF Acquire, IInv, Whole, Driving, Fences
  <2> QED
    BY <1>24, <2>1 DEF Acquire, IInv, Waited, Building, Whole, Visible, Thens, Running, Driving, Fences
<1>25. CASE Submit
  <2>1. InFlightIsAlive'
    BY <1>25, BecomesAlive DEF Submit, IInv, Whole, Driving, Fences
  <2> QED
    BY <1>25, <2>1 DEF Submit, IInv, Waited, Building, Whole, Visible, Thens, Running, Driving, Fences
<1>26. CASE Present
  <2>1. InFlightIsAlive'
    BY <1>26, BecomesAlive DEF Present, Queued, IInv, Whole, Driving, Fences
  <2> QED
    BY <1>26, <2>1 DEF Present, Queued, IInv, Waited, Building, Whole, Visible, Thens, Running,
                       Driving, Fences
<1>27. CASE Abandon
  <2>1. InFlightIsAlive'
    BY <1>27, UsesObjects DEF Abandon, IInv, Waited, InFlightIsAlive
  <2> QED
    BY <1>27, <2>1 DEF Abandon, IInv, Waited, Building, Whole, Visible, Thens, Running, Driving
<1> QED
  BY <1>1, <1>2, <1>3, <1>4, <1>5, <1>6, <1>7, <1>8, <1>9, <1>10, <1>11, <1>12, <1>13, <1>14,
     <1>15, <1>16, <1>17, <1>18, <1>19, <1>20, <1>21, <1>22, <1>23, <1>24, <1>25, <1>26, <1>27
     DEF Next, Host, Gone

(***************************************************************************)
(* In every run, for every window, budget and GPU, what has not completed  *)
(* uses only objects that exist.                                           *)
(***************************************************************************)
THEOREM NothingInFlightDestroyed == Spec => []InFlightIsAlive
<1>1. IInv => InFlightIsAlive
  BY DEF IInv
<1> QED
  BY InitInv, StepInv, <1>1, PTL DEF Spec

-----------------------------------------------------------------------------

\* A packet goes from the owner to the host, the mesh, the readback and the
\* window, in this order, and has arrived when nothing is in flight.
Chain ==
  mode = "live" =>
    /\ visible \in Nat /\ readback \in Nat /\ mesh \in Nat /\ job.packet \in Nat
    /\ published \in Nat /\ reported \in Nat
    /\ reported <= visible /\ visible <= readback /\ readback <= mesh
    /\ mesh <= job.packet /\ job.packet <= published
    /\ at # "await" /\ then # "drawn"
    /\ at \in {"submit", "present", "capture", "drawn", "completed"} => mesh = job.packet
    /\ at \in {"present", "capture", "drawn", "completed"} /\ "graphics" \notin flying
         => readback = mesh
    /\ at \in {"capture", "drawn", "completed"} /\ flying \cap {"graphics", "present"} = {}
         => visible = readback
    /\ at \in {"capture", "drawn", "completed"} /\ "graphics" \in flying => "present" \in flying

LEMMA InitChain == Init => Chain
<1> SUFFICES ASSUME Init, mode = "live" PROVE Chain
  BY DEF Chain
<1>1. /\ visible = 0 /\ readback = 0 /\ mesh = 0 /\ published = 0 /\ reported = 0
      /\ at = "construct" /\ then = "recreate" /\ job = NoJob
  BY DEF Init
<1>2. job.packet = 0
  BY <1>1 DEF NoJob
<1> QED
  BY <1>1, <1>2 DEF Chain

(***************************************************************************)
(* Every action keeps Chain.                                               *)
(***************************************************************************)
LEMMA StepChain == IInv /\ Chain /\ [Next]_vars => Chain'
<1> SUFFICES ASSUME IInv, Chain, [Next]_vars PROVE Chain'
  OBVIOUS
<1> USE DEF owned, gpu, around, run
<1>1. CASE \E f \in Fences : WaitFor(f)
  BY <1>1 DEF WaitFor, Waiting, Chain
<1>2. CASE Make
  BY <1>2 DEF Make, Chain, IInv, Building, Thens
<1>3. CASE Recreate
  BY <1>3 DEF Recreate, Worked, Chain, IInv, Building, Thens
<1>4. CASE Destroy
  BY <1>4 DEF Destroy, Freed, Chain
<1>5. CASE Draw
  BY <1>5 DEF Draw, Pump, Chain
<1>6. CASE Sized
  BY <1>6 DEF Sized, Chain, IInv, Building, Thens
<1>7. CASE Acquire
  BY <1>7 DEF Acquire, Chain, IInv, Waited
<1>8. CASE AcquireNothing
  BY <1>8 DEF AcquireNothing, Chain
<1>9. CASE Upload
  BY <1>9 DEF Upload, Worked, Chain, IInv, Waited
<1>10. CASE Submit
  BY <1>10 DEF Submit, Chain, IInv, Waited
<1>11. CASE Present
  BY <1>11 DEF Present, Queued, Chain
<1>12. CASE Capture
  BY <1>12 DEF Capture, Chain
<1>13. CASE NextStep
  BY <1>13 DEF NextStep, Scripted, Chain
<1>14. CASE Retry
  BY <1>14 DEF Retry, Chain
<1>15. CASE Await
  BY <1>15 DEF Await, Chain
<1>16. CASE Drawn
  BY <1>16 DEF Drawn, Chain
<1>17. CASE Browse
  BY <1>17 DEF Browse, Browsing, Chain
<1>18. CASE Finish
  BY <1>18 DEF Finish, Chain
<1>19. CASE LiveTurn
  <2>1. /\ job' = job \/ job'.packet = published
        /\ at' \in {"ready", "draw"}
    <3>1. PICK w \in Windows :
            \/ w.minimized /\ UNCHANGED <<at, job>>
            \/ /\ ~w.minimized /\ at' = "draw"
               /\ job' = [packet |-> published, phase |-> Phase(published),
                          retain |-> Phase(published) # ""]
      BY <1>19 DEF LiveTurn
    <3>2. at = "ready"
      BY <1>19 DEF LiveTurn
    <3>3. CASE UNCHANGED <<at, job>>
      BY <3>2, <3>3
    <3>4. CASE at' = "draw" /\ job' = [packet |-> published, phase |-> Phase(published),
                                       retain |-> Phase(published) # ""]
      <4> DEFINE p == Phase(published)
                 r == Phase(published) # ""
      <4>1. job' = [packet |-> published, phase |-> p, retain |-> r]
        BY <3>4
      <4> HIDE DEF p, r
      <4>2. job'.packet = published
        BY <4>1
      <4> QED
        BY <3>4, <4>2
    <3> QED
      BY <3>1, <3>3, <3>4
  <2>2. UNCHANGED <<mode, then, flying, mesh, readback, visible, published, reported>>
    BY <1>19 DEF LiveTurn
  <2> QED
    BY <2>1, <2>2 DEF Chain
<1>20. CASE LiveEnd
  BY <1>20 DEF LiveEnd, Chain
<1>21. CASE Report
  BY <1>21 DEF Report, Worked, Chain, IInv, Waited
<1>22. CASE Fails
  BY <1>22 DEF Fails, Chain
<1>23. CASE Teardown
  BY <1>23 DEF Teardown, Chain
<1>24. CASE Abandon
  BY <1>24 DEF Abandon, Chain
<1>25. CASE \E f \in Fences : Complete(f)
  <2>1. PICK f \in Fences : Complete(f)
    BY <1>25
  <2>2. CASE f = "acquire"
    BY <2>1, <2>2 DEF Complete, Chain
  <2>3. CASE f = "graphics"
    BY <2>1, <2>3 DEF Complete, Chain
  <2>4. CASE f = "present"
    BY <2>1, <2>4 DEF Complete, Chain
  <2> QED
    BY <2>2, <2>3, <2>4 DEF Fences
<1>26. CASE Lapse \/ Publish \/ OwnerStops
  BY <1>26 DEF Lapse, Publish, OwnerStops, Chain
<1>27. CASE UNCHANGED vars
  BY <1>27 DEF vars, Chain
<1> QED
  BY <1>1, <1>2, <1>3, <1>4, <1>5, <1>6, <1>7, <1>8, <1>9, <1>10, <1>11, <1>12, <1>13, <1>14,
     <1>15, <1>16, <1>17, <1>18, <1>19, <1>20, <1>21, <1>22, <1>23, <1>24, <1>25, <1>26, <1>27
     DEF Next, Host, Gone

(***************************************************************************)
(* In every live run, what is reported to the owner as presented has been  *)
(* shown by the window, or something newer has.                            *)
(***************************************************************************)
THEOREM ReportedHasBeenShown == Spec => []ReportedIsVisible
<1>1. Chain => ReportedIsVisible
  BY DEF Chain, ReportedIsVisible
<1> QED
  BY InitInv, StepInv, InitChain, StepChain, <1>1, PTL DEF Spec

-----------------------------------------------------------------------------

\* What a capture will copy: the mesh is the packet of the draw from its upload
\* on, and the readback is the mesh from the moment the rendering completes.
Drawing ==
  /\ at \in {"submit", "present", "capture"} => mesh = job.packet
  /\ at \in {"present", "capture"} /\ "graphics" \notin flying => readback = mesh

Copied == (\E S : frames \in Seq(S)) /\ FramesShowTheirPacket

LEMMA InitDrawing == Init => Drawing /\ Copied
<1> SUFFICES ASSUME Init PROVE Drawing /\ Copied
  OBVIOUS
<1>1. at = "construct" /\ frames = <<>>
  BY DEF Init
<1>2. frames \in Seq({}) /\ \A i \in DOMAIN frames : FALSE
  BY <1>1
<1> QED
  BY <1>1, <1>2 DEF Drawing, Copied, FramesShowTheirPacket

(***************************************************************************)
(* Only a capture adds a frame, and it copies what the GPU has rendered.   *)
(***************************************************************************)
LEMMA StepCopied ==
  ASSUME IInv, Drawing, Copied, Capture
  PROVE  Copied'
<1>1. flying = {} /\ readback = job.packet
  BY DEF Capture, Worked, IInv, Waited, Drawing
<1> DEFINE frame == [phase |-> job.phase, packet |-> job.packet, shows |-> readback]
<1>2. frame.shows = frame.packet
  BY <1>1
<1>3. frames' = Append(frames, frame)
  BY DEF Capture
<1> HIDE DEF frame
<1>4. PICK S : frames \in Seq(S)
  BY DEF Copied
<1>5. PICK T : T = S \cup {frame}
  OBVIOUS
<1>6. frames \in Seq(T) /\ frame \in T
  BY <1>4, <1>5
<1>7. /\ frames' \in Seq(T) /\ DOMAIN frames' = 1 .. Len(frames) + 1
      /\ DOMAIN frames = 1 .. Len(frames) /\ Len(frames) \in Nat
      /\ frames'[Len(frames) + 1] = frame
      /\ \A i \in DOMAIN frames : frames'[i] = frames[i]
  BY <1>3, <1>6
<1>8. \A i \in DOMAIN frames' : i \in DOMAIN frames \/ i = Len(frames) + 1
  BY <1>7
<1>9. FramesShowTheirPacket'
  BY <1>2, <1>7, <1>8 DEF Copied, FramesShowTheirPacket
<1> QED
  BY <1>7, <1>9 DEF Copied

(***************************************************************************)
(* Every action keeps both.                                                *)
(***************************************************************************)
LEMMA StepDrawing == IInv /\ Drawing /\ Copied /\ [Next]_vars => Drawing' /\ Copied'
<1> SUFFICES ASSUME IInv, Drawing, Copied, [Next]_vars PROVE Drawing' /\ Copied'
  OBVIOUS
<1> USE DEF owned, gpu, around, run
<1>1. ASSUME UNCHANGED frames PROVE Copied'
  BY <1>1 DEF Copied, FramesShowTheirPacket
<1>2. CASE \E f \in Fences : WaitFor(f)
  BY <1>1, <1>2 DEF WaitFor, Drawing
<1>3. CASE Make
  BY <1>1, <1>3 DEF Make, Drawing, IInv, Building, Thens
<1>4. CASE Recreate
  BY <1>1, <1>4 DEF Recreate, Drawing, IInv, Thens
<1>5. CASE Destroy
  BY <1>1, <1>5 DEF Destroy, Freed, Drawing
<1>6. CASE Draw \/ Sized \/ Acquire \/ AcquireNothing
  BY <1>1, <1>6 DEF Draw, Sized, Acquire, AcquireNothing, Drawing
<1>7. CASE Upload
  BY <1>1, <1>7 DEF Upload, Drawing
<1>8. CASE Submit
  BY <1>1, <1>8 DEF Submit, Drawing
<1>9. CASE Present
  BY <1>1, <1>9 DEF Present, Queued, Drawing
<1>10. CASE Capture
  <2>1. Drawing'
    BY <1>10 DEF Capture, Drawing
  <2> QED
    BY <1>10, <2>1, StepCopied
<1>11. CASE NextStep \/ Retry \/ Await \/ Drawn \/ Browse \/ Finish
  BY <1>1, <1>11 DEF NextStep, Retry, Await, Drawn, Browse, Finish, Drawing
<1>12. CASE LiveTurn
  <2>1. at' \in {"ready", "draw"} /\ UNCHANGED frames
    BY <1>12 DEF LiveTurn
  <2> QED
    BY <1>1, <2>1 DEF Drawing
<1>13. CASE LiveEnd \/ Report \/ Fails \/ Teardown \/ Abandon
  BY <1>1, <1>13 DEF LiveEnd, Report, Fails, Teardown, Abandon, Drawing
<1>14. CASE \E f \in Fences : Complete(f)
  <2>1. PICK f \in Fences : Complete(f)
    BY <1>14
  <2>2. CASE f = "graphics"
    BY <1>1, <2>1, <2>2 DEF Complete, Drawing
  <2>3. CASE f # "graphics"
    BY <1>1, <2>1, <2>3 DEF Complete, Drawing
  <2> QED
    BY <2>2, <2>3
<1>15. CASE Lapse \/ Publish \/ OwnerStops \/ UNCHANGED vars
  BY <1>1, <1>15 DEF Lapse, Publish, OwnerStops, vars, Drawing
<1> QED
  BY <1>2, <1>3, <1>4, <1>5, <1>6, <1>7, <1>8, <1>9, <1>10, <1>11, <1>12, <1>13, <1>14, <1>15
     DEF Next, Host, Gone

(***************************************************************************)
(* In every run, a frame that was captured shows the packet it is reported *)
(* with, however long the GPU takes and whatever is drawn next.            *)
(***************************************************************************)
THEOREM CapturesShowTheirPacket == Spec => []FramesShowTheirPacket
<1>1. Copied => FramesShowTheirPacket
  BY DEF Copied
<1> QED
  BY InitInv, StepInv, InitDrawing, StepDrawing, <1>1, PTL DEF Spec

-----------------------------------------------------------------------------

\* No object is there without what it was made from.
Closed(S) == \A o \in S : Parents[o] \subseteq S

(***************************************************************************)
(* Wherever an order of construction stops, nothing is there without what  *)
(* it was made from.                                                       *)
(***************************************************************************)
LEMMA MadeClosed ==
  ASSUME NEW s, NEW h \in Nat, Up(s, 1, h), NEW n \in 0 .. Len(s)
  PROVE  Closed({s[i] : i \in 1 .. n})
<1> SUFFICES ASSUME NEW j \in 1 .. n, NEW p \in Parents[s[j]]
             PROVE  \E i \in 1 .. n : p = s[i]
  BY DEF Closed
<1>1. /\ s \in Seq(Things) /\ Len(s) \in Nat /\ DOMAIN s = 1 .. Len(s)
      /\ Elements(s) = {o \in Things : UpPlace[o.of] \in 1 .. h}
      /\ \A i \in 1 .. Len(s) : \A k \in 1 .. Len(s) :
           i < k => Place(UpPlace, 3, s[i]) < Place(UpPlace, 3, s[k])
  BY DEF Up, Sorted
<1>2. j \in 1 .. Len(s) /\ s[j] \in Elements(s)
  <2>1. j \in 1 .. Len(s)
    BY <1>1
  <2> QED BY <1>1, <2>1 DEF Elements
<1>3. s[j] \in Objects /\ UpPlace[s[j].of] <= h
  BY <1>1, <1>2, Orders
<1>4. /\ p \in Objects /\ UpPlace[p.of] <= UpPlace[s[j].of]
      /\ Place(UpPlace, 3, p) < Place(UpPlace, 3, s[j])
  BY <1>3, ParentsPlaced
<1>5. p.of \in AllNames /\ s[j].of \in AllNames
  BY <1>3, <1>4, Orders DEF Things
<1>6. UpPlace[p.of] \in 1 .. h
  BY <1>3, <1>4, <1>5, NoLater
<1>7. PICK i \in 1 .. Len(s) : p = s[i]
  BY <1>1, <1>4, <1>6, Orders DEF Elements
<1>8. Place(UpPlace, 3, p) \in Int /\ Place(UpPlace, 3, s[j]) \in Int
  BY <1>3, <1>4, Orders, PlacesAreNumbers
<1>9. ~(j < i) /\ i # j
  BY <1>1, <1>2, <1>4, <1>7, <1>8
<1> QED BY <1>1, <1>2, <1>7, <1>9

(***************************************************************************)
(* Wherever an order of destruction stands, nothing has outlived what it   *)
(* was made from.                                                          *)
(***************************************************************************)
LEMMA DestroyedClosed ==
  ASSUME NEW s, NEW h \in Nat, Down(s, 1, h), NEW n \in 0 .. Len(s),
         NEW S \in SUBSET Objects, Closed(S)
  PROVE  Closed(S \ {s[i] : i \in 1 .. n})
<1> SUFFICES ASSUME NEW o \in S, NEW p \in Parents[o], NEW i \in 1 .. n, p = s[i]
             PROVE  \E j \in 1 .. n : o = s[j]
  BY DEF Closed
<1>1. /\ s \in Seq(Things) /\ Len(s) \in Nat /\ DOMAIN s = 1 .. Len(s)
      /\ Elements(s) = {x \in Things : DownPlace[x.of] \in 1 .. h}
      /\ \A j \in 1 .. Len(s) : \A k \in 1 .. Len(s) :
           j < k => Place(DownPlace, 0, s[j]) < Place(DownPlace, 0, s[k])
  BY DEF Down, Sorted
<1>2. i \in 1 .. Len(s) /\ p \in Elements(s)
  BY <1>1 DEF Elements
<1>3. p \in Objects /\ DownPlace[p.of] <= h
  BY <1>1, <1>2, Orders
<1>4. DownPlace[o.of] <= DownPlace[p.of] /\ Place(DownPlace, 0, o) < Place(DownPlace, 0, p)
  BY ParentsPlaced
<1>5. p.of \in AllNames /\ o.of \in AllNames
  BY <1>3, Orders DEF Things
<1>6. DownPlace[o.of] \in 1 .. h
  BY <1>3, <1>4, <1>5, NoLater
<1>7. PICK j \in 1 .. Len(s) : o = s[j]
  BY <1>1, <1>6, Orders DEF Elements
<1>8. Place(DownPlace, 0, p) \in Int /\ Place(DownPlace, 0, o) \in Int
  BY <1>3, Orders, PlacesAreNumbers
<1>9. ~(i < j) /\ i # j
  BY <1>1, <1>2, <1>4, <1>7, <1>8
<1> QED BY <1>1, <1>2, <1>7, <1>9

(***************************************************************************)
(* The two constructions, stopped anywhere, and the two destructions.      *)
(***************************************************************************)
LEMMA FirstMade ==
  ASSUME NEW n \in 0 .. Len(SetUp)
  PROVE  Closed({SetUp[i] : i \in 1 .. n}) /\ {SetUp[i] : i \in 1 .. n} \subseteq Elements(SetUp)
<1>1. Closed({SetUp[i] : i \in 1 .. n})
  BY SetUpSorted, MadeClosed
<1>2. ASSUME NEW i \in 1 .. n PROVE i \in DOMAIN SetUp
  BY Indexed
<1> QED BY <1>1, <1>2 DEF Elements

LEMMA ThenMade ==
  ASSUME NEW n \in 0 .. Len(BuildUp)
  PROVE  /\ Closed(Elements(SetUp) \cup {BuildUp[i] : i \in 1 .. n})
         /\ {BuildUp[i] : i \in 1 .. n} \subseteq Swapped
<1> DEFINE u == SetUp \o BuildUp
           k == Len(SetUp)
<1>1. SetUp \in Seq(Things) /\ BuildUp \in Seq(Things)
  BY SetUpSorted, BuildUpSorted DEF Up, Sorted
<1>2. /\ k \in Nat /\ Len(BuildUp) \in Nat /\ Len(u) = k + Len(BuildUp)
      /\ DOMAIN SetUp = 1 .. k /\ DOMAIN BuildUp = 1 .. Len(BuildUp)
      /\ \A i \in 1 .. k : u[i] = SetUp[i]
      /\ \A i \in 1 .. Len(u) : ~(i <= k) => i - k \in 1 .. Len(BuildUp) /\ u[i] = BuildUp[i - k]
      /\ \A i \in 1 .. Len(BuildUp) : u[i + k] = BuildUp[i]
  BY <1>1
<1>3. Closed({u[i] : i \in 1 .. k + n})
  <2>1. k + n \in 0 .. Len(u)
    BY <1>2
  <2> QED BY <2>1, WholeOrders, MadeClosed
<1> HIDE DEF u, k
<1>4. {u[i] : i \in 1 .. k + n} = Elements(SetUp) \cup {BuildUp[i] : i \in 1 .. n}
  <2>1. ASSUME NEW i \in 1 .. k + n
        PROVE  u[i] \in Elements(SetUp) \/ \E j \in 1 .. n : u[i] = BuildUp[j]
    <3>1. CASE i <= k
      <4>1. i \in 1 .. k
        BY <1>2, <3>1
      <4>2. u[i] = SetUp[i] /\ i \in DOMAIN SetUp
        BY <1>2, <4>1
      <4> QED BY <4>2 DEF Elements
    <3>2. CASE ~(i <= k)
      <4>1. i \in 1 .. Len(u) /\ i - k \in 1 .. n
        BY <1>2, <3>2
      <4> QED BY <1>2, <3>2, <4>1
    <3> QED BY <3>1, <3>2
  <2>2. ASSUME NEW x \in Elements(SetUp)
        PROVE  \E i \in 1 .. k + n : x = u[i]
    <3>1. PICK i \in 1 .. k : x = SetUp[i]
      BY <1>2 DEF Elements
    <3>2. i \in 1 .. k + n /\ u[i] = x
      BY <1>2, <3>1
    <3> QED BY <3>2
  <2>3. ASSUME NEW j \in 1 .. n
        PROVE  \E i \in 1 .. k + n : BuildUp[j] = u[i]
    <3>1. j \in 1 .. Len(BuildUp) /\ j + k \in 1 .. k + n
      BY <1>2
    <3> QED BY <1>2, <3>1
  <2> QED BY <2>1, <2>2, <2>3
<1>5. {BuildUp[i] : i \in 1 .. n} \subseteq Swapped
  <2>1. ASSUME NEW i \in 1 .. n PROVE i \in DOMAIN BuildUp
    BY <1>2
  <2> QED BY <2>1 DEF Elements, Swapped
<1> QED BY <1>3, <1>4, <1>5

LEMMA LeftByDestruction ==
  ASSUME NEW S \in SUBSET Objects, Closed(S), NEW s \in {RetireOrder, RetireOrder \o TeardownOrder},
         NEW n \in 0 .. Len(s)
  PROVE  Closed(S \ {s[i] : i \in 1 .. n})
<1>1. Down(RetireOrder, 1, 13) /\ Down(RetireOrder \o TeardownOrder, 1, 26)
  BY RetireOrderSorted, WholeOrders
<1> QED BY <1>1, DestroyedClosed

LEMMA DestroyedAll ==
  ASSUME NEW s \in {RetireOrder, RetireOrder \o TeardownOrder}
  PROVE  Len(s) \in Nat /\ Elements(s) = {s[i] : i \in 1 .. Len(s)}
<1>1. s \in Seq(Things)
  BY RetireOrderSorted, WholeOrders DEF Down, Sorted
<1> QED BY <1>1 DEF Elements

Stages == Running \cup {"construct", "retire", "cleanup", "teardown", "gone"}

\* What there is, and what there is to destroy.
Owned ==
  /\ at \in Stages
  /\ live \subseteq Objects /\ Closed(live)
  /\ at \in Running \cup {"cleanup", "gone"} => todo = <<>>
  /\ at = "teardown" => todo = RetireOrder \o TeardownOrder
  /\ at = "construct" /\ then # "recreate" => live = Elements(SetUp)

\* How a run has ended.
Ended == at = "gone" => live = {} \/ (Obj("messenger") \notin live /\ ~passed)

LEMMA InitOwned == Init => Owned /\ Ended
  BY DEF Init, Owned, Ended, Closed, Stages, Running, Driving

(***************************************************************************)
(* What the host makes or destroys next keeps Owned.                       *)
(***************************************************************************)
LEMMA OwnedStays ==
  ASSUME Owned, UNCHANGED <<todo, live>>, at \in Running, at' \in Running \cup {"cleanup"}
  PROVE  Owned'
  BY DEF Owned, Stages, Running, Driving

LEMMA MakeOwned ==
  ASSUME IInv, Owned, Make
  PROVE  Owned'
<1>1. PICK n \in 1 .. Len(todo) :
        /\ live' = live \cup {todo[i] : i \in 1 .. n}
        /\ at' = IF n = Len(todo) THEN then ELSE "cleanup"
  BY DEF Make
<1>2. at = "construct" /\ todo' = <<>>
  BY DEF Make
<1>3. at' \in Running \cup {"cleanup"}
  BY <1>1 DEF IInv, Thens, Running, Driving
<1>4. live' \subseteq Objects /\ Closed(live')
  <2>1. CASE todo = SetUp /\ live = {}
    <3>1. n \in 0 .. Len(SetUp) /\ live' = {SetUp[i] : i \in 1 .. n}
      BY <1>1, <2>1
    <3> QED BY <3>1, FirstMade DEF Objects
  <2>2. CASE todo = BuildUp /\ live = Elements(SetUp)
    <3>1. n \in 0 .. Len(BuildUp) /\ live' = Elements(SetUp) \cup {BuildUp[i] : i \in 1 .. n}
      BY <1>1, <2>2
    <3> QED BY <3>1, ThenMade DEF Objects, Swapped
  <2> QED BY <1>2, <2>1, <2>2 DEF IInv, Building, Owned
<1> QED BY <1>2, <1>3, <1>4 DEF Owned, Stages, Running, Driving

LEMMA DestroyOwned ==
  ASSUME IInv, Owned, Destroy
  PROVE  Owned' /\ Ended'
<1>1. todo \in {RetireOrder, RetireOrder \o TeardownOrder}
  BY DEF Destroy, IInv, Building, Owned
<1>2. live' = live \ Elements(todo) /\ UNCHANGED then
  BY DEF Destroy
<1>3. live' \subseteq Objects /\ Closed(live')
  <2>1. Len(todo) \in Nat /\ Elements(todo) = {todo[i] : i \in 1 .. Len(todo)}
    BY <1>1, DestroyedAll
  <2>2. Len(todo) \in 0 .. Len(todo)
    BY <2>1
  <2>3. live \in SUBSET Objects /\ Closed(live)
    BY DEF Owned
  <2>4. Closed(live \ {todo[i] : i \in 1 .. Len(todo)})
    BY <1>1, <2>2, <2>3, LeftByDestruction
  <2> QED BY <1>2, <2>1, <2>3, <2>4
<1>4. CASE at = "retire" /\ at' = "construct" /\ todo' = BuildUp
  <2>1. Elements(SetUp) \subseteq live /\ todo = RetireOrder
    BY <1>4 DEF IInv, Building
  <2>2. live' = Elements(SetUp)
    BY <1>2, <2>1, Apart, Orders DEF Owned, Objects, Swapped
  <2> QED BY <1>3, <1>4, <2>2 DEF Owned, Ended, Stages, Running, Driving
<1>5. CASE at = "teardown" /\ at' = "gone" /\ todo' = <<>>
  <2>1. live' = {}
    BY <1>2, <1>5, Orders DEF Owned
  <2> QED BY <1>3, <1>5, <2>1 DEF Owned, Ended, Stages, Running, Driving
<1> QED BY <1>4, <1>5 DEF Destroy

LEMMA AbandonOwned ==
  ASSUME Owned, Abandon
  PROVE  Owned' /\ Ended'
<1>1. /\ live' = live \ {Obj("messenger")} /\ at' = "gone" /\ at = "cleanup" /\ ~passed'
      /\ UNCHANGED todo
  BY DEF Abandon
<1>2. \A o \in live : Obj("messenger") \notin Parents[o]
  <2> SUFFICES ASSUME NEW o \in Objects, Obj("messenger") \in Parents[o] PROVE FALSE
    BY DEF Owned
  <2>1. (\A e \in MadeFrom : e[2] # "messenger") /\ "messenger" \notin Imaged
    BY DEF MadeFrom, Imaged
  <2>2. \A n : Obj(n).of = n /\ Obj(n).part = "object"
    BY DEF Obj
  <2>3. o.part = "view" => o.of \in Imaged
    BY Orders DEF Things
  <2>4. \/ \E e \in MadeFrom : Obj("messenger") = Obj(e[2])
        \/ \E i \in Imaged : Obj("messenger") = [of |-> i, part |-> "view"]
        \/ o.part = "view" /\ Obj("messenger") = Obj(o.of)
    BY DEF Parents, Imaged
  <2>5. CASE \E e \in MadeFrom : Obj("messenger") = Obj(e[2])
    BY <2>1, <2>2, <2>5
  <2>6. CASE \E i \in Imaged : Obj("messenger") = [of |-> i, part |-> "view"]
    BY <2>2, <2>6
  <2>7. CASE o.part = "view" /\ Obj("messenger") = Obj(o.of)
    BY <2>1, <2>2, <2>3, <2>7
  <2> QED BY <2>4, <2>5, <2>6, <2>7
<1>3. Closed(live')
  BY <1>1, <1>2 DEF Owned, Closed
<1> QED BY <1>1, <1>3 DEF Owned, Ended, Stages, Running, Driving

(***************************************************************************)
(* Every action keeps both.                                                *)
(***************************************************************************)
LEMMA StepOwned == IInv /\ Owned /\ Ended /\ [Next]_vars => Owned' /\ Ended'
<1> SUFFICES ASSUME IInv, Owned, Ended, [Next]_vars PROVE Owned' /\ Ended'
  OBVIOUS
<1> USE DEF owned, gpu, around, run
<1>1. ASSUME UNCHANGED <<todo, live>>, at \in Running, at' \in Running \cup {"cleanup"}
      PROVE  Owned' /\ Ended'
  BY <1>1, OwnedStays DEF Ended, Running, Driving
<1>2. CASE UNCHANGED <<at, then, todo, live, passed>>
  BY <1>2 DEF Owned, Ended
<1>3. CASE Make
  BY <1>3, MakeOwned DEF Make, IInv, Thens, Ended
<1>4. CASE Destroy
  BY <1>4, DestroyOwned
<1>5. CASE Abandon
  BY <1>5, AbandonOwned
<1>6. CASE Recreate
  <2>1. CASE at' = then
    BY <1>1, <1>6, <2>1 DEF Recreate, IInv, Thens, Running, Driving
  <2>2. CASE at' = "retire"
    BY <1>6, <2>2 DEF Recreate, Owned, Ended, Stages, Running, Driving
  <2> QED BY <1>6, <2>1, <2>2 DEF Recreate
<1>7. CASE Fails
  BY <1>7 DEF Fails, Owned, Ended, Stages, Running, Driving
<1>8. CASE Teardown
  BY <1>8 DEF Teardown, Owned, Ended, Stages, Running, Driving
<1>9. CASE Draw \/ Sized \/ Acquire \/ AcquireNothing \/ Upload \/ Submit
  BY <1>1, <1>9 DEF Draw, Sized, Acquire, AcquireNothing, Upload, Submit, Running, Driving
<1>10. CASE Present \/ Capture \/ NextStep \/ Retry \/ Await \/ Drawn
  BY <1>1, <1>10 DEF Present, Capture, NextStep, Retry, Await, Drawn, Running, Driving
<1>11. CASE Finish \/ LiveEnd
  BY <1>1, <1>11 DEF Finish, LiveEnd, Running, Driving
<1>12. CASE Report
  <2>1. at = "completed" /\ at' = "ready" /\ UNCHANGED <<todo, live>>
    BY <1>12 DEF Report
  <2> QED BY <1>1, <2>1 DEF Running, Driving
<1>13. CASE Browse
  <2>1. at = "ready" /\ at' \in {"cleanup", "draw"} /\ UNCHANGED <<todo, live>>
    BY <1>13 DEF Browse
  <2> QED BY <1>1, <2>1 DEF Running, Driving
<1>14. CASE LiveTurn
  <2>1. at = "ready"
    BY <1>14 DEF LiveTurn
  <2>2. UNCHANGED todo /\ UNCHANGED live
    BY <1>14 DEF LiveTurn
  <2>3. at' = at \/ at' = "draw"
    BY <1>14 DEF LiveTurn
  <2> QED BY <1>1, <2>1, <2>2, <2>3 DEF Running, Driving
<1>15. CASE (\E f \in Fences : WaitFor(f)) \/ \E f \in Fences : Complete(f)
  BY <1>2, <1>15 DEF WaitFor, Complete
<1>16. CASE Lapse \/ Publish \/ OwnerStops \/ UNCHANGED vars
  BY <1>2, <1>16 DEF Lapse, Publish, OwnerStops, vars
<1> QED
  BY <1>3, <1>4, <1>5, <1>6, <1>7, <1>8, <1>9, <1>10, <1>11, <1>12, <1>13, <1>14,
     <1>15, <1>16
     DEF Next, Host, Gone

-----------------------------------------------------------------------------

\* What is allocated is what the memories that exist hold.
Counted ==
  /\ extent \in Nat
  /\ size \in [Memories -> Nat] /\ \A m \in Memories \ live : size[m] = 0
  /\ allocated = SumFunctionOnSet(size, Memories)

LEMMA MemoriesFinite == IsFiniteSet(Memories)
<1> DEFINE s == RetireOrder \o TeardownOrder
<1>1. s \in Seq(Things) /\ Elements(s) = Objects
  BY WholeOrders, Orders DEF Down, Sorted
<1> HIDE DEF s
<1>2. Len(s) \in Nat /\ DOMAIN s = 1 .. Len(s) /\ s \in [1 .. Len(s) -> Things]
  BY <1>1
<1>3. s \in [1 .. Len(s) -> Objects] /\ \A o \in Objects : \E i \in 1 .. Len(s) : s[i] = o
  BY <1>1, <1>2 DEF Elements
<1>4. s \in Surjection(1 .. Len(s), Objects)
  BY <1>3 DEF Surjection
<1>5. IsFiniteSet(Objects)
  BY <1>2, <1>4, FS_NatSurjection DEF ExistsSurjection
<1> QED BY <1>5, FS_Subset DEF Memories

LEMMA InitCounted == Init => Counted
<1> SUFFICES ASSUME Init PROVE Counted
  OBVIOUS
<1>1. size = [m \in Memories |-> 0] /\ allocated = 0 /\ extent = 0
  BY DEF Init
<1>2. SumFunctionOnSet(size, Memories) = 0
  BY <1>1, MemoriesFinite, SumZero
<1> QED BY <1>1, <1>2 DEF Counted

(***************************************************************************)
(* What is made is counted with the bytes it has taken.                    *)
(***************************************************************************)
LEMMA MakeCounted ==
  ASSUME IInv, Owned, Counted, Make
  PROVE  Counted'
<1> DEFINE bytes == [m \in Memories |-> Bytes(m)]
<1>1. PICK n \in 1 .. Len(todo) :
        LET made == {todo[i] : i \in 1 .. n}
        IN /\ live' = live \cup made
           /\ size' = [m \in Memories |-> IF m \in made THEN Bytes(m) ELSE size[m]]
           /\ allocated' = allocated + SumFunctionOnSet(bytes, made \cap Memories)
  BY DEF Make
<1>2. UNCHANGED extent /\ at = "construct"
  BY DEF Make
<1> DEFINE made == {todo[i] : i \in 1 .. n}
           A == made \cap Memories
           B == Memories \ made
<1>3. made \cap live = {}
  <2>1. CASE live = {}
    BY <2>1
  <2>2. CASE todo = BuildUp /\ live = Elements(SetUp)
    <3>1. made \subseteq Swapped
      <4>1. n \in 0 .. Len(BuildUp) /\ made = {BuildUp[i] : i \in 1 .. n}
        BY <2>2
      <4> QED BY <4>1, ThenMade
    <3>2. Swapped \cap Elements(SetUp) = {}
      BY Orders, Apart
    <3> QED BY <2>2, <3>1, <3>2
  <2> QED BY <1>2, <2>1, <2>2 DEF IInv, Building, Owned
<1>4. \A m \in Memories : Bytes(m) \in Nat
  BY RendererAssumption DEF Bytes, Counted
<1> HIDE DEF made
<1>5. size' \in [Memories -> Nat] /\ \A m \in Memories \ live' : size'[m] = 0
  BY <1>1, <1>4 DEF made, Counted
<1>6. IsFiniteSet(A) /\ IsFiniteSet(B) /\ A \cup B = Memories /\ A \cap B = {}
  BY MemoriesFinite, FS_Subset
<1>7. SumFunctionOnSet(size', Memories) = SumFunctionOnSet(size', A) + SumFunctionOnSet(size', B)
  BY <1>5, <1>6, SumSplit
<1>8. SumFunctionOnSet(size, Memories) = SumFunctionOnSet(size, A) + SumFunctionOnSet(size, B)
  BY <1>6, SumSplit DEF Counted
<1>9. SumFunctionOnSet(size, A) = 0
  BY <1>3, <1>6, SumZero DEF Counted
<1>10. SumFunctionOnSet(size', A) = SumFunctionOnSet(bytes, A)
  <2>1. \A m \in A : size'[m] = bytes[m]
    BY <1>1 DEF made
  <2> HIDE DEF bytes
  <2> QED BY <1>6, <2>1, SumAgree
<1>11. SumFunctionOnSet(size', B) = SumFunctionOnSet(size, B)
  <2>1. \A m \in B : size'[m] = size[m]
    BY <1>1 DEF made
  <2> QED BY <1>6, <2>1, SumAgree
<1>12. allocated' = allocated + SumFunctionOnSet(bytes, A)
  BY <1>1 DEF made
<1> HIDE DEF bytes, A, B
<1>13. allocated = SumFunctionOnSet(size, Memories)
  BY DEF Counted
<1>14. SumFunctionOnSet(size, B) \in Nat /\ SumFunctionOnSet(bytes, A) \in Nat
  <2>1. (\A m \in B : size[m] \in Nat) /\ \A m \in A : bytes[m] \in Nat
    BY <1>4, <1>6 DEF Counted, bytes
  <2> QED BY <1>6, <2>1, SumNat
<1>15. allocated' = SumFunctionOnSet(size', Memories)
  BY <1>7, <1>8, <1>9, <1>10, <1>11, <1>12, <1>13, <1>14
<1> QED BY <1>2, <1>5, <1>15 DEF Counted

(***************************************************************************)
(* What is destroyed gives back the bytes it had.                          *)
(***************************************************************************)
LEMMA DestroyCounted ==
  ASSUME Counted, Destroy
  PROVE  Counted'
<1> DEFINE gone == Elements(todo)
           A == Memories \cap gone
           B == Memories \ gone
<1>1. /\ live' = live \ gone /\ UNCHANGED extent
      /\ size' = [m \in Memories |-> IF m \in gone THEN 0 ELSE size[m]]
      /\ allocated' = allocated - SumFunctionOnSet(size, A)
  BY DEF Destroy, Freed
<1> HIDE DEF gone
<1>2. size' \in [Memories -> Nat] /\ \A m \in Memories \ live' : size'[m] = 0
  BY <1>1 DEF Counted
<1>3. IsFiniteSet(A) /\ IsFiniteSet(B) /\ A \cup B = Memories /\ A \cap B = {}
  BY MemoriesFinite, FS_Subset
<1>4. SumFunctionOnSet(size', Memories) = SumFunctionOnSet(size', A) + SumFunctionOnSet(size', B)
  BY <1>2, <1>3, SumSplit
<1>5. SumFunctionOnSet(size, Memories) = SumFunctionOnSet(size, A) + SumFunctionOnSet(size, B)
  BY <1>3, SumSplit DEF Counted
<1>6. SumFunctionOnSet(size', A) = 0
  BY <1>1, <1>3, SumZero
<1>7. SumFunctionOnSet(size', B) = SumFunctionOnSet(size, B)
  BY <1>1, <1>3, SumAgree
<1>8. SumFunctionOnSet(size, A) \in Nat /\ SumFunctionOnSet(size, B) \in Nat
  BY <1>3, SumNat DEF Counted
<1> HIDE DEF A, B
<1>9. allocated' = SumFunctionOnSet(size', Memories)
  BY <1>1, <1>4, <1>5, <1>6, <1>7, <1>8 DEF Counted
<1> QED BY <1>1, <1>2, <1>9 DEF Counted

(***************************************************************************)
(* Every action keeps the count.                                           *)
(***************************************************************************)
LEMMA StepCounted == IInv /\ Owned /\ Counted /\ [Next]_vars => Counted'
<1> SUFFICES ASSUME IInv, Owned, Counted, [Next]_vars PROVE Counted'
  OBVIOUS
<1> USE DEF owned, gpu, around, run
<1>1. CASE Make
  BY <1>1, MakeCounted
<1>2. CASE Destroy
  BY <1>2, DestroyCounted
<1>3. CASE Recreate
  <2>1. UNCHANGED <<live, size, allocated>>
    BY <1>3 DEF Recreate
  <2>2. UNCHANGED extent \/ (window.extent \in 1 .. MaxPixels /\ extent' = window.extent)
    BY <1>3 DEF Recreate
  <2>3. extent' \in Nat
    BY <2>2, RendererAssumption DEF Counted
  <2> QED BY <2>1, <2>3 DEF Counted
<1>4. CASE Abandon
  <2>1. live' \subseteq live /\ UNCHANGED <<size, allocated, extent>>
    BY <1>4 DEF Abandon
  <2>2. \A m \in Memories : m # Obj("messenger")
    BY DEF Memories, Obj
  <2>3. Memories \ live' = Memories \ live
    BY <1>4, <2>2 DEF Abandon
  <2> QED BY <2>1, <2>3 DEF Counted
<1>5. ASSUME UNCHANGED <<extent, live, size, allocated>>
      PROVE  Counted'
  BY <1>5 DEF Counted
<1>6. CASE (\E f \in Fences : WaitFor(f)) \/ \E f \in Fences : Complete(f)
  BY <1>5, <1>6 DEF WaitFor, Complete
<1>7. CASE Draw \/ Sized \/ Acquire \/ AcquireNothing \/ Upload \/ Submit
  BY <1>5, <1>7 DEF Draw, Sized, Acquire, AcquireNothing, Upload, Submit
<1>8. CASE Present \/ Capture \/ NextStep \/ Retry \/ Await \/ Drawn
  BY <1>5, <1>8 DEF Present, Capture, NextStep, Retry, Await, Drawn
<1>9. CASE Browse \/ Finish \/ LiveEnd \/ Report
  BY <1>5, <1>9 DEF Browse, Finish, LiveEnd, Report
<1>10. CASE LiveTurn
  <2>1. UNCHANGED extent /\ UNCHANGED <<live, size, allocated>>
    BY <1>10 DEF LiveTurn
  <2> QED BY <1>5, <2>1
<1>11. CASE Fails \/ Teardown \/ Lapse \/ Publish \/ OwnerStops \/ UNCHANGED vars
  BY <1>5, <1>11 DEF Fails, Teardown, Lapse, Publish, OwnerStops, vars
<1> QED
  BY <1>1, <1>2, <1>3, <1>4, <1>6, <1>7, <1>8, <1>9, <1>10, <1>11 DEF Next, Host, Gone

(***************************************************************************)
(* In every run, for every budget, wherever construction stops and however *)
(* often it is rebuilt: nothing outlives what it was made from, and a run  *)
(* that could wait for the GPU leaves nothing behind and no byte counted.  *)
(***************************************************************************)
THEOREM DestroyedInOrder == Spec => []NothingOutlives
<1>1. ASSUME IInv, Owned, Ended, Counted
      PROVE  NothingOutlives
  <2>1. ASSUME NEW n \in 0 .. (IF at = "construct" THEN 0 ELSE Len(todo))
        PROVE  Closed(live \ {todo[i] : i \in 1 .. n})
    <3>1. CASE at \in {"retire", "teardown"}
      <4>1. todo \in {RetireOrder, RetireOrder \o TeardownOrder} /\ n \in 0 .. Len(todo)
        BY <1>1, <3>1 DEF IInv, Building, Owned
      <4> QED BY <1>1, <4>1, LeftByDestruction DEF Owned
    <3>2. CASE at \notin {"retire", "teardown"}
      <4>1. n = 0
        BY <1>1, <3>2 DEF Owned, Stages
      <4>2. live \ {todo[i] : i \in 1 .. n} = live
        BY <4>1
      <4> QED BY <1>1, <4>2 DEF Owned
    <3> QED BY <3>1, <3>2
  <2>2. at = "gone" => \/ live = {} /\ allocated = 0
                       \/ Obj("messenger") \notin live /\ ~passed
    <3>1. CASE at = "gone" /\ live = {}
      <4>1. \A m \in Memories : size[m] = 0
        BY <1>1, <3>1 DEF Counted
      <4>2. allocated = 0
        BY <1>1, <4>1, MemoriesFinite, SumZero DEF Counted
      <4> QED BY <3>1, <4>2
    <3> QED BY <1>1, <3>1 DEF Ended
  <2> QED BY <2>1, <2>2 DEF NothingOutlives, Closed
<1>2. Init => IInv /\ Owned /\ Ended /\ Counted
  BY InitInv, InitOwned, InitCounted
<1>3. IInv /\ Owned /\ Ended /\ Counted /\ [Next]_vars => IInv' /\ Owned' /\ Ended' /\ Counted'
  BY StepInv, StepOwned, StepCounted
<1> QED BY <1>1, <1>2, <1>3, PTL DEF Spec
=============================================================================
