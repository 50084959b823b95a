--------------------------- MODULE InformerFactory ---------------------------
(***************************************************************************)
(* The generated SharedInformerFactory, as far as one type is concerned:   *)
(* the informer it has stored for the type, the one it has started (0 if   *)
(* none) and the number of informers it has created.  It hands the         *)
(* informer out through a chain of accessors, one chain for each type, or  *)
(* by the name of the resource.  The options of a factory (a namespace, a  *)
(* filter, a resync period of one type) are left out: the programs make    *)
(* theirs with NewSharedInformerFactory, which takes none.                 *)
(***************************************************************************)
EXTENDS Clientset

Factories == [informer : Nat, created : Nat, running : Nat]

NewSharedInformerFactory == [informer |-> 0, created |-> 0, running |-> 0]

\* A new informer, with functions to list and to watch of its own.
NewInformer(f) == f.created + 1

\* Mutant of InformerFor: an informer that exists is replaced.
InformerForEach(f) == [f EXCEPT !.informer = NewInformer(f), !.created = @ + 1]

\* Under the factory's lock: the stored informer, or a new one.
InformerFor(f) ==
    IF f.informer # 0 THEN f
    ELSE [f EXCEPT !.informer = NewInformer(f), !.created = @ + 1]

\* Start runs the informers that have been requested by now and do not run yet.
StartInformers(f) == [f EXCEPT !.running = f.informer]

-----------------------------------------------------------------------------
(* The chains.  Each accessor makes a new value, around the same factory.  *)

Clusterop(f)       == [factory |-> f]
V1alpha1(g)        == [factory |-> g.factory]
KubeletUpgrades(v) == [factory |-> v.factory]

App(f)         == [factory |-> f]
AppV1alpha1(g) == [factory |-> g.factory]
Databases(v)   == [factory |-> v.factory]

Storage(f)         == [factory |-> f]
StorageV1alpha1(g) == [factory |-> g.factory]
ChangedBlocks(v)   == [factory |-> v.factory]

InternalStorage(f)       == [factory |-> f]
InternalVersion(g)       == [factory |-> g.factory]
InternalChangedBlocks(v) == [factory |-> v.factory]

Chain(kind, f) ==
    CASE kind \in UpgradeTypes  -> KubeletUpgrades(V1alpha1(Clusterop(f)))
      [] kind \in AppTypes      -> Databases(AppV1alpha1(App(f)))
      [] kind \in V1alpha1Types -> ChangedBlocks(StorageV1alpha1(Storage(f)))
      [] kind \in StorageTypes  -> InternalChangedBlocks(InternalVersion(InternalStorage(f)))

\* The factory after a call of Informer() or Lister(), which begins with Informer().
Informer(chain) == InformerFor(chain.factory)

-----------------------------------------------------------------------------
(* ForResource: each factory knows the one resource it has a chain for.    *)

Resource(group, version, name) == [group |-> group, version |-> version, name |-> name]

UpgradeResource  == Resource("clusterop.isim.dev", "v1alpha1", "kubeletupgrades")
AppResource      == Resource("app.example.com", "v1alpha1", "databases")
V1alpha1Resource == Resource("storage.isim.dev", "v1alpha1", "changedblocks")
StorageResource  == Resource("storage.isim.dev", "__internal", "changedblocks")

Resources == {UpgradeResource, AppResource, V1alpha1Resource, StorageResource}

KnownResource(kind) ==
    CASE kind \in UpgradeTypes  -> UpgradeResource
      [] kind \in AppTypes      -> AppResource
      [] kind \in V1alpha1Types -> V1alpha1Resource
      [] kind \in StorageTypes  -> StorageResource

\* The factory after the call; of any other resource it has no informer.
ForResource(f, kind, r) == IF r = KnownResource(kind) THEN Informer(Chain(kind, f)) ELSE f

=============================================================================
