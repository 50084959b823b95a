------------------------------ MODULE DeepCopy ------------------------------
(***************************************************************************)
(* The generated deep copies of the API types.  Of an object only the      *)
(* fields that refer to memory (maps, slices, pointers) matter: the rest   *)
(* is copied by "*out = *in".  An object is a function from these fields   *)
(* to the memory they refer to: Nil, memory that no other object refers    *)
(* to (Own), or the memory of a cached object, named by the version of     *)
(* that object.  The list types have the items' copies for elements.       *)
(***************************************************************************)
EXTENDS Sequences

CONSTANTS Nil, Own

\* DeepCopyInto starts with "*out = *in": the copy shares every field, until
\* the fields in F, if they are not nil, get memory of their own.
Reallocate(o, F) ==
    [f \in DOMAIN o |-> IF f \in F /\ o[f] # Nil THEN Own ELSE o[f]]

\* metav1.ObjectMeta, with its maps of labels and annotations.
ObjectMetaCopy(o) == Reallocate(o, {"meta"})

-----------------------------------------------------------------------------
(* KubeletUpgrade *)

KubeletUpgradeFields == {"meta", "selector", "conditions"}

KubeletUpgradeSpecCopy(o) == Reallocate(o, {"selector"})

\* Mutant of KubeletUpgradeStatusCopy: the slice of conditions is not copied.
ShareConditions(o) == o

\* A condition holds no memory of its own: UpgradeCondition is copied by value.
KubeletUpgradeStatusCopy(o) == Reallocate(o, {"conditions"})

KubeletUpgradeCopy(o) == KubeletUpgradeStatusCopy(KubeletUpgradeSpecCopy(ObjectMetaCopy(o)))

KubeletUpgradeListCopy(items) == [i \in DOMAIN items |-> KubeletUpgradeCopy(items[i])]

-----------------------------------------------------------------------------
(* Database *)

DatabaseFields == {"meta", "env", "resources", "tolerations"}

DatabaseSpecCopy(o) == Reallocate(o, {"env", "resources", "tolerations"})

\* The status has no reference: "out.Status = in.Status".
DatabaseCopy(o) == DatabaseSpecCopy(ObjectMetaCopy(o))

DatabaseListCopy(items) == [i \in DOMAIN items |-> DatabaseCopy(items[i])]

-----------------------------------------------------------------------------
(* ChangedBlock, the internal type of the storage group *)

StorageFields == {"meta", "secrets", "parameters"}

StorageSpecCopy(o) == Reallocate(o, {"secrets", "parameters"})

StorageCopy(o) == StorageSpecCopy(ObjectMetaCopy(o))

StorageListCopy(items) == [i \in DOMAIN items |-> StorageCopy(items[i])]

-----------------------------------------------------------------------------
(* ChangedBlock, version v1alpha1 *)

ChangedBlockFields == {"meta", "context"}

ChangedBlockSpecCopy(o) == Reallocate(o, {"context"})

ChangedBlockCopy(o) == ChangedBlockSpecCopy(ObjectMetaCopy(o))

ChangedBlockListCopy(items) == [i \in DOMAIN items |-> ChangedBlockCopy(items[i])]

-----------------------------------------------------------------------------
(* The conversions between the two share the metadata; the specs have no   *)
(* field in common, and the new one stays empty.                           *)

ConvertedSpec(F) == [f \in F \ {"meta"} |-> Nil]

ConvertTo(F, o) == [f \in F |-> IF f = "meta" THEN o["meta"] ELSE ConvertedSpec(F)[f]]

ChangedBlockToStorage(o) == ConvertTo(StorageFields, o)
StorageToChangedBlock(o) == ConvertTo(ChangedBlockFields, o)

ListToStorage(items)  == [i \in DOMAIN items |-> ChangedBlockToStorage(items[i])]
ListToV1alpha1(items) == [i \in DOMAIN items |-> StorageToChangedBlock(items[i])]

-----------------------------------------------------------------------------
(* The types that the packages register (addKnownTypes), with their lists. *)

UpgradeTypes  == {"KubeletUpgrade"}
AppTypes      == {"Database"}
StorageTypes  == {"StorageChangedBlock"}
V1alpha1Types == {"ChangedBlock"}

Kinds == UpgradeTypes \cup AppTypes \cup StorageTypes \cup V1alpha1Types

Fields(kind) ==
    CASE kind = "KubeletUpgrade"      -> KubeletUpgradeFields
      [] kind = "Database"            -> DatabaseFields
      [] kind = "StorageChangedBlock" -> StorageFields
      [] kind = "ChangedBlock"        -> ChangedBlockFields

\* DeepCopyObject.
Copy(kind, o) ==
    CASE kind = "KubeletUpgrade"      -> KubeletUpgradeCopy(o)
      [] kind = "Database"            -> DatabaseCopy(o)
      [] kind = "StorageChangedBlock" -> StorageCopy(o)
      [] kind = "ChangedBlock"        -> ChangedBlockCopy(o)

ListCopy(kind, items) ==
    CASE kind = "KubeletUpgrade"      -> KubeletUpgradeListCopy(items)
      [] kind = "Database"            -> DatabaseListCopy(items)
      [] kind = "StorageChangedBlock" -> StorageListCopy(items)
      [] kind = "ChangedBlock"        -> ChangedBlockListCopy(items)

=============================================================================
