------------------------------ MODULE Clientset ------------------------------
(***************************************************************************)
(* How a generated clientset is made from a rest.Config.  Of a config the  *)
(* flow control matters, a token bucket for the requests or the rate and   *)
(* the burst to make one from, and the types that its codecs know.  A      *)
(* bucket is named by the clientset it was made in and the client it was   *)
(* made for.                                                               *)
(***************************************************************************)
EXTENDS DeepCopy, Integers

Configs == [qps : Int, burst : Int, bucket : {Nil} \cup (STRING \X STRING),
            types : SUBSET Kinds]

\* What the init of a clientset's scheme package registers: the types of its group,
\* and, for the internal version, those of all versions.
UpgradeScheme  == UpgradeTypes
AppScheme      == AppTypes
V1alpha1Scheme == V1alpha1Types
StorageScheme  == StorageTypes \cup V1alpha1Types

\* The scheme of the snapdiff server, which converts between its types.
ServerScheme == StorageTypes \cup V1alpha1Types

\* setConfigDefaults of the clients of the groups.  The client of the internal
\* version has a rate and a burst of its own, if the config has none.
UpgradeDefaults(config)  == [config EXCEPT !.types = UpgradeScheme]
AppDefaults(config)      == [config EXCEPT !.types = AppScheme]
V1alpha1Defaults(config) == [config EXCEPT !.types = V1alpha1Scheme]
StorageDefaults(config)  ==
    [config EXCEPT !.types = StorageScheme,
                   !.qps   = IF @ = 0 THEN 5 ELSE @,
                   !.burst = IF @ = 0 THEN 10 ELSE @]

setConfigDefaults(config, kind) ==
    CASE kind \in UpgradeTypes  -> UpgradeDefaults(config)
      [] kind \in AppTypes      -> AppDefaults(config)
      [] kind \in V1alpha1Types -> V1alpha1Defaults(config)
      [] kind \in StorageTypes  -> StorageDefaults(config)

\* The copy of the config that NewForConfig makes of the clientset name works on:
\* its clients share one bucket if the config asks for a rate.
WithBucket(config, name) ==
    IF config.bucket = Nil /\ config.qps > 0
       THEN [config EXCEPT !.bucket = <<name, "all">>]
       ELSE config

Refused(config) == config.bucket = Nil /\ config.qps > 0 /\ config.burst <= 0

\* rest.RESTClientFor: a rate of 0 stands for a default, a negative one for none.
BucketFor(config, name, client) ==
    IF config.bucket # Nil \/ config.qps < 0 THEN config.bucket ELSE <<name, client>>

\* The client of the group copies the config again and sets its defaults in the copy.
GroupClient(config, name, kind) ==
    LET copy == setConfigDefaults(config, kind) IN
    [bucket |-> BucketFor(copy, name, "group"), types |-> copy.types]

DiscoveryClient(config, name) ==
    [bucket |-> BucketFor(config, name, "discovery"), types |-> {}]

NewForConfig(config, name, kind) ==
    LET copy == WithBucket(config, name) IN
    [group |-> GroupClient(copy, name, kind), discovery |-> DiscoveryClient(copy, name)]

\* The accessor of a clientset for its group.
Group(cs) == cs.group

=============================================================================
