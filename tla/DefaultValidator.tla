-------------------------- MODULE DefaultValidator --------------------------
(***************************************************************************)
(* The creation of a container with the default validator in place: once   *)
(* the adjustments of all plugins are merged (Adjustment), the validator   *)
(* looks at their recorded owners and at the annotations of the pod, and   *)
(* only what it accepts goes on to the OCI Spec.  One reject option per    *)
(* kind of adjustment; which policy a seccomp adjustment replaces decides  *)
(* which of three options is meant, so one option stands for that one.     *)
(***************************************************************************)
EXTENDS Adjustment

CONSTANTS
    Configs(_),    \* configurations of the validator, by the kind adjusted
    Pods(_),       \* annotations of pods, likewise
    SeccompPolicy, \* the item that stands for it among the plain resources
    Absent,        \* a plugin that is not there
    Garbage        \* an annotation that does not parse

Options == {"hooks", "seccomp", "namespaces", "sysctl"}

ASSUME ValidatorAssumption ==
    /\ \A k \in Kinds : \A c \in Configs(k) : c.reject \subseteq Options
    /\ SeccompPolicy \in Keys
    /\ Absent \notin Plugins

VARIABLES config, pod, verdict

validatorVars == <<config, pod, verdict>>

\* The scopes of an annotation, the most specific one first: the container by its
\* name, "pod", and the plain key.
Scopes == <<"container", "pod", "key">>
-----------------------------------------------------------------------------
\* Mutant: the first key found wins, from the plain one to the most specific one.
EffectiveAnnotationReversed(annotation) ==
    LET set == {s \in 1..3 : Scopes[s] \in DOMAIN annotation}
    IN IF set = {} THEN {} ELSE {annotation[Scopes[CHOOSE s \in set : \A r \in set : r <= s]]}

\* The value of an annotation that applies to the container, if there is one.
GetEffectiveAnnotation(annotation) ==
    LET set == {s \in 1..3 : Scopes[s] \in DOMAIN annotation}
    IN IF set = {} THEN {} ELSE {annotation[Scopes[CHOOSE s \in set : \A r \in set : s <= r]]}

\* Mutant: a record with a mark of removal counts as no record.
ClaimedUnmarked(k) == item[k].owner # Unowned /\ ~item[k].owner.cleared

\* A lookup finds a record even if it is the mark of who cleared it.
Claimed(k) == item[k].owner # Unowned

Rejects(option) == option \in config'.reject

validateOCIHooks == kind = "hooks" /\ Rejects("hooks") => \A k \in Keys : ~Claimed(k)

validateSeccompPolicy == kind = "resources" /\ Rejects("seccomp") => ~Claimed(SeccompPolicy)

validateNamespaces == kind = "namespaces" /\ Rejects("namespaces") => \A k \in Keys : ~Claimed(k)

\* Only of sysctls that are in the reply.
validateSysctl ==
    kind = "sysctl" /\ Rejects("sysctl") => \A k \in Keys : Collected(item[k]) => ~Claimed(k)

validateRequiredPlugins ==
    LET tolerate  == IF config'.toleration THEN GetEffectiveAnnotation(pod'.tolerate) ELSE {}
        annotated == GetEffectiveAnnotation(pod'.required)
    IN /\ tolerate # {Garbage}
       /\ \/ tolerate = {TRUE}
          \/ /\ annotated # {Garbage}
             /\ config'.required \cup UNION annotated \subseteq Plugins

\* ValidateContainerAdjustment.  All plugins took part, whether subscribed or not.
Validate ==
    /\ status = "merging" /\ turn = N /\ verdict = "none"
    /\ config' \in Configs(kind)
    /\ pod' \in Pods(kind)
    /\ verdict' = IF /\ validateOCIHooks /\ validateSeccompPolicy /\ validateNamespaces
                     /\ validateRequiredPlugins /\ validateSysctl
                  THEN "accepted" ELSE "rejected"
    /\ UNCHANGED vars

ValidatedInit ==
    /\ Init
    /\ config = [reject |-> {}, required |-> {}, toleration |-> FALSE]
    /\ pod = [tolerate |-> <<>>, required |-> <<>>]
    /\ verdict = "none"

ValidatedNext ==
    \/ \E response \in Responses :
         (Apply(response) \/ Refuse(response) \/ Panic(response)) /\ UNCHANGED validatorVars
    \/ Validate
    \/ verdict = "accepted" /\ Generate /\ UNCHANGED validatorVars

ValidatedSpec == ValidatedInit /\ [][ValidatedNext]_<<vars, validatorVars>>
-----------------------------------------------------------------------------
(***************************************************************************)
(* Properties.                                                             *)
(***************************************************************************)

\* A container is created with what the runtime asked for wherever the validator
\* is told to reject adjustments, however many plugins shared, removed or
\* replaced an item before (validateOCIHooks, validateNamespaces, ...).
RestrictedIsUntouched ==
    status = "created" =>
        /\ kind \in config.reject => created = given
        /\ kind = "resources" /\ "seccomp" \in config.reject =>
               created[SeccompPolicy] = given[SeccompPolicy]

\* A container for which plugins are required, by the configuration or by the
\* annotation closest to it, is not created without them, unless the annotation
\* closest to it tolerates that; one that cannot be read fails the creation.
RequiredPluginsTookPart ==
    LET Closest(annotation, value) ==
            \/ "container" \in DOMAIN annotation /\ annotation["container"] = value
            \/ /\ "container" \notin DOMAIN annotation
               /\ \/ "pod" \in DOMAIN annotation /\ annotation["pod"] = value
                  \/ /\ "pod" \notin DOMAIN annotation
                     /\ "key" \in DOMAIN annotation /\ annotation["key"] = value
    IN status = "created" /\ ~(config.toleration /\ Closest(pod.tolerate, TRUE)) =>
           /\ Absent \notin config.required
           /\ ~Closest(pod.required, {Absent}) /\ ~Closest(pod.required, Garbage)
=============================================================================
