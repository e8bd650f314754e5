----------------------------- MODULE ApiResources -----------------------------
(* The resources an API process owns: built by the first request that needs    *)
(* one, kept on the application, and released when the process stops. Requests *)
(* resolve their dependencies on threads of their own.                         *)
EXTENDS Naturals, FiniteSets

CONSTANTS
  Dependent,   \* the requests that resolve a dependency
  InSettings,  \* the guarded resources the settings of the process name
  Unset        \* the application holds no instance

ASSUME ResourceAssumption == Unset \notin Nat /\ Unset \notin Dependent

VARIABLES
  slot,       \* slot[r]: the instance the application holds
  holder,     \* holder[r]: the request that holds the lock of r
  built,      \* built[r]: how many instances were constructed
  released,   \* released[r]: the instances that were closed
  resolving,  \* resolving[d]: where request d is, and what it was given
  stopped

resourceVars == <<slot, holder, built, released, resolving, stopped>>

\* Resources with a lock of their own, and those without one.
Guarded == {"database", "task_broker", "oidc_verifier"}
Unguarded == {"job_discovery_service", "recommendation_service"}
Resource == Guarded \union Unguarded

\* What the shutdown of the application closes, disposes of or disconnects.
Released == {"job_discovery_service", "database", "task_broker"}

Idle == [resource |-> "none", step |-> "idle", given |-> 0]

Given(d, instance) ==
  resolving' = [resolving EXCEPT ![d] = [@ EXCEPT !.step = "served", !.given = instance]]

At(d, r, step) == resolving[d].resource = r /\ resolving[d].step = step

-------------------------------------------------------------------------------
Requests(d, r) ==
  /\ ~stopped
  /\ resolving[d] = Idle
  /\ resolving' = [resolving EXCEPT ![d] = [resource |-> r, step |-> "asks", given |-> 0]]
  /\ UNCHANGED <<slot, holder, built, released, stopped>>

\* The first look takes no lock.
FindsInstance(d, r) ==
  /\ At(d, r, "asks")
  /\ IF slot[r] # Unset THEN Given(d, slot[r])
     ELSE resolving' = [resolving EXCEPT ![d].step =
            IF r \in Guarded THEN "locks" ELSE "builds"]
  /\ UNCHANGED <<slot, holder, built, released, stopped>>

\* Faulty: the slot is not read again under the lock.
LocksAndBuilds(d, r) ==
  /\ At(d, r, "locks")
  /\ holder[r] = Unset
  /\ resolving' = [resolving EXCEPT ![d].step = "builds"]
  /\ holder' = [holder EXCEPT ![r] = d]
  /\ UNCHANGED <<slot, built, released, stopped>>

\* The second look, under the lock, decides who builds.
LooksAgain(d, r) ==
  /\ At(d, r, "locks")
  /\ holder[r] = Unset
  /\ IF slot[r] # Unset
       THEN Given(d, slot[r]) /\ UNCHANGED holder
       ELSE /\ resolving' = [resolving EXCEPT ![d].step = "builds"]
            /\ holder' = [holder EXCEPT ![r] = d]
  /\ UNCHANGED <<slot, built, released, stopped>>

\* The instance is constructed and is not yet on the application.
Builds(d, r) ==
  /\ At(d, r, "builds")
  /\ r \in InSettings \union Unguarded
  /\ built' = [built EXCEPT ![r] = @ + 1]
  /\ resolving' = [resolving EXCEPT ![d] =
       [@ EXCEPT !.step = "stores", !.given = built[r] + 1]]
  /\ UNCHANGED <<slot, holder, released, stopped>>

\* A resource that is not configured answers 503 and leaves no instance.
IsNotConfigured(d, r) ==
  /\ At(d, r, "builds")
  /\ r \in Guarded \ InSettings
  /\ resolving' = [resolving EXCEPT ![d] = Idle]
  /\ holder' = [holder EXCEPT ![r] = Unset]
  /\ UNCHANGED <<slot, built, released, stopped>>

Stores(d, r) ==
  /\ At(d, r, "stores")
  /\ slot' = [slot EXCEPT ![r] = resolving[d].given]
  /\ resolving' = [resolving EXCEPT ![d].step = "served"]
  /\ holder' = IF r \in Guarded THEN [holder EXCEPT ![r] = Unset] ELSE holder
  /\ UNCHANGED <<built, released, stopped>>

Completes(d) ==
  /\ resolving[d].step = "served"
  /\ resolving' = [resolving EXCEPT ![d] = Idle]
  /\ UNCHANGED <<slot, holder, built, released, stopped>>

\* The server stops after its requests; what the application holds is released.
ShutsDown ==
  /\ ~stopped
  /\ \A d \in Dependent : resolving[d] = Idle
  /\ stopped' = TRUE
  /\ released' = [r \in Resource |->
       IF r \in Released /\ slot[r] # Unset THEN {slot[r]} ELSE {}]
  /\ UNCHANGED <<slot, holder, built, resolving>>

-------------------------------------------------------------------------------
ResourceInit ==
  /\ slot = [r \in Resource |-> Unset]
  /\ holder = [r \in Resource |-> Unset]
  /\ built = [r \in Resource |-> 0]
  /\ released = [r \in Resource |-> {}]
  /\ resolving = [d \in Dependent |-> Idle]
  /\ stopped = FALSE

ResourceNext ==
  \/ ShutsDown
  \/ \E d \in Dependent :
       \/ Completes(d)
       \/ \E r \in Resource :
            \/ Requests(d, r) \/ FindsInstance(d, r) \/ LooksAgain(d, r)
            \/ Builds(d, r) \/ IsNotConfigured(d, r) \/ Stores(d, r)

ResourceSpec == ResourceInit /\ [][ResourceNext]_resourceVars

-------------------------------------------------------------------------------
\* Requests that arrive together share one engine, one broker and one verifier,
\* and the process leaves none of them open when it stops.
GuardedResourcesAreShared ==
  \A r \in Guarded :
    /\ built[r] <= 1
    /\ \A d \in Dependent :
         At(d, r, "served") => resolving[d].given = slot[r]
    /\ stopped /\ r \in Released => released[r] = 1..built[r]

\* Provider searches run through one executor of the process, which its
\* shutdown closes.
OneExecutor ==
  /\ built["job_discovery_service"] <= 1
  /\ stopped => Cardinality(released["job_discovery_service"]) = built["job_discovery_service"]
===============================================================================
