------------------------------ MODULE Registry ------------------------------
(***************************************************************************)
(* The registry of feature functions (src/src/registry.h) and the part of  *)
(* the constructor of NNetLanguageIdentifier that fills and uses it        *)
(* (src/src/nnet_language_identifier.cc).  Several threads of one process  *)
(* construct identifiers.  The pointer to the registry is a plain global;  *)
(* the registrars are function-local statics, which C++ constructs once    *)
(* and behind a guard.  A thread's step is one access to what is shared.   *)
(*                                                                         *)
(* A registry is a number, its components the names of its registrars, the *)
(* last one linked first.  DeleteRegistry, which nothing calls, is left    *)
(* out.                                                                    *)
(***************************************************************************)
EXTENDS Naturals, Sequences

CONSTANTS
  Threads,
  Components,        \* the names the constructor registers, in its order
  Features,          \* the names a set-up looks up, in its order
  MaxConstructions,  \* bound on the constructions begun
  FirstAlone         \* does nobody construct beside the very first construction?

\* The elements of a sequence.
Items(s) == {s[i] : i \in DOMAIN s}

ASSUME RegistryAssumption ==
  /\ Components \in Seq(STRING) /\ Features \in Seq(STRING)
  /\ Items(Features) \subseteq Items(Components)
  /\ MaxConstructions \in Nat
  /\ FirstAlone \in BOOLEAN

VARIABLES
  registry_,             \* the class's pointer; 0 is nullptr
  components,            \* for every registry made: its list of components
  global_registry_list,  \* the master list: registries with a first component
  registrar,             \* state of each static: "raw", "constructing", "done"
  where,                 \* for every thread: its place in the constructor
  at,                    \* ... the component or feature it is at
  into,                  \* ... the registry handed to the registrar
  link,                  \* ... the list that the registrar will link to
  begun, finished        \* how many constructions there were

rvars == <<registry_, components, global_registry_list, registrar, where, at,
           into, link, begun, finished>>

Places == {"idle", "test", "create", "clear", "register", "link", "setup",
           "built", "null"}

TypeOK ==
  /\ registry_ \in 0 .. Len(components)
  /\ components \in Seq(Seq(Items(Components)))
  /\ global_registry_list \in Seq(1 .. Len(components))
  /\ registrar \in [Items(Components) -> {"raw", "constructing", "done"}]
  /\ where \in [Threads -> Places]
  /\ at \in [Threads -> Nat \ {0}]
  /\ into \in [Threads -> 0 .. Len(components)]
  /\ link \in [Threads -> Seq(Items(Components))]
  /\ begun \in 0 .. MaxConstructions /\ finished \in Nat

RInit ==
  /\ registry_ = 0 /\ components = <<>> /\ global_registry_list = <<>>
  /\ registrar = [name \in Items(Components) |-> "raw"]
  /\ where = [t \in Threads |-> "idle"]
  /\ at = [t \in Threads |-> 1]
  /\ into = [t \in Threads |-> 0]
  /\ link = [t \in Threads |-> <<>>]
  /\ begun = 0 /\ finished = 0

Goes(t, place) == where' = [where EXCEPT ![t] = place]

Constructing == {t \in Threads : where[t] # "idle"}

-----------------------------------------------------------------------------
\* The constructor is entered; its checks of the sizes are in Binding.
Begin(t) ==
  /\ where[t] = "idle" /\ begun < MaxConstructions
  /\ FirstAlone => finished > 0 \/ Constructing = {}
  /\ Goes(t, "test") /\ begun' = begun + 1
  /\ UNCHANGED <<registry_, components, global_registry_list, registrar, at,
                 into, link, finished>>

\* Mutant: the registry is created without a look at whether there is one.
TestRegistryNever(t) ==
  /\ where[t] = "test"
  /\ Goes(t, "create")
  /\ at' = [at EXCEPT ![t] = 1]
  /\ UNCHANGED <<registry_, components, global_registry_list, registrar, into,
                 link, begun, finished>>

\* if (registry() == nullptr)
TestRegistry(t) ==
  /\ where[t] = "test"
  /\ Goes(t, IF registry_ = 0 THEN "create" ELSE "register")
  /\ at' = [at EXCEPT ![t] = 1]
  /\ UNCHANGED <<registry_, components, global_registry_list, registrar, into,
                 link, begun, finished>>

\* CreateRegistry: registry_ = new Registry(), which has no components.
NewRegistry(t) ==
  /\ where[t] = "create"
  /\ components' = Append(components, <<>>)
  /\ registry_' = Len(components) + 1
  /\ Goes(t, "clear")
  /\ UNCHANGED <<global_registry_list, registrar, at, into, link, begun, finished>>

\* CreateRegistry: registry_->components = nullptr, through the global pointer.
ClearComponents(t) ==
  /\ where[t] = "clear"
  /\ components' = [components EXCEPT ![registry_] = <<>>]
  /\ Goes(t, "register")
  /\ UNCHANGED <<registry_, global_registry_list, registrar, at, into, link,
                 begun, finished>>

Registering(t) == where[t] = "register" /\ at[t] <= Len(Components)

\* The first thread to come by constructs a static registrar: the registry is
\* what the pointer says now, and its first component enters the master list.
BeginRegistrar(t) ==
  /\ Registering(t)
  /\ registrar[Components[at[t]]] = "raw"
  /\ registrar' = [registrar EXCEPT ![Components[at[t]]] = "constructing"]
  /\ into' = [into EXCEPT ![t] = registry_]
  /\ link' = [link EXCEPT ![t] = components[registry_]]
  /\ global_registry_list' = IF components[registry_] = <<>>
                               THEN <<registry_>> \o global_registry_list
                               ELSE global_registry_list
  /\ Goes(t, "link")
  /\ UNCHANGED <<registry_, components, at, begun, finished>>

\* Mutant: the guard of the static is not released.
LinkRegistrarGuarded(t) ==
  /\ where[t] = "link"
  /\ components' = [components EXCEPT ![into[t]] = <<Components[at[t]]>> \o link[t]]
  /\ at' = [at EXCEPT ![t] = @ + 1]
  /\ Goes(t, "register")
  /\ UNCHANGED <<registry_, global_registry_list, registrar, into, link, begun, finished>>

\* registry->components = this: the registrar is the head of the list.
LinkRegistrar(t) ==
  /\ where[t] = "link"
  /\ components' = [components EXCEPT ![into[t]] = <<Components[at[t]]>> \o link[t]]
  /\ registrar' = [registrar EXCEPT ![Components[at[t]]] = "done"]
  /\ at' = [at EXCEPT ![t] = @ + 1]
  /\ Goes(t, "register")
  /\ UNCHANGED <<registry_, global_registry_list, into, link, begun, finished>>

\* A registrar that is constructed already; one under construction is waited for.
PassRegistrar(t) ==
  /\ Registering(t)
  /\ registrar[Components[at[t]]] = "done"
  /\ at' = [at EXCEPT ![t] = @ + 1]
  /\ UNCHANGED <<registry_, components, global_registry_list, registrar, where,
                 into, link, begun, finished>>

Registered(t) ==
  /\ where[t] = "register" /\ at[t] > Len(Components)
  /\ Goes(t, "setup")
  /\ at' = [at EXCEPT ![t] = 1]
  /\ UNCHANGED <<registry_, components, global_registry_list, registrar, into,
                 link, begun, finished>>

\* Setup: Create(type) looks the name up.  The check that it is found is void in
\* a release build, and the null registrar is used.
Lookup(t) ==
  /\ where[t] = "setup" /\ at[t] <= Len(Features)
  /\ IF Features[at[t]] \in Items(components[registry_])
       THEN at' = [at EXCEPT ![t] = @ + 1] /\ UNCHANGED where
       ELSE Goes(t, "null") /\ UNCHANGED at
  /\ UNCHANGED <<registry_, components, global_registry_list, registrar, into,
                 link, begun, finished>>

SetUp(t) ==
  /\ where[t] = "setup" /\ at[t] > Len(Features)
  /\ Goes(t, "built")
  /\ UNCHANGED <<registry_, components, global_registry_list, registrar, at,
                 into, link, begun, finished>>

\* The constructor returns.
End(t) ==
  /\ where[t] = "built"
  /\ Goes(t, "idle") /\ finished' = finished + 1
  /\ UNCHANGED <<registry_, components, global_registry_list, registrar, at,
                 into, link, begun>>

Construct(t) ==
  \/ TestRegistry(t) \/ NewRegistry(t) \/ ClearComponents(t)
  \/ BeginRegistrar(t) \/ LinkRegistrar(t) \/ PassRegistrar(t) \/ Registered(t)
  \/ Lookup(t) \/ SetUp(t)

RNext == \E t \in Threads : Begin(t) \/ Construct(t) \/ End(t)

RSpec == RInit /\ [][RNext]_rvars

-----------------------------------------------------------------------------
(* Properties *)

\* Every feature function that a set-up looks up is found: no registry that
\* was given components is replaced by one without, and none loses them
\* (nnet_language_identifier.cc:131, registry.h:160 and 198-210).  It holds
\* when the first construction is alone, or under a lock; with FirstAlone
\* FALSE it does not.
FeaturesFound == \A t \in Threads : where[t] # "null"
=============================================================================
