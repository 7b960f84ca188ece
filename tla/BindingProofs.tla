--------------------------- MODULE BindingProofs ---------------------------
(***************************************************************************)
(* Proofs about Registry and Binding, for every number of threads,         *)
(* objects, calls, languages and feature functions: the registry finds     *)
(* every feature when nobody constructs beside the first construction, and *)
(* under the GIL nobody does; every identifier is accounted for; and a     *)
(* call that returns has the best languages of its own text, as long as    *)
(* callers pass a num_langs that fits in an int.                           *)
(***************************************************************************)
EXTENDS Binding, SequenceTheorems, TLAPS

-----------------------------------------------------------------------------
(* The registry *)

AllDone == \A name \in Items(Components) : registrar[name] = "done"

\* Until the first construction has finished at most one is under way.
Alone == finished = 0 => \A t, u \in Constructing : t = u

\* What is constructed is in the registry that the pointer names.
DoneRegistered ==
  \A name \in Items(Components) : registrar[name] = "done" =>
    registry_ # 0 /\ name \in Items(components[registry_])

\* What holds of a thread at each place of the constructor.
AtPlace(t) ==
  /\ where[t] \in {"create", "clear", "link"} => finished = 0
  /\ where[t] = "create" => registry_ = 0
  /\ where[t] \in {"create", "clear"} => at[t] = 1
  /\ where[t] \in {"clear", "register", "link", "setup", "built"} => registry_ # 0
  /\ where[t] = "clear" => \A name \in Items(Components) : registrar[name] # "done"
  /\ where[t] \in {"register", "link"} =>
       \A i \in DOMAIN Components : i < at[t] => registrar[Components[i]] = "done"
  /\ where[t] = "link" =>
       /\ at[t] \in DOMAIN Components
       /\ into[t] = registry_ /\ link[t] = components[registry_]
  /\ where[t] \in {"setup", "built"} => AllDone
  /\ where[t] # "null"

IInv ==
  /\ TypeOK /\ Alone /\ DoneRegistered
  /\ finished > 0 => AllDone /\ registry_ # 0
  /\ \A t \in Threads : AtPlace(t)

\* A step of a process in which nobody constructs beside the first construction.
AloneNext ==
  \E t \in Threads :
    \/ Begin(t) /\ (finished > 0 \/ Constructing = {})
    \/ Construct(t) \/ End(t)

-----------------------------------------------------------------------------
\* A list with one more element in front, as LinkRegistrar makes it.
LEMMA Prepended ==
  ASSUME NEW S, NEW e \in S, NEW s \in Seq(S)
  PROVE  /\ <<e>> \o s \in Seq(S)
         /\ Items(<<e>> \o s) = {e} \cup Items(s)
<1> DEFINE r == <<e>> \o s
<1>1. r \in Seq(S) /\ Len(r) = Len(s) + 1 /\ r[1] = e
  OBVIOUS
<1>2. \A i \in 1 .. Len(s) : r[i + 1] = s[i]
  OBVIOUS
<1>3. \A i \in 1 .. Len(r) : i = 1 \/ (i - 1 \in 1 .. Len(s) /\ r[i] = s[i - 1])
  <2> TAKE i \in 1 .. Len(r)
  <2>1. CASE i # 1
    <3>1. i - 1 \in 1 .. Len(s)
      BY <2>1, <1>1
    <3> QED BY <3>1, <1>2
  <2> QED BY <2>1
<1>4. DOMAIN s = 1 .. Len(s) /\ DOMAIN r = 1 .. Len(r)
  BY <1>1
<1>5. Items(r) \subseteq {e} \cup Items(s)
  BY <1>1, <1>3, <1>4 DEF Items
<1>6. \A i \in 1 .. Len(s) : i + 1 \in 1 .. Len(r)
  BY <1>1
<1>7. {e} \cup Items(s) \subseteq Items(r)
  <2>1. e \in Items(r)
    <3>1. 1 \in 1 .. Len(r)
      BY <1>1
    <3> QED BY <3>1, <1>1, <1>4 DEF Items
  <2>2. ASSUME NEW i \in 1 .. Len(s) PROVE s[i] \in Items(r)
    BY <1>2, <1>4, <1>6 DEF Items
  <2> QED BY <2>1, <2>2, <1>4 DEF Items
<1> QED BY <1>1, <1>5, <1>7

\* The registry of the pointer is one that was made, and its list one of names.
LEMMA Pointed ==
  ASSUME TypeOK, registry_ # 0
  PROVE  /\ registry_ \in DOMAIN components
         /\ components[registry_] \in Seq(Items(Components))
BY DEF TypeOK

\* A place in the list of components holds one of their names.
LEMMA NameAt ==
  ASSUME NEW i \in DOMAIN Components
  PROVE  Components[i] \in Items(Components)
BY DEF Items

\* Before anybody constructs, nothing is registered and nobody is at work.
LEMMA Start == RInit => IInv
<1> SUFFICES ASSUME RInit PROVE IInv
  OBVIOUS
<1>1. TypeOK
  BY RegistryAssumption DEF RInit, TypeOK, Places
<1>2. Alone /\ DoneRegistered /\ \A t \in Threads : AtPlace(t)
  BY DEF RInit, Alone, DoneRegistered, AtPlace, Constructing
<1> QED BY <1>1, <1>2 DEF IInv, RInit
-----------------------------------------------------------------------------
(* Steps that move a thread and leave what is shared alone *)

\* A step that only moves one thread keeps the invariant, if what holds at its new
\* place does.
LEMMA Moves ==
  ASSUME IInv, NEW t \in Threads, where[t] # "idle",
         UNCHANGED <<registry_, components, global_registry_list, registrar, into,
                     link, begun, finished>>,
         NEW place \in Places \ {"idle"}, Goes(t, place),
         NEW i \in Nat \ {0}, at' = [at EXCEPT ![t] = i],
         AtPlace(t)'
  PROVE  IInv'
<1>1. where' \in [Threads -> Places] /\ at' \in [Threads -> Nat \ {0}]
  BY DEF IInv, TypeOK, Goes
<1>2. TypeOK'
  BY <1>1 DEF IInv, TypeOK
<1>3. \A u \in Threads : /\ u # t => where'[u] = where[u] /\ at'[u] = at[u]
                         /\ where'[u] = "idle" <=> where[u] = "idle"
  BY DEF IInv, TypeOK, Goes, Places
<1>4. Alone'
  BY <1>3 DEF IInv, Alone, Constructing
<1>5. DoneRegistered' /\ (finished > 0 => AllDone /\ registry_ # 0)'
  BY DEF IInv, DoneRegistered, AllDone
<1>6. ASSUME NEW u \in Threads, u # t PROVE AtPlace(u)'
  BY <1>3, <1>6 DEF IInv, AtPlace, AllDone
<1> QED
  BY <1>2, <1>4, <1>5, <1>6 DEF IInv

\* registry_ == nullptr is tested: null only before the first construction is through.
LEMMA TestRegistryKeeps ==
  ASSUME IInv, NEW t \in Threads, TestRegistry(t)
  PROVE  IInv'
<1> DEFINE place == IF registry_ = 0 THEN "create" ELSE "register"
<1>1. place \in Places \ {"idle"} /\ Goes(t, place) /\ where'[t] = place /\ at'[t] = 1
  BY DEF TestRegistry, Goes, Places, IInv, TypeOK
<1>2. registry_ = 0 => finished = 0
  BY DEF IInv, TypeOK
<1>3. AtPlace(t)'
  <2>1. \A i \in DOMAIN Components : ~ (i < 1)
    BY RegistryAssumption
  <2> QED
    BY <1>1, <1>2, <2>1 DEF TestRegistry, AtPlace
<1>4. /\ where[t] # "idle" /\ 1 \in Nat \ {0} /\ at' = [at EXCEPT ![t] = 1]
      /\ UNCHANGED <<registry_, components, global_registry_list, registrar, into,
                     link, begun, finished>>
  BY DEF TestRegistry
<1> HIDE DEF place
<1> QED
  BY <1>1, <1>3, <1>4, Moves

\* A registrar that is done is passed: its name is in the registry.
LEMMA PassRegistrarKeeps ==
  ASSUME IInv, NEW t \in Threads, PassRegistrar(t)
  PROVE  IInv'
<1>1. where[t] = "register" /\ at[t] \in Nat \ {0} /\ at[t] + 1 \in Nat \ {0}
  BY DEF PassRegistrar, Registering, IInv, TypeOK
<1>2. Goes(t, "register") /\ at' = [at EXCEPT ![t] = at[t] + 1] /\ at'[t] = at[t] + 1
  BY <1>1 DEF PassRegistrar, Goes, IInv, TypeOK
<1>3. \A i \in DOMAIN Components : i < at[t] + 1 => i < at[t] \/ i = at[t]
  BY <1>1, RegistryAssumption
<1>4. AtPlace(t)'
  BY <1>1, <1>2, <1>3 DEF PassRegistrar, AtPlace, IInv
<1>5. "register" \in Places \ {"idle"}
  BY DEF Places
<1> QED
  BY <1>1, <1>2, <1>4, <1>5, Moves DEF PassRegistrar

\* Behind the last registrar all are done.
LEMMA RegisteredKeeps ==
  ASSUME IInv, NEW t \in Threads, Registered(t)
  PROVE  IInv'
<1>1. where[t] = "register" /\ at[t] \in Nat /\ at[t] > Len(Components)
  BY DEF Registered, IInv, TypeOK
<1>2. \A i \in DOMAIN Components : registrar[Components[i]] = "done"
  <2>1. \A i \in DOMAIN Components : i < at[t]
    BY <1>1, RegistryAssumption
  <2> QED BY <1>1, <2>1 DEF IInv, AtPlace
<1>3. AllDone /\ registry_ # 0
  BY <1>1, <1>2 DEF AllDone, Items, IInv, AtPlace
<1>4. where'[t] = "setup" /\ "setup" \in Places \ {"idle"}
  BY DEF Registered, Goes, Places, IInv, TypeOK
<1>5. AtPlace(t)'
  BY <1>3, <1>4 DEF Registered, AtPlace, AllDone
<1>6. /\ where[t] # "idle" /\ 1 \in Nat \ {0} /\ Goes(t, "setup")
      /\ at' = [at EXCEPT ![t] = 1]
  BY DEF Registered
<1> QED
  BY <1>4, <1>5, <1>6, Moves DEF Registered

\* A lookup finds what is in the registry, so that no thread is led to null.
LEMMA LookupKeeps ==
  ASSUME IInv, NEW t \in Threads, Lookup(t)
  PROVE  IInv'
<1>1. where[t] = "setup" /\ at[t] \in Nat \ {0} /\ at[t] + 1 \in Nat \ {0}
  BY DEF Lookup, IInv, TypeOK
<1>2. AllDone /\ DoneRegistered /\ registry_ # 0
  BY <1>1 DEF IInv, AtPlace
<1>3. at[t] \in DOMAIN Features
  BY <1>1, RegistryAssumption DEF Lookup
<1>4. Features[at[t]] \in Items(Components)
  BY <1>3, RegistryAssumption DEF Items
<1>5. Features[at[t]] \in Items(components[registry_])
  BY <1>2, <1>4 DEF AllDone, DoneRegistered
<1>6. Goes(t, "setup") /\ at' = [at EXCEPT ![t] = at[t] + 1]
  BY <1>1, <1>5 DEF Lookup, Goes, IInv, TypeOK
<1>7. AtPlace(t)'
  BY <1>1, <1>2, <1>5 DEF Lookup, AtPlace, AllDone
<1>8. "setup" \in Places \ {"idle"}
  BY DEF Places
<1> QED
  BY <1>1, <1>6, <1>7, <1>8, Moves DEF Lookup

\* The extractors are set up, which leaves the registry alone.
LEMMA SetUpKeeps ==
  ASSUME IInv, NEW t \in Threads, SetUp(t)
  PROVE  IInv'
<1>1. where[t] = "setup" /\ at[t] \in Nat \ {0} /\ at' = [at EXCEPT ![t] = at[t]]
  BY DEF SetUp, IInv, TypeOK
<1>2. where'[t] = "built" /\ "built" \in Places \ {"idle"}
      /\ AllDone /\ registry_ # 0
  BY <1>1 DEF SetUp, Goes, Places, IInv, TypeOK, AtPlace
<1>3. AtPlace(t)'
  BY <1>2 DEF SetUp, AtPlace, AllDone
<1> QED
  BY <1>1, <1>2, <1>3, Moves DEF SetUp
-----------------------------------------------------------------------------
(* Steps that only the first construction takes *)

\* A step of the first construction keeps the invariant, if what it shares with
\* others stays of its type and its own place is right: all others are idle.
LEMMA MovesAlone ==
  ASSUME IInv, NEW t \in Threads, where[t] # "idle", finished = 0,
         UNCHANGED finished,
         NEW place \in Places \ {"idle"}, Goes(t, place),
         TypeOK', DoneRegistered', AtPlace(t)'
  PROVE  IInv'
<1>1. \A u \in Threads : u # t => where[u] = "idle"
  BY DEF IInv, Alone, Constructing
<1>2. \A u \in Threads : u # t => where'[u] = "idle"
  BY <1>1 DEF IInv, TypeOK, Goes
<1>3. Alone'
  BY <1>2 DEF Alone, Constructing
<1>4. \A u \in Threads : u # t => AtPlace(u)'
  BY <1>2 DEF AtPlace
<1>5. ~ (finished' > 0)
  OBVIOUS
<1> QED
  BY <1>3, <1>4, <1>5 DEF IInv

\* The pointer moves to a new registry before any registrar is done.
LEMMA NewRegistryKeeps ==
  ASSUME IInv, NEW t \in Threads, NewRegistry(t)
  PROVE  IInv'
<1>1. /\ where[t] = "create" /\ finished = 0 /\ registry_ = 0 /\ at[t] = 1
      /\ "clear" \in Places \ {"idle"} /\ Goes(t, "clear") /\ where'[t] = "clear"
  BY DEF NewRegistry, Goes, Places, IInv, TypeOK, AtPlace
<1>2. \A name \in Items(Components) : registrar[name] # "done"
  BY <1>1 DEF IInv, DoneRegistered
<1>3. /\ components \in Seq(Seq(Items(Components))) /\ Len(components) \in Nat
      /\ Len(components') = Len(components) + 1
      /\ components' \in Seq(Seq(Items(Components)))
  BY DEF NewRegistry, IInv, TypeOK
<1>4. TypeOK'
  <2>1. where' \in [Threads -> Places] /\ registry_' \in 0 .. Len(components')
    BY <1>1, <1>3 DEF NewRegistry, Goes, IInv, TypeOK
  <2>2. 1 .. Len(components) \subseteq 1 .. Len(components')
    BY <1>3
  <2>3. global_registry_list' \in Seq(1 .. Len(components'))
    BY <2>2 DEF NewRegistry, IInv, TypeOK
  <2>4. into' \in [Threads -> 0 .. Len(components')]
    BY <1>3 DEF NewRegistry, IInv, TypeOK
  <2> QED
    BY <1>3, <2>1, <2>3, <2>4 DEF NewRegistry, IInv, TypeOK
<1>5. DoneRegistered'
  BY <1>2 DEF NewRegistry, DoneRegistered
<1>6. registry_' # 0
  BY <1>3 DEF NewRegistry
<1>7. AtPlace(t)'
  BY <1>1, <1>2, <1>6 DEF NewRegistry, AtPlace
<1>8. where[t] # "idle" /\ UNCHANGED finished
  BY <1>1 DEF NewRegistry
<1> QED
  BY <1>1, <1>4, <1>5, <1>7, <1>8, MovesAlone

\* The list of a new registry is emptied before any registrar is done.
LEMMA ClearComponentsKeeps ==
  ASSUME IInv, NEW t \in Threads, ClearComponents(t)
  PROVE  IInv'
<1>1. /\ where[t] = "clear" /\ finished = 0 /\ registry_ # 0 /\ at[t] = 1
      /\ "register" \in Places \ {"idle"} /\ Goes(t, "register")
      /\ where'[t] = "register"
  BY DEF ClearComponents, Goes, Places, IInv, TypeOK, AtPlace
<1>2. \A name \in Items(Components) : registrar[name] # "done"
  BY <1>1 DEF IInv, AtPlace
<1>3. /\ components' \in Seq(Seq(Items(Components)))
      /\ Len(components') = Len(components)
  <2>1. components \in Seq(Seq(Items(Components))) /\ <<>> \in Seq(Items(Components))
    BY DEF IInv, TypeOK
  <2>2. components' = [components EXCEPT ![registry_] = <<>>]
    BY DEF ClearComponents
  <2>3. registry_ \in DOMAIN components
    BY <1>1, Pointed DEF IInv
  <2> QED
    BY <2>1, <2>2, <2>3
<1>4. TypeOK'
  BY <1>1, <1>3 DEF ClearComponents, Goes, IInv, TypeOK
<1>5. DoneRegistered'
  BY <1>2 DEF ClearComponents, DoneRegistered
<1>6. AtPlace(t)'
  <2>1. \A i \in DOMAIN Components : ~ (i < 1)
    BY RegistryAssumption
  <2> QED
    BY <1>1, <2>1 DEF ClearComponents, AtPlace
<1>7. where[t] # "idle" /\ UNCHANGED finished
  BY <1>1 DEF ClearComponents
<1> QED
  BY <1>1, <1>4, <1>5, <1>6, <1>7, MovesAlone

\* A registrar reads the list that it will prepend its name to.
LEMMA BeginRegistrarKeeps ==
  ASSUME IInv, NEW t \in Threads, BeginRegistrar(t)
  PROVE  IInv'
<1> DEFINE name == Components[at[t]]
<1>1. at[t] \in DOMAIN Components /\ name \in Items(Components)
  <2>1. at[t] \in DOMAIN Components
    BY RegistryAssumption DEF BeginRegistrar, Registering, IInv, TypeOK
  <2> QED BY <2>1, NameAt
<1>2. /\ where[t] = "register" /\ registrar[name] = "raw" /\ registry_ # 0
      /\ "link" \in Places \ {"idle"} /\ Goes(t, "link") /\ where'[t] = "link"
  BY DEF BeginRegistrar, Registering, Goes, Places, IInv, TypeOK, AtPlace
<1>3. finished = 0
  BY <1>1, <1>2 DEF IInv, AllDone, TypeOK
<1>4. registry_ \in DOMAIN components /\ components[registry_] \in Seq(Items(Components))
  BY <1>2, Pointed DEF IInv
<1>5. TypeOK'
  <2>1. where' \in [Threads -> Places]
    BY <1>2 DEF Goes, IInv, TypeOK
  <2>2. registrar' \in [Items(Components) -> {"raw", "constructing", "done"}]
    BY <1>1 DEF BeginRegistrar, IInv, TypeOK
  <2>3. into' \in [Threads -> 0 .. Len(components')]
    BY <1>4 DEF BeginRegistrar, IInv, TypeOK
  <2>4. link' \in [Threads -> Seq(Items(Components))]
    BY <1>4 DEF BeginRegistrar, IInv, TypeOK
  <2>5. global_registry_list' \in Seq(1 .. Len(components'))
    <3>1. registry_ \in 1 .. Len(components)
      BY <1>4 DEF IInv, TypeOK
    <3>2. <<registry_>> \o global_registry_list \in Seq(1 .. Len(components))
      BY <3>1, Prepended DEF IInv, TypeOK
    <3> QED
      BY <3>2 DEF BeginRegistrar, IInv, TypeOK
  <2> QED
    BY <2>1, <2>2, <2>3, <2>4, <2>5 DEF BeginRegistrar, IInv, TypeOK
<1>6. \A other \in Items(Components) : registrar'[other] = "done" <=> registrar[other] = "done"
  BY <1>1, <1>2 DEF BeginRegistrar, IInv, TypeOK
<1>7. DoneRegistered'
  BY <1>6 DEF BeginRegistrar, IInv, DoneRegistered
<1>8. AtPlace(t)'
  <2>1. into'[t] = registry_ /\ link'[t] = components[registry_]
    BY DEF BeginRegistrar, IInv, TypeOK
  <2>2. \A i \in DOMAIN Components : i < at[t] => registrar[Components[i]] = "done"
    BY <1>2 DEF IInv, AtPlace
  <2>3. \A i \in DOMAIN Components : i < at[t] => registrar'[Components[i]] = "done"
    BY <1>6, <2>2, NameAt
  <2> QED
    BY <1>1, <1>2, <1>3, <2>1, <2>3 DEF BeginRegistrar, AtPlace
<1>9. where[t] # "idle" /\ UNCHANGED finished
  BY <1>2 DEF BeginRegistrar
<1> QED
  BY <1>2, <1>3, <1>5, <1>7, <1>8, <1>9, MovesAlone

\* It links its name in front of a list that nobody changed since.
LEMMA LinkRegistrarKeeps ==
  ASSUME IInv, NEW t \in Threads, LinkRegistrar(t)
  PROVE  IInv'
<1> DEFINE name == Components[at[t]]
           list == <<name>> \o components[registry_]
<1>1. /\ where[t] = "link" /\ finished = 0 /\ registry_ # 0
      /\ at[t] \in DOMAIN Components
      /\ into[t] = registry_ /\ link[t] = components[registry_]
      /\ "register" \in Places \ {"idle"} /\ Goes(t, "register")
      /\ where'[t] = "register"
  BY DEF LinkRegistrar, Goes, Places, IInv, TypeOK, AtPlace
<1>2. name \in Items(Components)
  BY <1>1, NameAt
<1>3. registry_ \in DOMAIN components /\ components[registry_] \in Seq(Items(Components))
  BY <1>1, Pointed DEF IInv
<1>4. /\ list \in Seq(Items(Components))
      /\ Items(list) = {name} \cup Items(components[registry_])
  BY <1>2, <1>3, Prepended
<1> HIDE DEF list
<1>5. components' = [components EXCEPT ![registry_] = list]
  BY <1>1 DEF LinkRegistrar, list
<1>6. /\ components' \in Seq(Seq(Items(Components)))
      /\ Len(components') = Len(components) /\ components'[registry_] = list
  BY <1>3, <1>4, <1>5 DEF IInv, TypeOK
<1>7. TypeOK'
  <2>1. where' \in [Threads -> Places]
    BY <1>1 DEF Goes, IInv, TypeOK
  <2>2. registrar' \in [Items(Components) -> {"raw", "constructing", "done"}]
    BY <1>2 DEF LinkRegistrar, IInv, TypeOK
  <2>3. at' \in [Threads -> Nat \ {0}]
    BY DEF LinkRegistrar, IInv, TypeOK
  <2> QED
    BY <1>6, <2>1, <2>2, <2>3 DEF LinkRegistrar, IInv, TypeOK
<1>8. /\ registrar'[name] = "done"
      /\ \A other \in Items(Components) : other # name => registrar'[other] = registrar[other]
  BY <1>2 DEF LinkRegistrar, IInv, TypeOK
<1>9. DoneRegistered'
  <2> SUFFICES ASSUME NEW other \in Items(Components), registrar'[other] = "done"
               PROVE  registry_' # 0 /\ other \in Items(components'[registry_'])
    BY DEF DoneRegistered
  <2>1. registry_' = registry_
    BY DEF LinkRegistrar
  <2>2. other # name => other \in Items(components[registry_])
    BY <1>8 DEF IInv, DoneRegistered
  <2> QED
    BY <1>1, <1>4, <1>6, <2>1, <2>2
<1>10. AtPlace(t)'
  <2>1. at[t] \in Nat /\ at'[t] = at[t] + 1
    BY DEF LinkRegistrar, IInv, TypeOK
  <2>2. \A i \in DOMAIN Components : i < at[t] + 1 => i < at[t] \/ i = at[t]
    BY <2>1, RegistryAssumption
  <2>3. \A i \in DOMAIN Components : i < at[t] => registrar[Components[i]] = "done"
    BY <1>1 DEF IInv, AtPlace
  <2>4. \A i \in DOMAIN Components : i < at'[t] => registrar'[Components[i]] = "done"
    BY <1>8, <2>1, <2>2, <2>3, NameAt
  <2>5. registry_' # 0
    BY <1>1 DEF LinkRegistrar
  <2> QED
    BY <1>1, <2>4, <2>5 DEF AtPlace
<1>11. where[t] # "idle" /\ UNCHANGED finished
  BY <1>1 DEF LinkRegistrar
<1> QED
  BY <1>1, <1>7, <1>9, <1>10, <1>11, MovesAlone
-----------------------------------------------------------------------------
(* The beginning and the end of a construction *)

\* A construction begins: the first, or one behind the first.
LEMMA BeginKeeps ==
  ASSUME IInv, NEW t \in Threads, Begin(t), finished > 0 \/ Constructing = {}
  PROVE  IInv'
<1>1. /\ where[t] = "idle" /\ where'[t] = "test"
      /\ where' = [where EXCEPT ![t] = "test"]
      /\ \A u \in Threads : u # t => where'[u] = where[u]
  BY DEF Begin, Goes, IInv, TypeOK
<1>2. TypeOK'
  <2>1. where' \in [Threads -> Places]
    BY <1>1 DEF IInv, TypeOK, Places
  <2>2. begun' \in 0 .. MaxConstructions
    BY RegistryAssumption DEF Begin, IInv, TypeOK
  <2> QED
    BY <2>1, <2>2 DEF Begin, IInv, TypeOK
<1>3. Alone'
  <2>1. ASSUME finished = 0 PROVE \A u \in Threads : u # t => where'[u] = "idle"
    BY <1>1, <2>1 DEF Constructing
  <2> QED
    BY <2>1 DEF Alone, Constructing, Begin
<1>4. DoneRegistered' /\ (finished > 0 => AllDone /\ registry_ # 0)'
  BY DEF Begin, IInv, DoneRegistered, AllDone
<1>5. ASSUME NEW u \in Threads PROVE AtPlace(u)'
  <2>1. CASE u = t
    BY <1>1, <2>1 DEF AtPlace
  <2>2. CASE u # t
    BY <1>1, <2>2 DEF Begin, IInv, AtPlace, AllDone
  <2> QED BY <2>1, <2>2
<1> QED
  BY <1>2, <1>3, <1>4, <1>5 DEF IInv

\* A construction ends with every registrar done.
LEMMA EndKeeps ==
  ASSUME IInv, NEW t \in Threads, End(t)
  PROVE  IInv'
<1>1. /\ where[t] = "built" /\ where'[t] = "idle" /\ AllDone /\ registry_ # 0
      /\ \A u \in Threads : u # t => where'[u] = where[u]
  BY DEF End, Goes, IInv, TypeOK, AtPlace
<1>2. finished \in Nat /\ finished' = finished + 1 /\ finished' # 0
  BY DEF End, IInv, TypeOK
<1>3. TypeOK'
  BY <1>1, <1>2 DEF End, Goes, IInv, TypeOK, Places
<1>4. Alone'
  BY <1>2 DEF Alone
<1>5. DoneRegistered' /\ (finished > 0 => AllDone /\ registry_ # 0)'
  BY <1>1 DEF End, IInv, DoneRegistered, AllDone
<1>6. ASSUME NEW u \in Threads PROVE AtPlace(u)'
  <2>1. CASE u = t
    BY <1>1, <2>1 DEF AtPlace
  <2>2. CASE u # t
    <3>1. where[u] \notin {"create", "clear", "link"}
      BY <1>1, <2>2 DEF IInv, AtPlace, Alone, Constructing
    <3> QED
      BY <1>1, <2>2, <3>1 DEF End, IInv, AtPlace, AllDone
  <2> QED BY <2>1, <2>2
<1> QED
  BY <1>3, <1>4, <1>5, <1>6 DEF IInv

\* Every step within a constructor keeps the invariant.
LEMMA ConstructKeeps ==
  ASSUME IInv, NEW t \in Threads, Construct(t)
  PROVE  IInv'
BY TestRegistryKeeps, NewRegistryKeeps, ClearComponentsKeeps, BeginRegistrarKeeps,
   LinkRegistrarKeeps, PassRegistrarKeeps, RegisteredKeeps, LookupKeeps, SetUpKeeps
   DEF Construct

\* The invariant is inductive as long as the first construction is alone.
LEMMA Inductive == IInv /\ [AloneNext]_rvars => IInv'
<1> SUFFICES ASSUME IInv, [AloneNext]_rvars PROVE IInv'
  OBVIOUS
<1>1. CASE AloneNext
  BY <1>1, BeginKeeps, ConstructKeeps, EndKeeps DEF AloneNext
<1>2. CASE UNCHANGED rvars
  BY <1>2 DEF rvars, IInv, TypeOK, Alone, Constructing, DoneRegistered, AllDone, AtPlace
<1> QED
  BY <1>1, <1>2

\* No thread stands where a lookup failed.
LEMMA FoundWhenAlone == IInv => FeaturesFound
BY DEF IInv, AtPlace, FeaturesFound

\* Every feature function that a set-up looks up is found, for every number of
\* threads, of feature functions and of features, when nobody constructs beside
\* the first construction.
THEOREM RegistryFindsFeatures == FirstAlone /\ RSpec => []FeaturesFound
<1> SUFFICES ASSUME FirstAlone PROVE RSpec => []FeaturesFound
  OBVIOUS
<1>1. [RNext]_rvars => [AloneNext]_rvars
  BY DEF RNext, AloneNext, Begin
<1> QED
  BY <1>1, Start, Inductive, FoundWhenAlone, PTL DEF RSpec

-----------------------------------------------------------------------------
(* The GIL makes the constructions serial *)

Pcs == {"idle", "text", "new", "construct", "find", "take", "build", "yielded",
        "returned", "raised"}

\* A thread that is in a constructor holds the GIL.
Locked ==
  /\ pc \in [Threads -> Pcs]
  /\ \A t \in Threads : /\ pc[t] = "construct" => gil = t
                        /\ where[t] # "idle" => pc[t] = "construct"

\* What a thread with the GIL, or one that gets it, does to the others' places.
LEMMA Turn ==
  ASSUME Locked, NEW t \in Threads, gil \in {t, NoThread}
  PROVE  \A u \in Threads : u # t => pc[u] # "construct" /\ where[u] = "idle"
BY BindingAssumption DEF Locked

\* A step of one thread moves no other.
LEMMA ConstructMoves ==
  ASSUME IInv, NEW t \in Threads, Construct(t) \/ Begin(t) \/ End(t)
  PROVE  \A u \in Threads : u # t => where'[u] = where[u]
BY DEF IInv, TypeOK, Goes, Construct, TestRegistry, NewRegistry, ClearComponents,
       BeginRegistrar, LinkRegistrar, PassRegistrar, Registered, Lookup, SetUp,
       Begin, End

\* A step of a thread keeps Locked if it keeps it for that thread.
LEMMA TurnKeeps ==
  ASSUME Locked, NEW t \in Threads, gil \in {t, NoThread},
         \A u \in Threads : u # t => where'[u] = where[u],
         NEW place \in Pcs, Proceeds(t, place),
         place = "construct" => gil' = t,
         where'[t] # "idle" => place = "construct"
  PROVE  Locked'
<1>1. \A u \in Threads : u # t => pc[u] # "construct" /\ where[u] = "idle"
  BY Turn
<1>2. /\ pc' \in [Threads -> Pcs] /\ pc'[t] = place
      /\ \A u \in Threads : u # t => pc'[u] = pc[u]
  BY DEF Locked, Proceeds
<1> QED
  BY <1>1, <1>2 DEF Locked

\* A call begins where the GIL is free, and takes it.
LEMMA CallKeepsLocked ==
  ASSUME IInv, Locked, NEW t \in Threads, Call(t)
  PROVE  Locked'
<1>1. gil = NoThread /\ where' = where /\ where[t] = "idle"
  BY BindingAssumption DEF Call, rvars, Locked
<1>2. PICK place \in {"new", "text"} : Proceeds(t, place)
  BY DEF Call
<1> QED
  BY <1>1, <1>2, TurnKeeps DEF Pcs

\* A thread that lost the GIL is not in a constructor.
LEMMA ReacquireKeepsLocked ==
  ASSUME IInv, Locked, NEW t \in Threads, Reacquire(t)
  PROVE  Locked'
<1>1. gil = NoThread /\ where' = where /\ where[t] = "idle"
  BY DEF Reacquire, rvars, Locked
<1>2. PICK place \in {"take", "raised"} : Proceeds(t, place)
  BY DEF Reacquire, Predicts, Raises
<1> QED
  BY <1>1, <1>2, TurnKeeps DEF Pcs

\* A constructor begins and ends on the thread that has the GIL.
LEMMA ConstructorKeepsLocked ==
  ASSUME IInv, Locked, NEW t \in Threads,
         New(t) \/ InConstructor(t) \/ Constructed(t)
  PROVE  Locked'
<1>1. CASE New(t)
  <2>1. CASE Begin(t) /\ Proceeds(t, "construct")
    BY <1>1, <2>1, ConstructMoves, TurnKeeps DEF New, Runs, Pcs
  <2>2. CASE UNCHANGED <<rvars, pc>>
    BY <1>1, <2>2 DEF New, rvars, Locked
  <2> QED
    BY <1>1, <2>1, <2>2 DEF New
<1>2. CASE InConstructor(t)
  <2>1. /\ \A u \in Threads : u # t => where'[u] = where[u]
        /\ gil = t /\ gil' = t /\ pc' = pc /\ pc[t] = "construct"
    BY <1>2, ConstructMoves DEF InConstructor, Runs, bvars
  <2> QED
    BY <2>1 DEF Locked
<1>3. CASE Constructed(t)
  <2>1. gil = t /\ where'[t] = "idle"
    BY <1>3 DEF Constructed, Runs, End, Goes, IInv, TypeOK
  <2>2. PICK place \in {"returned", "find"} : Proceeds(t, place)
    BY <1>3 DEF Constructed
  <2> QED
    BY <1>3, <2>1, <2>2, ConstructMoves, TurnKeeps DEF Constructed, Pcs
<1> QED
  BY <1>1, <1>2, <1>3

\* The other steps of a call are taken outside of a constructor.
LEMMA UseKeepsLocked ==
  ASSUME IInv, Locked, NEW t \in Threads,
         CheckText(t) \/ Find(t) \/ Take(t) \/ Build(t) \/ Interrupt(t) \/ Finish(t) \/ Leave(t)
  PROVE  Locked'
<1>1. where' = where /\ gil = t /\ where[t] = "idle"
  BY DEF CheckText, Find, Take, Build, Interrupt, Finish, Leave, Runs, rvars, Locked
<1>2. CASE UNCHANGED <<pc, gil>>
  BY <1>1, <1>2 DEF Locked
<1>3. CASE \E place \in Pcs \ {"construct"} : Proceeds(t, place)
  BY <1>1, <1>3, TurnKeeps
<1>4. UNCHANGED <<pc, gil>> \/ \E place \in Pcs \ {"construct"} : Proceeds(t, place)
  BY DEF CheckText, Find, Take, Build, Predicts, Interrupt, Raises, Finish, Leave, Pcs
<1> QED
  BY <1>2, <1>3, <1>4

\* Every step keeps constructors to the thread that has the GIL.
LEMMA NextKeepsLocked ==
  IInv /\ Locked /\ [Next]_<<rvars, bvars>> => Locked'
<1> SUFFICES ASSUME IInv, Locked, [Next]_<<rvars, bvars>> PROVE Locked'
  OBVIOUS
<1>1. ASSUME NEW t \in Threads, Call(t) \/ Step(t) \/ Reacquire(t) PROVE Locked'
  BY <1>1, CallKeepsLocked, ReacquireKeepsLocked, ConstructorKeepsLocked,
     UseKeepsLocked DEF Step
<1>2. ASSUME NEW o \in Objects, Collect(o) PROVE Locked'
  BY <1>2 DEF Collect, rvars, Locked
<1>3. CASE UNCHANGED <<rvars, bvars>>
  BY <1>3 DEF rvars, bvars, Locked
<1> QED
  BY <1>1, <1>2, <1>3 DEF Next

\* Every step of the binding is one that the registry takes when nobody
\* constructs beside the first construction, or leaves it alone.
LEMMA StepsAlone ==
  IInv /\ Locked /\ [Next]_<<rvars, bvars>> => [AloneNext]_rvars
<1> SUFFICES ASSUME IInv, Locked, [Next]_<<rvars, bvars>> PROVE [AloneNext]_rvars
  OBVIOUS
<1>1. ASSUME NEW t \in Threads, New(t) PROVE [AloneNext]_rvars
  <2>1. CASE Begin(t)
    <3>1. where[t] = "idle" /\ gil = t
      BY <1>1, <2>1 DEF Begin, New, Runs
    <3>2. Constructing = {}
      BY <3>1, Turn DEF Constructing
    <3> QED
      BY <2>1, <3>2 DEF AloneNext
  <2>2. CASE UNCHANGED rvars
    BY <2>2
  <2> QED
    BY <1>1, <2>1, <2>2 DEF New
<1>2. ASSUME NEW t \in Threads, InConstructor(t) \/ Constructed(t) PROVE [AloneNext]_rvars
  BY <1>2 DEF InConstructor, Constructed, AloneNext
<1>3. ASSUME NEW t \in Threads,
             \/ Call(t) \/ Reacquire(t) \/ CheckText(t) \/ Find(t) \/ Take(t)
             \/ Build(t) \/ Interrupt(t) \/ Finish(t) \/ Leave(t)
      PROVE  UNCHANGED rvars
  BY <1>3 DEF Call, Reacquire, CheckText, Find, Take, Build, Interrupt, Finish, Leave
<1>4. ASSUME NEW o \in Objects, Collect(o) PROVE UNCHANGED rvars
  BY <1>4 DEF Collect
<1> QED
  BY <1>1, <1>2, <1>3, <1>4 DEF Next, Step

\* Hence both invariants hold in every state.
LEMMA LockedKept == Spec => [](IInv /\ Locked)
<1>1. Init => IInv /\ Locked
  <2>1. Init => IInv
    BY Start DEF Init
  <2>2. Init => Locked
    BY DEF Init, RInit, Locked, Pcs
  <2> QED BY <2>1, <2>2
<1>2. IInv /\ Locked /\ [Next]_<<rvars, bvars>> => (IInv /\ Locked)'
  BY StepsAlone, NextKeepsLocked, Inductive
<1> QED
  BY <1>1, <1>2, PTL DEF Spec

\* Under the GIL every feature function that a set-up looks up is found.
THEOREM BindingFindsFeatures == Spec => []FeaturesFound
BY LockedKept, FoundWhenAlone, PTL

\* The constructions under the GIL are those that the registry takes when
\* nobody constructs beside the first construction.
THEOREM BindingIsSerial == Spec => SerialConstructions
<1>1. Init => Serial!RInit
  BY DEF Init, RInit, Serial!RInit, Items, Serial!Items
<1>2. AloneNext => Serial!RNext
  <2>1. ASSUME NEW t \in Threads, Begin(t), finished > 0 \/ Constructing = {}
        PROVE  Serial!Begin(t)
    BY <2>1 DEF Begin, Serial!Begin, Goes, Serial!Goes, Constructing, Serial!Constructing
  <2>2. ASSUME NEW t \in Threads, End(t)
        PROVE  Serial!End(t)
    BY <2>2 DEF End, Serial!End, Goes, Serial!Goes
  <2>3. ASSUME NEW t \in Threads,
               TestRegistry(t) \/ NewRegistry(t) \/ ClearComponents(t) \/ Registered(t)
        PROVE  Serial!Construct(t)
    BY <2>3 DEF Serial!Construct, TestRegistry, Serial!TestRegistry,
         NewRegistry, Serial!NewRegistry, ClearComponents, Serial!ClearComponents,
         Registered, Serial!Registered, Goes, Serial!Goes
  <2>4. ASSUME NEW t \in Threads, BeginRegistrar(t) \/ LinkRegistrar(t) \/ PassRegistrar(t)
        PROVE  Serial!Construct(t)
    BY <2>4 DEF Serial!Construct, Registering, Serial!Registering,
         BeginRegistrar, Serial!BeginRegistrar, LinkRegistrar, Serial!LinkRegistrar,
         PassRegistrar, Serial!PassRegistrar, Goes, Serial!Goes
  <2>5. ASSUME NEW t \in Threads, Lookup(t) \/ SetUp(t)
        PROVE  Serial!Construct(t)
    BY <2>5 DEF Serial!Construct, Lookup, Serial!Lookup, SetUp, Serial!SetUp,
         Goes, Serial!Goes, Items, Serial!Items
  <2> QED
    BY <2>1, <2>2, <2>3, <2>4, <2>5 DEF AloneNext, Construct, Serial!RNext
<1>3. IInv /\ Locked /\ [Next]_<<rvars, bvars>> => [Serial!RNext]_Serial!rvars
  BY StepsAlone, <1>2 DEF rvars, Serial!rvars
<1> QED
  BY <1>1, <1>3, LockedKept, PTL DEF Spec, SerialConstructions, Serial!RSpec

-----------------------------------------------------------------------------
(* Every identifier is accounted for *)

\* An identifier is a thread's own while the thread uses it.
Owned ==
  /\ made \in Nat
  /\ ident \in [Threads -> 0 .. made] /\ model \in [Objects -> 0 .. made]
  /\ heap \subseteq 1 .. made /\ lost \subseteq 1 .. made
  /\ call \in [Threads -> Calls \cup {NoCall}]
  /\ pc \in [Threads -> Pcs]
  /\ Accounted
  /\ \A o, p \in Objects : model[o] # 0 /\ model[o] = model[p] => o = p
  /\ \A t \in Threads : ident[t] # 0 => pc[t] \in {"find", "take", "build", "yielded"}

\* A call that has an object names one of the objects.
LEMMA ObjectOf ==
  ASSUME NEW c \in Calls \cup {NoCall}, HasObject(c)
  PROVE  c.object \in Objects
BY DEF Calls, NoCall, HasObject

\* A thread lets its identifier go: it is deleted or lost.
LEMMA LetsGo ==
  ASSUME Owned, NEW t \in Threads, ident' = [ident EXCEPT ![t] = 0],
         UNCHANGED <<made, model, call>>, pc' \in [Threads -> Pcs],
         \A u \in Threads : u # t => pc'[u] = pc[u],
         \/ heap' = heap \ {ident[t]} /\ UNCHANGED lost
         \/ lost' = lost \cup ({ident[t]} \ {0}) /\ UNCHANGED heap
  PROVE  Owned'
<1>1. /\ ident' \in [Threads -> 0 .. made] /\ ident'[t] = 0
      /\ \A u \in Threads : u # t => ident'[u] = ident[u]
  BY DEF Owned
<1>2. heap' \subseteq 1 .. made /\ lost' \subseteq 1 .. made
  <2>1. ident[t] # 0 => ident[t] \in 1 .. made
    BY DEF Owned
  <2>2. heap \subseteq 1 .. made /\ lost \subseteq 1 .. made
    BY DEF Owned
  <2> QED
    BY <2>1, <2>2
<1>3. Used' = Used \ {ident[t]}
  <2>1. ident[t] # 0 => /\ \A o \in Objects : model[o] # ident[t]
                        /\ \A u \in Threads : ident[u] = ident[t] => u = t
    BY DEF Owned, Accounted, Items
  <2> QED
    BY <1>1, <2>1 DEF Used
<1>4. heap' = Used' \cup lost' /\ Used' \cap lost' = {}
  <2>1. heap = Used \cup lost /\ Used \cap lost = {} /\ 0 \notin Used /\ 0 \notin lost
    BY DEF Owned, Accounted, Used
  <2>2. ident[t] # 0 => ident[t] \in Used
    BY DEF Used
  <2> QED
    BY <1>3, <2>1, <2>2
<1>5. Accounted'
  BY <1>1, <1>4 DEF Owned, Accounted
<1> QED
  BY <1>1, <1>2, <1>5 DEF Owned

\* A step that touches no identifier.
LEMMA LeavesAlone ==
  ASSUME Owned, UNCHANGED <<ident, model, heap, made, lost>>,
         call' \in [Threads -> Calls \cup {NoCall}], pc' \in [Threads -> Pcs],
         \A t \in Threads : ident[t] # 0 => pc'[t] \in {"find", "take", "build", "yielded"}
  PROVE  Owned'
BY DEF Owned, Accounted, Used

\* A constructor that returns hands over an identifier that is new.
LEMMA ConstructedKeepsOwned ==
  ASSUME Owned, NEW t \in Threads, Constructed(t)
  PROVE  Owned'
<1> DEFINE n == made + 1
<1>1. /\ n \in Nat /\ made' = n /\ n # 0 /\ heap' = heap \cup {n}
      /\ n \notin 0 .. made /\ 0 .. made \subseteq 0 .. n /\ 1 .. made \subseteq 1 .. n
      /\ n \in 1 .. n /\ n \in 0 .. n
  BY DEF Owned, Constructed
<1> HIDE DEF n
<1>2. /\ \A u \in Threads : ident[u] # n
      /\ \A o \in Objects : model[o] # n
      /\ n \notin lost /\ n \notin Used
  BY <1>1 DEF Owned, Used
<1>3. /\ ident[t] = 0 /\ heap' \subseteq 1 .. n /\ call' = call
      /\ heap = Used \cup lost /\ Used \cap lost = {} /\ 0 \notin Used
  BY <1>1 DEF Owned, Constructed, Runs, Accounted, Used
<1>4. /\ pc' \in [Threads -> Pcs]
      /\ pc'[t] \in {"returned", "find"}
      /\ \A u \in Threads : u # t => pc'[u] = pc[u]
  BY DEF Constructed, Proceeds, Owned, Pcs
<1>5. CASE /\ HasObject(call[t])
           /\ model' = [model EXCEPT ![call[t].object] = made']
           /\ lost' = lost \cup ({model[call[t].object]} \ {0})
           /\ UNCHANGED ident
  <2> DEFINE o == call[t].object
  <2>1. o \in Objects
    BY <1>5, ObjectOf DEF Owned
  <2> HIDE DEF o
  <2>2. /\ model' = [model EXCEPT ![o] = n] /\ lost' = lost \cup ({model[o]} \ {0})
        /\ ident' = ident
    BY <1>1, <1>5 DEF o
  <2>3. /\ model'[o] = n /\ \A p \in Objects : p # o => model'[p] = model[p]
        /\ model' \in [Objects -> 0 .. n]
    BY <1>1, <2>1, <2>2 DEF Owned
  <2>4. lost' \subseteq 1 .. n /\ ident' \in [Threads -> 0 .. n]
    <3>1. model[o] # 0 => model[o] \in 1 .. made
      BY <2>1 DEF Owned
    <3>2. lost \subseteq 1 .. made /\ ident \in [Threads -> 0 .. made]
      BY DEF Owned
    <3>3. lost' \subseteq 1 .. made
      BY <2>2, <3>1, <3>2
    <3> QED
      BY <1>1, <2>2, <3>2, <3>3
  <2>5. /\ \A u \in Threads : ident[u] # 0 => ident[u] # model[o]
        /\ \A p \in Objects : model[o] # 0 /\ model[p] = model[o] => p = o
    BY <2>1 DEF Owned, Accounted, Items
  <2>6. Used' = (Used \ {model[o]}) \cup {n}
    <3>1. \A x \in Used' : x \in (Used \ {model[o]}) \cup {n}
      BY <2>1, <2>2, <2>3, <2>5 DEF Used
    <3>2. \A x \in (Used \ {model[o]}) \cup {n} : x \in Used'
      BY <1>1, <2>1, <2>2, <2>3 DEF Used
    <3> QED BY <3>1, <3>2
  <2>7. model[o] # 0 => model[o] \in Used
    BY <2>1 DEF Used
  <2>8. heap' = Used' \cup lost' /\ Used' \cap lost' = {}
    BY <1>1, <1>2, <1>3, <2>2, <2>6, <2>7
  <2>9. Accounted'
    <3>1. \A u, v \in Threads : ident[u] # 0 =>
            /\ \A p \in Objects : model[p] # ident[u]
            /\ ident[v] = ident[u] => v = u
      BY DEF Owned, Accounted, Items
    <3>2. \A u \in Threads : ident[u] # 0 => \A p \in Objects : model'[p] # ident[u]
      BY <1>2, <2>3, <3>1
    <3>3. DOMAIN model' = Objects
      BY <2>3
    <3> QED
      BY <2>2, <2>8, <3>1, <3>2, <3>3 DEF Accounted, Items
  <2>10. \A p, q \in Objects : model'[p] # 0 /\ model'[p] = model'[q] => p = q
    BY <1>2, <2>3 DEF Owned
  <2>11. \A u \in Threads : ident'[u] # 0 => pc'[u] \in {"find", "take", "build", "yielded"}
    BY <1>3, <1>4, <2>2 DEF Owned
  <2> QED
    BY <1>1, <1>3, <1>4, <2>3, <2>4, <2>9, <2>10, <2>11 DEF Owned
<1>6. CASE /\ ident' = [ident EXCEPT ![t] = made'] /\ Proceeds(t, "find")
           /\ UNCHANGED <<model, lost>>
  <2>1. /\ ident'[t] = n /\ \A u \in Threads : u # t => ident'[u] = ident[u]
        /\ ident' \in [Threads -> 0 .. n] /\ model' = model /\ lost' = lost
    BY <1>1, <1>6 DEF Owned
  <2>2. Used' = Used \cup {n}
    <3>1. \A x \in Used' : x \in Used \cup {n}
      BY <2>1 DEF Used
    <3>2. \A x \in Used \cup {n} : x \in Used'
      BY <1>1, <1>3, <2>1 DEF Used
    <3> QED BY <3>1, <3>2
  <2>3. heap' = Used' \cup lost' /\ Used' \cap lost' = {}
    BY <1>1, <1>2, <1>3, <2>1, <2>2
  <2>4. Accounted'
    <3>1. \A u, v \in Threads : ident[u] # 0 =>
            ident[u] \notin Items(model) /\ (ident[v] = ident[u] => v = u)
      BY DEF Owned, Accounted
    <3>2. n \notin Items(model)
      BY <1>2 DEF Items, Owned
    <3>3. Items(model') = Items(model)
      BY <2>1
    <3>4. ASSUME NEW u \in Threads, NEW v \in Threads, ident'[u] # 0
          PROVE  ident'[u] \notin Items(model') /\ (ident'[v] = ident'[u] => v = u)
      BY <1>2, <2>1, <3>1, <3>2, <3>3, <3>4
    <3> QED
      BY <2>3, <3>4 DEF Accounted
  <2>5. \A u \in Threads : ident'[u] # 0 => pc'[u] \in {"find", "take", "build", "yielded"}
    <3>1. pc'[t] = "find"
      BY <1>6 DEF Proceeds, Owned
    <3> QED
      BY <1>4, <2>1, <3>1 DEF Owned
  <2>6. model' \in [Objects -> 0 .. n] /\ lost' \subseteq 1 .. n
    BY <1>1, <2>1 DEF Owned
  <2> QED
    BY <1>1, <1>3, <1>4, <2>1, <2>4, <2>5, <2>6 DEF Owned
<1> QED
  BY <1>5, <1>6 DEF Constructed

\* A call begins with no identifier of its own, or with that of its object.
LEMMA CallKeepsOwned ==
  ASSUME Owned, NEW t \in Threads, Call(t)
  PROVE  Owned'
<1>1. PICK c \in Calls :
        call' = [call EXCEPT ![t] = c] /\ \E place \in {"new", "text"} : Proceeds(t, place)
  BY DEF Call
<1>2. ident[t] = 0
  BY DEF Call, Owned
<1>3. call' \in [Threads -> Calls \cup {NoCall}] /\ pc' \in [Threads -> Pcs]
  BY <1>1 DEF Owned, Proceeds, Pcs
<1>4. \A u \in Threads : ident[u] # 0 => pc'[u] \in {"find", "take", "build", "yielded"}
  BY <1>1, <1>2 DEF Owned, Proceeds
<1> QED
  BY <1>3, <1>4, LeavesAlone DEF Call

\* Steps on the way of a call that touch no identifier.
LEMMA OnTheWayKeepsOwned ==
  ASSUME Owned, NEW t \in Threads,
         \/ CheckText(t) \/ New(t) \/ InConstructor(t) \/ Take(t) \/ Build(t)
         \/ Leave(t)
         \/ Find(t) /\ UNCHANGED <<ident, lost>>
         \/ Reacquire(t) /\ Predicts(t) /\ UNCHANGED <<ident, heap, lost>>
  PROVE  Owned'
<1>1. UNCHANGED <<ident, model, heap, made, lost>>
  BY DEF CheckText, New, InConstructor, Take, Build, Reacquire, Leave, Find, bvars
<1>2. call' \in [Threads -> Calls \cup {NoCall}]
  BY DEF CheckText, New, InConstructor, Take, Build, Reacquire, Leave, Find, bvars, Owned
<1> DEFINE Using == {"find", "take", "build", "yielded"}
<1>3. /\ pc' \in [Threads -> Pcs] /\ \A u \in Threads : u # t => pc'[u] = pc[u]
      /\ pc[t] \in Using => pc'[t] \in Using \/ ident[t] = 0
      /\ pc[t] \notin Using => ident[t] = 0
  BY SMTT(30) DEF CheckText, New, InConstructor, Take, Build, Predicts, Reacquire, Leave, Find,
         Loses, Raises, bvars, Proceeds, Runs, Owned, Pcs
<1>4. \A u \in Threads : ident[u] # 0 => pc'[u] \in Using
  BY <1>3 DEF Owned
<1> QED
  BY <1>1, <1>2, <1>3, <1>4, LeavesAlone

\* An exception or the end of a call lets go of its identifier, or deletes it.
LEMMA LettingGoKeepsOwned ==
  ASSUME Owned, NEW t \in Threads,
         \/ Find(t) /\ Loses(t) /\ Proceeds(t, "raised")
         \/ (Interrupt(t) \/ Reacquire(t)) /\ Raises(t)
         \/ Finish(t)
  PROVE  Owned'
<1>1. /\ ident' = [ident EXCEPT ![t] = 0] /\ UNCHANGED <<made, model, call>>
      /\ \/ heap' = heap \ {ident[t]} /\ UNCHANGED lost
         \/ lost' = lost \cup ({ident[t]} \ {0}) /\ UNCHANGED heap
  BY DEF Find, Interrupt, Reacquire, Raises, Finish, Loses, Deletes
<1>2. pc' \in [Threads -> Pcs] /\ \A u \in Threads : u # t => pc'[u] = pc[u]
  BY DEF Interrupt, Reacquire, Raises, Finish, Proceeds, Owned, Pcs
<1> QED
  BY <1>1, <1>2, LetsGo

\* The identifier of an object that is collected is deleted once.
LEMMA CollectKeepsOwned ==
  ASSUME Owned, NEW o \in Objects, Collect(o)
  PROVE  Owned'
<1>1. /\ model' = [model EXCEPT ![o] = 0] /\ lost' = lost \cup {model[o]}
      /\ UNCHANGED <<ident, heap, made, call, pc>> /\ model[o] # 0
  BY DEF Collect
<1>2. /\ model'[o] = 0 /\ \A p \in Objects : p # o => model'[p] = model[p]
      /\ model' \in [Objects -> 0 .. made]
  BY <1>1 DEF Owned
<1>3. lost' \subseteq 1 .. made
  <2>1. model[o] \in 1 .. made
    BY <1>1 DEF Owned
  <2>2. lost \subseteq 1 .. made
    BY DEF Owned
  <2> QED
    BY <1>1, <2>1, <2>2
<1>4. Used' = Used \ {model[o]}
  <2>1. /\ \A u \in Threads : ident[u] # model[o]
        /\ \A p \in Objects : model[p] = model[o] => p = o
    BY <1>1 DEF Owned, Accounted, Items
  <2> QED
    BY <1>1, <1>2, <2>1 DEF Used
<1>5. heap' = Used' \cup lost' /\ Used' \cap lost' = {}
  <2>1. heap = Used \cup lost /\ Used \cap lost = {} /\ model[o] \in Used
    BY <1>1 DEF Owned, Accounted, Used
  <2> QED
    BY <1>1, <1>4, <2>1
<1>6. Accounted'
  <2>1. \A u, v \in Threads : ident[u] # 0 =>
          /\ \A p \in Objects : model[p] # ident[u]
          /\ ident[v] = ident[u] => v = u
    BY DEF Owned, Accounted, Items
  <2>2. \A u \in Threads : ident[u] # 0 => \A p \in Objects : model'[p] # ident[u]
    BY <1>2, <2>1
  <2> QED
    BY <1>1, <1>2, <1>5, <2>1, <2>2 DEF Accounted, Items
<1> QED
  BY <1>1, <1>2, <1>3, <1>6 DEF Owned

\* Every step keeps identifiers apart.
LEMMA NextKeepsOwned == Owned /\ [Next]_<<rvars, bvars>> => Owned'
<1> SUFFICES ASSUME Owned, [Next]_<<rvars, bvars>> PROVE Owned'
  OBVIOUS
<1>1. ASSUME NEW t \in Threads, Find(t) PROVE Owned'
  BY <1>1, OnTheWayKeepsOwned, LettingGoKeepsOwned DEF Find
<1>2. ASSUME NEW t \in Threads, Interrupt(t) \/ Reacquire(t) PROVE Owned'
  BY <1>2, OnTheWayKeepsOwned, LettingGoKeepsOwned DEF Interrupt, Reacquire
<1>3. ASSUME NEW t \in Threads, Call(t) \/ Step(t) \/ Reacquire(t) PROVE Owned'
  BY <1>1, <1>2, <1>3, CallKeepsOwned, OnTheWayKeepsOwned, ConstructedKeepsOwned,
     LettingGoKeepsOwned DEF Step
<1>4. ASSUME NEW o \in Objects, Collect(o) PROVE Owned'
  BY <1>4, CollectKeepsOwned
<1>5. CASE UNCHANGED <<rvars, bvars>>
  BY <1>5, LeavesAlone DEF bvars, Owned
<1> QED
  BY <1>3, <1>4, <1>5 DEF Next

\* No identifier is used once it is deleted, deleted twice, shared, or
\* forgotten in a way that the code does not say.
THEOREM BindingAccounts == Spec => []Accounted
<1>1. Init => Owned
  <2>1. Init => Accounted
    BY DEF Init, Accounted, Used
  <2> QED
    BY <2>1 DEF Init, Owned, Pcs, NoCall
<1>2. Owned => Accounted
  BY DEF Owned
<1> QED
  BY <1>1, <1>2, NextKeepsOwned, PTL DEF Spec

-----------------------------------------------------------------------------
(* The loop over the results *)

Results == Languages \cup {kUnknown}

\* f is found, its first k are wanted: o is taken of them, and r is left.
Left(f, r, o, k) ==
  /\ f \in Seq(Languages) /\ r \in Seq(Results) /\ o \in Seq(Languages)
  /\ k \in 0 .. Len(f) /\ Len(o) <= k /\ k <= Len(o) + Len(r)
  /\ \A i \in 1 .. Len(o) : o[i] = f[i]
  /\ \A i \in 1 .. Len(r) : r[i] = IF Len(o) + i <= k THEN f[Len(o) + i] ELSE kUnknown

\* Nothing to be found is called unknown, and every num_langs is an int.
CallersBehave ==
  /\ kUnknown \notin Languages
  /\ \A n \in NumLangs : ToInt(n) = n

Wants(c) == IF FindsOne(c) THEN 1 ELSE c.n

\* The padding is a sequence, empty where its length is not positive.
LEMMA PaddingIs ==
  ASSUME NEW n \in Int
  PROVE  /\ Padding(n) \in Seq(Results)
         /\ Len(Padding(n)) = (IF n > 0 THEN n ELSE 0)
         /\ \A i \in 1 .. Len(Padding(n)) : Padding(n)[i] = kUnknown
<1>1. CASE n > 0
  <2>1. Padding(n) \in [1 .. n -> Results]
    BY DEF Padding, Results
  <2>2. Padding(n) \in Seq(Results) /\ Len(Padding(n)) = n
    BY <1>1, <2>1
  <2> QED
    BY <1>1, <2>2 DEF Padding
<1>2. CASE ~(n > 0)
  <2>1. 1 .. n = {}
    BY <1>2
  <2>2. Padding(n) = <<>>
    BY <2>1 DEF Padding
  <2> QED
    BY <1>2, <2>2, EmptySeq
<1> QED
  BY <1>1, <1>2

\* What C++ returns is what there is to be taken.
LEMMA AnswerIsLeft ==
  ASSUME NEW f \in Seq(Languages), NEW w \in Nat
  PROVE  Left(f, SubSeq(f, 1, minint(w, Len(f))) \o Padding(w - Len(f)), <<>>,
              minint(w, Len(f)))
<1> DEFINE k == minint(w, Len(f))
           s == SubSeq(f, 1, k)
           p == Padding(w - Len(f))
<1>1. Len(f) \in Nat /\ k \in Nat /\ k <= Len(f) /\ k <= w
      /\ \A i \in 1 .. k : f[i] \in Languages
  BY ElementOfSeq DEF minint
<1>2. s \in Seq(Languages) /\ Len(s) = k /\ \A i \in 1 .. k : s[i] = f[i]
  <2>1. /\ s \in Seq(Languages) /\ Len(s) = (IF 1 <= k THEN k - 1 + 1 ELSE 0)
        /\ \A i \in 1 .. k - 1 + 1 : s[i] = f[1 + i - 1]
    BY <1>1, SubSeqProperties
  <2> HIDE DEF s, k
  <2> QED
    BY <1>1, <2>1
<1>3. /\ p \in Seq(Results) /\ \A i \in 1 .. Len(p) : p[i] = kUnknown
      /\ Len(p) = (IF w - Len(f) > 0 THEN w - Len(f) ELSE 0)
  <2>1. \A n \in Int : /\ Padding(n) \in Seq(Results)
                       /\ Len(Padding(n)) = (IF n > 0 THEN n ELSE 0)
                       /\ \A i \in 1 .. Len(Padding(n)) : Padding(n)[i] = kUnknown
    BY PaddingIs
  <2>2. w - Len(f) \in Int
    BY <1>1
  <2> QED
    BY <2>1, <2>2
<1> HIDE DEF k, s, p
<1>4. s \in Seq(Results) /\ Len(p) \in Nat
  BY <1>2, <1>3 DEF Results
<1>5. /\ s \o p \in Seq(Results) /\ Len(s \o p) = k + Len(p)
      /\ \A i \in 1 .. k + Len(p) : (s \o p)[i] = IF i <= k THEN s[i] ELSE p[i - k]
  BY <1>2, <1>3, <1>4, ConcatProperties
<1>6. ASSUME NEW i \in 1 .. k + Len(p)
      PROVE  (s \o p)[i] = IF i <= k THEN f[i] ELSE kUnknown
  <2>1. CASE i <= k
    BY <1>1, <1>2, <1>4, <1>5, <2>1
  <2>2. CASE ~(i <= k)
    <3>1. i - k \in 1 .. Len(p)
      BY <1>1, <1>4, <2>2
    <3> QED
      BY <1>3, <1>5, <2>2, <3>1
  <2> QED
    BY <2>1, <2>2
<1>7. Left(f, s \o p, <<>>, k)
  BY <1>1, <1>4, <1>5, <1>6, EmptySeq DEF Left
<1> QED
  BY <1>7 DEF k, s, p

\* A result that is the unknown language is passed over.
LEMMA PassesUnknown ==
  ASSUME CallersBehave, NEW f, NEW r, NEW o, NEW k, Left(f, r, o, k),
         r # <<>>, Head(r) = kUnknown
  PROVE  Left(f, Tail(r), o, k)
<1>1. /\ Len(f) \in Nat /\ Len(o) \in Nat /\ Len(r) \in Nat /\ Len(r) > 0
      /\ Head(r) = r[1]
      /\ Tail(r) \in Seq(Results) /\ Len(Tail(r)) = Len(r) - 1
      /\ \A i \in 1 .. Len(Tail(r)) : Tail(r)[i] = r[i + 1]
  BY HeadTailProperties, EmptySeq, LenProperties DEF Left
<1>2. Len(o) = k
  <2>1. k \in Nat /\ \A i \in 1 .. Len(f) : f[i] \in Languages
    BY ElementOfSeq DEF Left
  <2>2. Len(o) + 1 <= k => r[1] \in Languages
    BY <1>1, <2>1 DEF Left
  <2> QED
    BY <1>1, <2>1, <2>2 DEF Left, CallersBehave
<1>3. \A i \in 1 .. Len(Tail(r)) : Tail(r)[i] = kUnknown
  BY <1>1, <1>2 DEF Left
<1> QED
  BY <1>1, <1>2, <1>3 DEF Left

\* A result that is a language is taken.
LEMMA TakesLanguage ==
  ASSUME CallersBehave, NEW f, NEW r, NEW o, NEW k, Left(f, r, o, k),
         r # <<>>, Head(r) # kUnknown
  PROVE  Left(f, Tail(r), Append(o, Head(r)), k)
<1>1. /\ Len(f) \in Nat /\ Len(o) \in Nat /\ Len(r) \in Nat /\ Len(r) > 0 /\ k \in Nat
      /\ Head(r) = r[1]
      /\ Tail(r) \in Seq(Results) /\ Len(Tail(r)) = Len(r) - 1
      /\ \A i \in 1 .. Len(Tail(r)) : Tail(r)[i] = r[i + 1]
  BY HeadTailProperties, EmptySeq, LenProperties DEF Left
<1>2. Len(o) + 1 <= k /\ Head(r) = f[Len(o) + 1]
  BY <1>1 DEF Left
<1>3. Head(r) \in Languages
  BY <1>1, <1>2, ElementOfSeq DEF Left
<1> DEFINE a == Append(o, Head(r))
<1>4. /\ a \in Seq(Languages) /\ Len(a) = Len(o) + 1
      /\ \A i \in 1 .. Len(o) : a[i] = o[i]
      /\ a[Len(o) + 1] = Head(r)
  BY <1>3, AppendProperties DEF Left
<1> HIDE DEF a
<1>5. \A i \in 1 .. Len(a) : a[i] = f[i]
  <2>1. \A i \in 1 .. Len(o) : o[i] = f[i]
    BY DEF Left
  <2>2. \A i \in 1 .. Len(a) : i \in 1 .. Len(o) \/ i = Len(o) + 1
    BY <1>1, <1>4
  <2> QED
    BY <1>2, <1>4, <2>1, <2>2
<1>6. \A i \in 1 .. Len(Tail(r)) :
        Tail(r)[i] = IF Len(a) + i <= k THEN f[Len(a) + i] ELSE kUnknown
  <2> SUFFICES ASSUME NEW i \in 1 .. Len(Tail(r))
      PROVE  Tail(r)[i] = IF Len(a) + i <= k THEN f[Len(a) + i] ELSE kUnknown
    OBVIOUS
  <2>1. i + 1 \in 1 .. Len(r) /\ Len(o) + (i + 1) = Len(a) + i
    BY <1>1, <1>4
  <2>2. r[i + 1] = IF Len(o) + (i + 1) <= k THEN f[Len(o) + (i + 1)] ELSE kUnknown
    BY <2>1 DEF Left
  <2> QED
    BY <1>1, <2>1, <2>2
<1>7. Left(f, Tail(r), a, k)
  <2>1. /\ f \in Seq(Languages) /\ k \in 0 .. Len(f) /\ k <= Len(o) + Len(r)
    BY DEF Left
  <2> QED
    BY <1>1, <1>2, <1>4, <1>5, <1>6, <2>1 DEF Left
<1> QED
  BY <1>7 DEF a

\* Where nothing is left, all that was wanted is taken.
LEMMA AllTaken ==
  ASSUME NEW f, NEW o, NEW k, Left(f, <<>>, o, k)
  PROVE  o = SubSeq(f, 1, k)
<1>1. Len(o) = k /\ k \in Nat /\ Len(f) \in Nat /\ k <= Len(f)
  BY EmptySeq DEF Left
<1>2. \A i \in 1 .. k : f[i] \in Languages
  BY <1>1, ElementOfSeq DEF Left
<1> DEFINE s == SubSeq(f, 1, k)
<1>3. /\ s \in Seq(Languages) /\ Len(s) = (IF 1 <= k THEN k - 1 + 1 ELSE 0)
      /\ \A i \in 1 .. k - 1 + 1 : s[i] = f[1 + i - 1]
  BY <1>1, <1>2, SubSeqProperties
<1> HIDE DEF s
<1>4. Len(s) = Len(o) /\ \A i \in 1 .. Len(o) : o[i] = s[i]
  BY <1>1, <1>3 DEF Left
<1>5. o = s
  BY <1>3, <1>4, SeqEqual DEF Left
<1> QED
  BY <1>5 DEF s

-----------------------------------------------------------------------------
(* The invariant *)

Best(t) == minint(Wants(call[t]), Len(found[t]))

\* What a thread has at its place in a call.
HasTaken(t) ==
  /\ pc[t] \in {"idle", "text", "new", "construct", "find"} =>
       found[t] = <<>> /\ out[t] = <<>>
  /\ pc[t] \in {"text", "find", "take", "build", "yielded"} =>
       call[t] \in Calls /\ call[t].fn # "__init__"
  /\ pc[t] \in {"take", "build", "yielded"} =>
       Left(found[t], results[t], out[t], Best(t))
  /\ pc[t] \in {"new", "construct"} =>
       call[t] \in Calls /\ (call[t].fn = "__init__" \/ IsFunction(call[t]))
  /\ pc[t] \in {"build", "yielded"} =>
       results[t] # <<>> /\ Head(results[t]) # kUnknown
  /\ pc[t] = "returned" /\ call[t].fn # "__init__" =>
       out[t] = SubSeq(found[t], 1, Best(t))

ResultTypes ==
  /\ pc \in [Threads -> Pcs] /\ call \in [Threads -> Calls \cup {NoCall}]
  /\ found \in [Threads -> Seq(Languages)] /\ results \in [Threads -> Seq(Results)]
  /\ out \in [Threads -> Seq(Languages)]

Taken == ResultTypes /\ \A t \in Threads : HasTaken(t)

\* A step of a thread keeps what the other threads have.
LEMMA OthersKeep ==
  ASSUME Taken, NEW t \in Threads, ResultTypes', HasTaken(t)',
         \A u \in Threads : u # t =>
           /\ pc'[u] = pc[u] /\ call'[u] = call[u] /\ found'[u] = found[u]
           /\ results'[u] = results[u] /\ out'[u] = out[u]
  PROVE  Taken'
<1>1. ASSUME NEW u \in Threads, u # t PROVE HasTaken(u)'
  <2>1. HasTaken(u)
    BY DEF Taken
  <2>2. /\ pc'[u] = pc[u] /\ call'[u] = call[u] /\ found'[u] = found[u]
        /\ results'[u] = results[u] /\ out'[u] = out[u]
    BY <1>1
  <2> QED
    BY <2>1, <2>2 DEF HasTaken, Best
<1> QED
  BY <1>1 DEF Taken

\* A step that touches nothing of what is taken.
LEMMA NothingTaken ==
  ASSUME Taken, UNCHANGED <<pc, call, found, results, out>>
  PROVE  Taken'
BY DEF Taken, ResultTypes, HasTaken, Best

\* A step that only proceeds, to a place that asks nothing more.
LEMMA OnlyProceeds ==
  ASSUME Taken, NEW t \in Threads, NEW place \in Pcs, Proceeds(t, place),
         UNCHANGED <<call, found, results, out>>,
         \/ place = "raised"
         \/ /\ pc[t] \in {"text", "new", "construct"}
            /\ place \in {"construct", "new"}
            /\ call[t] \in Calls /\ (call[t].fn = "__init__" \/ IsFunction(call[t]))
         \/ /\ pc[t] \in {"text", "construct"} /\ place = "find"
            /\ call[t] \in Calls /\ call[t].fn # "__init__"
         \/ /\ place = "returned" /\ call[t].fn = "__init__"
         \/ /\ pc[t] = "build" /\ place = "yielded"
         \/ /\ pc[t] = "take" /\ place = "build"
            /\ results[t] # <<>> /\ Head(results[t]) # kUnknown
         \/ /\ pc[t] = "take" /\ place = "returned" /\ results[t] = <<>>
  PROVE  Taken'
<1>1. /\ pc' \in [Threads -> Pcs] /\ pc'[t] = place
      /\ \A u \in Threads : u # t => pc'[u] = pc[u]
  BY DEF Proceeds, Taken, ResultTypes
<1>2. ResultTypes'
  BY <1>1 DEF Taken, ResultTypes
<1>3. HasTaken(t)
  BY DEF Taken
<1>4. place = "returned" /\ results[t] = <<>> /\ pc[t] = "take"
        => out[t] = SubSeq(found[t], 1, Best(t))
  BY <1>3, AllTaken DEF HasTaken
<1>5. HasTaken(t)'
  BY <1>1, <1>3, <1>4 DEF HasTaken, Best
<1> QED
  BY <1>1, <1>2, <1>5, OthersKeep

\* A caller that behaves wants a number of languages that is not negative.
LEMMA WantsNat ==
  ASSUME NEW c \in Calls, c.fn # "__init__"
  PROVE  Wants(c) \in Nat
<1>1. NumLangs \subseteq Nat
  BY BindingAssumption
<1> QED
  BY <1>1 DEF Calls, Wants, FindsOne

\* What C++ returns for it: the best languages, padded with the unknown one.
LEMMA AnswerIs ==
  ASSUME CallersBehave, NEW c \in Calls, c.fn # "__init__",
         NEW f, Len(f) \in 0 .. MaxFound
  PROVE  Answer(c, f) = SubSeq(f, 1, minint(Wants(c), Len(f))) \o Padding(Wants(c) - Len(f))
<1>1. ~FindsOne(c) => c.n \in NumLangs
  BY DEF Calls, FindsOne
<1>2. ~FindsOne(c) => ToInt(c.n) = c.n
  BY <1>1 DEF CallersBehave
<1>3. Wants(c) \in Nat /\ Len(f) \in Nat /\ Len(f) < IntLimit /\ IntLimit \in Nat
  BY WantsNat, BindingAssumption
<1>4. PaddingSize(Wants(c), Len(f)) = Wants(c) - Len(f)
  <2>1. \A w, l \in Nat : l < IntLimit => ~ (w - l < -IntLimit)
    BY <1>3
  <2> QED
    BY <1>3, <2>1 DEF PaddingSize
<1> QED
  BY <1>2, <1>4 DEF Answer, Wants

-----------------------------------------------------------------------------
(* Every step keeps it *)

\* A call begins with nothing taken.
LEMMA CallKeepsTaken ==
  ASSUME Taken, NEW t \in Threads, Call(t)
  PROVE  Taken'
<1>1. PICK c \in Calls : /\ call' = [call EXCEPT ![t] = c]
                         /\ Proceeds(t, IF c.fn = "__init__" THEN "new" ELSE "text")
  BY DEF Call
<1>2. pc[t] = "idle" /\ UNCHANGED <<found, results, out>>
  BY DEF Call
<1>3. /\ pc' \in [Threads -> Pcs] /\ call' \in [Threads -> Calls \cup {NoCall}]
      /\ call'[t] = c
      /\ pc'[t] = IF c.fn = "__init__" THEN "new" ELSE "text"
      /\ \A u \in Threads : u # t => pc'[u] = pc[u] /\ call'[u] = call[u]
  BY <1>1 DEF Proceeds, Taken, ResultTypes, Pcs
<1>4. ResultTypes'
  BY <1>2, <1>3 DEF Taken, ResultTypes
<1>5. HasTaken(t)'
  BY <1>2, <1>3 DEF Taken, HasTaken
<1> QED
  BY <1>2, <1>3, <1>4, <1>5, OthersKeep

\* A text that is empty: nothing is found, and nothing returned.
LEMMA CheckTextKeepsTaken ==
  ASSUME Taken, NEW t \in Threads, CheckText(t)
  PROVE  Taken'
<1>1. /\ pc[t] = "text" /\ HasTaken(t) /\ UNCHANGED <<call, found, results, out>>
      /\ call[t] \in Calls /\ call[t].fn # "__init__"
  BY DEF CheckText, Runs, Taken, HasTaken
<1>2. CASE \/ Proceeds(t, "new") /\ IsFunction(call[t])
           \/ Proceeds(t, "find")
  BY <1>1, <1>2, OnlyProceeds DEF Pcs
<1>3. CASE Proceeds(t, "returned")
  <2>1. /\ pc' \in [Threads -> Pcs] /\ pc'[t] = "returned"
        /\ \A u \in Threads : u # t => pc'[u] = pc[u]
    BY <1>3 DEF Proceeds, Taken, ResultTypes, Pcs
  <2>2. found[t] = <<>> /\ out[t] = <<>>
    BY <1>1 DEF HasTaken
  <2>3. Best(t) = 0
    <3>1. Wants(call[t]) \in Nat
      BY <1>1, WantsNat
    <3> QED
      BY <2>2, <3>1 DEF Best, minint
  <2>4. SubSeq(<<>>, 1, 0) = <<>>
    BY SubSeqEmpty
  <2>5. ResultTypes'
    BY <1>1, <2>1 DEF Taken, ResultTypes
  <2>6. HasTaken(t)'
    BY <1>1, <2>1, <2>2, <2>3, <2>4 DEF HasTaken, Best
  <2> QED
    BY <1>1, <2>1, <2>5, <2>6, OthersKeep
<1> QED
  BY <1>2, <1>3 DEF CheckText

\* In a constructor there are no results yet.
LEMMA ConstructorKeepsTaken ==
  ASSUME Taken, NEW t \in Threads, New(t) \/ InConstructor(t) \/ Constructed(t)
  PROVE  Taken'
<1>1. CASE UNCHANGED <<pc, call, found, results, out>>
  BY <1>1, NothingTaken
<1>2. CASE New(t) /\ Proceeds(t, "construct")
  BY <1>2, OnlyProceeds DEF New, Runs, Pcs, Taken, HasTaken
<1>3. CASE Constructed(t)
  <2>1. /\ pc[t] = "construct" /\ UNCHANGED <<call, found, results, out>>
        /\ call[t] \in Calls \cup {NoCall}
    BY <1>3 DEF Constructed, Runs, Taken, ResultTypes
  <2>2. CASE HasObject(call[t]) /\ Proceeds(t, "returned")
    <3>1. call[t].fn = "__init__"
      BY <2>1, <2>2 DEF Taken, HasTaken, IsFunction, HasObject
    <3> QED
      BY <2>1, <2>2, <3>1, OnlyProceeds DEF Pcs
  <2>3. CASE IsFunction(call[t]) /\ Proceeds(t, "find")
    <3>1. call[t] \in Calls /\ call[t].fn # "__init__"
      BY <2>1, <2>3 DEF IsFunction, NoCall
    <3> QED
      BY <2>1, <2>3, <3>1, OnlyProceeds DEF Pcs
  <2> QED
    BY <1>3, <2>2, <2>3 DEF Constructed
<1> QED
  BY <1>1, <1>2, <1>3 DEF New, InConstructor, bvars

\* What C++ returns is all left to be taken.
LEMMA FindKeepsTaken ==
  ASSUME CallersBehave, Taken, NEW t \in Threads, Find(t)
  PROVE  Taken'
<1>1. /\ pc[t] = "find" /\ HasTaken(t) /\ UNCHANGED <<call, out>>
      /\ call[t] \in Calls /\ call[t].fn # "__init__" /\ out[t] = <<>>
  BY DEF Find, Runs, Taken, HasTaken
<1>2. CASE Proceeds(t, "raised") /\ UNCHANGED <<found, results>>
  BY <1>1, <1>2, OnlyProceeds DEF Pcs
<1>3. CASE /\ \E ranking \in Rankings :
                /\ found' = [found EXCEPT ![t] = ranking]
                /\ results' = [results EXCEPT ![t] = Answer(call[t], ranking)]
           /\ Proceeds(t, "take")
  <2>1. PICK ranking \in Rankings :
          /\ found' = [found EXCEPT ![t] = ranking]
          /\ results' = [results EXCEPT ![t] = Answer(call[t], ranking)]
    BY <1>3
  <2>2. ranking \in Seq(Languages) /\ Len(ranking) \in 0 .. MaxFound
    BY BindingAssumption DEF Rankings, SeqOf
  <2> DEFINE w == Wants(call[t])
             r == Answer(call[t], ranking)
  <2>3. w \in Nat
    BY <1>1, WantsNat
  <2>4. r = SubSeq(ranking, 1, minint(w, Len(ranking))) \o Padding(w - Len(ranking))
    BY <1>1, <2>2, AnswerIs
  <2> HIDE DEF w, r
  <2>5. Left(ranking, r, <<>>, minint(w, Len(ranking)))
    BY <2>2, <2>3, <2>4, AnswerIsLeft
  <2>6. r \in Seq(Results)
    BY <2>5 DEF Left
  <2>7. results' = [results EXCEPT ![t] = r]
    BY <2>1 DEF r
  <2>8. /\ pc' \in [Threads -> Pcs] /\ pc'[t] = "take"
        /\ found'[t] = ranking /\ results'[t] = r /\ out'[t] = <<>>
        /\ \A u \in Threads : u # t =>
             pc'[u] = pc[u] /\ found'[u] = found[u] /\ results'[u] = results[u]
    BY <1>1, <1>3, <2>1, <2>7 DEF Proceeds, Taken, ResultTypes, Pcs
  <2>9. ResultTypes'
    BY <1>1, <2>1, <2>2, <2>6, <2>7, <2>8 DEF Taken, ResultTypes
  <2>10. HasTaken(t)'
    <3>1. Best(t)' = minint(w, Len(ranking))
      BY <1>1, <2>8 DEF Best, w
    <3> QED
      BY <1>1, <2>5, <2>8, <3>1 DEF HasTaken
  <2> QED
    BY <1>1, <2>8, <2>9, <2>10, OthersKeep
<1> QED
  BY <1>2, <1>3 DEF Find

\* A turn of the loop passes the unknown language or takes the next one.
LEMMA TakeKeepsTaken ==
  ASSUME CallersBehave, Taken, NEW t \in Threads, Take(t)
  PROVE  Taken'
<1>1. /\ pc[t] = "take" /\ HasTaken(t) /\ results[t] # <<>>
      /\ UNCHANGED <<call, found, out>>
  BY DEF Take, Runs, Taken
<1>2. CASE Head(results[t]) # kUnknown /\ Proceeds(t, "build") /\ UNCHANGED results
  BY <1>1, <1>2, OnlyProceeds DEF Pcs
<1>3. CASE /\ Head(results[t]) = kUnknown /\ UNCHANGED pc
           /\ results' = [results EXCEPT ![t] = Tail(@)]
  <2>1. Left(found[t], Tail(results[t]), out[t], Best(t))
    BY <1>1, <1>3, PassesUnknown DEF HasTaken
  <2>2. Tail(results[t]) \in Seq(Results)
    BY <2>1 DEF Left
  <2>3. /\ results' \in [Threads -> Seq(Results)] /\ results'[t] = Tail(results[t])
        /\ \A u \in Threads : u # t => results'[u] = results[u]
    BY <1>3, <2>2 DEF Taken, ResultTypes
  <2>4. ResultTypes'
    BY <1>1, <1>3, <2>3 DEF Taken, ResultTypes
  <2>5. HasTaken(t)'
    BY <1>1, <1>3, <2>1, <2>3 DEF HasTaken, Best
  <2> QED
    BY <1>1, <1>3, <2>3, <2>4, <2>5, OthersKeep
<1> QED
  BY <1>2, <1>3 DEF Take

\* A prediction is built, whether the GIL was lost on the way or not.
LEMMA PredictsKeepsTaken ==
  ASSUME CallersBehave, Taken, NEW t \in Threads, pc[t] \in {"build", "yielded"},
         Predicts(t), UNCHANGED <<call, found>>
  PROVE  Taken'
<1>1. HasTaken(t)
  BY DEF Taken
<1> DEFINE o == Append(out[t], Head(results[t]))
           r == Tail(results[t])
<1>2. Left(found[t], r, o, Best(t))
  BY <1>1, TakesLanguage DEF HasTaken
<1>3. /\ out' = [out EXCEPT ![t] = o] /\ results' = [results EXCEPT ![t] = r]
      /\ Proceeds(t, "take")
  BY DEF Predicts
<1> HIDE DEF o, r
<1>4. /\ pc' \in [Threads -> Pcs] /\ pc'[t] = "take"
      /\ out' \in [Threads -> Seq(Languages)] /\ out'[t] = o
      /\ results' \in [Threads -> Seq(Results)] /\ results'[t] = r
      /\ \A u \in Threads : u # t =>
           pc'[u] = pc[u] /\ out'[u] = out[u] /\ results'[u] = results[u]
  BY <1>2, <1>3 DEF Left, Proceeds, Taken, ResultTypes, Pcs
<1>5. ResultTypes'
  BY <1>4 DEF Taken, ResultTypes
<1>6. HasTaken(t)'
  BY <1>1, <1>2, <1>4 DEF HasTaken, Best
<1> QED
  BY <1>4, <1>5, <1>6, OthersKeep

\* Building a prediction, and losing the GIL meanwhile, changes no results.
LEMMA LoopKeepsTaken ==
  ASSUME CallersBehave, Taken, NEW t \in Threads,
         Build(t) \/ Reacquire(t) \/ Interrupt(t) \/ Finish(t)
  PROVE  Taken'
<1>1. CASE Predicts(t) /\ (Build(t) \/ Reacquire(t))
  BY <1>1, PredictsKeepsTaken DEF Build, Reacquire, Runs
<1>2. CASE Build(t) /\ Proceeds(t, "yielded") /\ UNCHANGED <<out, results>>
  BY <1>2, OnlyProceeds DEF Build, Runs, Pcs
<1>3. CASE Raises(t) /\ (Interrupt(t) \/ Reacquire(t))
  BY <1>3, OnlyProceeds DEF Interrupt, Reacquire, Raises, Pcs
<1>4. CASE Finish(t)
  BY <1>4, OnlyProceeds DEF Finish, Runs, Pcs
<1> QED
  BY <1>1, <1>2, <1>3, <1>4 DEF Build, Reacquire, Interrupt

\* A call that has returned takes nothing any more.
LEMMA LeaveKeepsTaken ==
  ASSUME Taken, NEW t \in Threads, Leave(t)
  PROVE  Taken'
<1>1. /\ Proceeds(t, "idle") /\ call' = [call EXCEPT ![t] = NoCall]
      /\ found' = [found EXCEPT ![t] = <<>>] /\ results' = [results EXCEPT ![t] = <<>>]
      /\ out' = [out EXCEPT ![t] = <<>>]
  BY DEF Leave
<1>2. <<>> \in Seq(Languages) /\ <<>> \in Seq(Results)
  BY EmptySeq
<1>3. ResultTypes'
  BY <1>1, <1>2 DEF Proceeds, Taken, ResultTypes, Pcs
<1>4. /\ pc'[t] = "idle" /\ found'[t] = <<>> /\ out'[t] = <<>>
      /\ \A u \in Threads : u # t =>
           /\ pc'[u] = pc[u] /\ call'[u] = call[u] /\ found'[u] = found[u]
           /\ results'[u] = results[u] /\ out'[u] = out[u]
  BY <1>1 DEF Proceeds, Taken, ResultTypes
<1>5. HasTaken(t)'
  BY <1>4 DEF HasTaken
<1> QED
  BY <1>3, <1>4, <1>5, OthersKeep

\* Every step keeps what is taken and what is left those of the text of the call.
LEMMA NextKeepsTaken ==
  CallersBehave /\ Taken /\ [Next]_<<rvars, bvars>> => Taken'
<1> SUFFICES ASSUME CallersBehave, Taken, [Next]_<<rvars, bvars>> PROVE Taken'
  OBVIOUS
<1>1. ASSUME NEW t \in Threads, Call(t) \/ Step(t) \/ Reacquire(t) PROVE Taken'
  BY <1>1, CallKeepsTaken, CheckTextKeepsTaken, ConstructorKeepsTaken, FindKeepsTaken,
     TakeKeepsTaken, LoopKeepsTaken, LeaveKeepsTaken DEF Step
<1>2. ASSUME NEW o \in Objects, Collect(o) PROVE Taken'
  BY <1>2, NothingTaken DEF Collect
<1>3. CASE UNCHANGED <<rvars, bvars>>
  BY <1>3, NothingTaken DEF bvars
<1> QED
  BY <1>1, <1>2, <1>3 DEF Next

\* A call that returns has the best languages of its own text, whichever
\* threads ran while it had lost the GIL.
THEOREM BindingReturnsFound == CallersBehave /\ Spec => []ReturnsFound
<1>1. Init => Taken
  BY EmptySeq DEF Init, Taken, ResultTypes, HasTaken, Pcs, Results
<1>2. Taken => ReturnsFound
  BY DEF Taken, HasTaken, Best, Wants, ReturnsFound
<1>3. CallersBehave => (Taken /\ [Next]_<<rvars, bvars>> => Taken')
  BY NextKeepsTaken
<1>4. CASE CallersBehave
  <2>1. Taken /\ [Next]_<<rvars, bvars>> => Taken'
    BY <1>3, <1>4
  <2> QED
    BY <1>1, <1>2, <2>1, PTL DEF Spec
<1> QED
  BY <1>4
=============================================================================
