----------------------------- MODULE MCFeatures -----------------------------
(***************************************************************************)
(* Features on three kinds of setups: one as in the program, one with two  *)
(* functions in a space, and all small forests of functions, each written  *)
(* in three ways.                                                          *)
(***************************************************************************)
EXTENDS Features

CONSTANTS MaxText, MaxForest   \* characters of a text, functions of a forest

\* A space, the Latin a, a Cyrillic, a Hangul and a Han letter.
Letters == {32, 97, 1046, 44032, 20013}

MCULScript(c) == CASE c = 32 -> 0 [] c = 97 -> 1 [] c \in 1024 .. 1279 -> 2 [] OTHER -> 3

MCHash(ngram) == FoldLeft(+, 0, ngram)

\* Both sides of every boundary that script_detector.h tests.
Boundary == {879, 880, 1023, 1024, 1279, 1280, 1423, 1424, 1535, 1536, 1791, 1792, 4351,
             4352, 4607, 4608, 12352, 12353, 12447, 12448, 12543, 12544, 65535, 65536}

Ngrams(terminators, spaces, equal, id_dim, size) ==
  [NewFunction(Cbog, 0) EXCEPT
     !.parameters = << <<"include_terminators", terminators>>, <<"include_spaces", spaces>>,
                       <<"use_equal_weight", equal>>, <<"id_dim", id_dim>>, <<"size", size>> >>]

SpaceOf(tree, how) == [tree |-> tree, how |-> how, source |-> Written(tree, how)]

\* As the program has it: numbers are NUMBERs, all else is a NAME.
AsProgram(tree) ==
  SpaceOf(tree,
    [i \in DOMAIN tree |->
       [name |-> "NAME", dotted |-> TRUE,
        values |-> [j \in DOMAIN tree[i].parameters |->
                      IF tree[i].parameters[j][1] \in {"id_dim", "size"} THEN "NUMBER"
                      ELSE "NAME"]]])

ProgramSetup ==
  [spaces  |-> << AsProgram(<<Ngrams("true", "false", "false", 3, 2)>>),
                  AsProgram(<<NewFunction(Rsf, 0)>>),
                  AsProgram(<<NewFunction("script", 0)>>) >>,
   network |-> << [rows |-> 3, dim |-> 2, offset |-> 0],
                  [rows |-> kNumRelevantScripts, dim |-> 1, offset |-> 2],
                  [rows |-> NUM_ULSCRIPTS + 1, dim |-> 1, offset |-> 3] >>,
   size    |-> 4,
   texts   |-> SeqOf(Letters, MaxText) \cup {<<97, c>> : c \in Boundary}]

SharedSpaceSetup ==
  [spaces  |-> << AsProgram(<<Ngrams("false", "false", "true", 2, 1),
                              Ngrams("true", "true", "false", 3, 3)>>) >>,
   network |-> << [rows |-> 3, dim |-> 2, offset |-> 0] >>,
   size    |-> 4,
   texts   |-> SeqOf({32, 97, 1046}, MaxText)]

\* The forests of n functions in preorder, as the function that each is in.
Forests(n) ==
  {parent \in [1 .. n -> 0 .. n - 1] :
     /\ \A i \in 1 .. n : parent[i] < i
     /\ \A i \in 2 .. n :
          LET above[j \in 0 .. n] == {j} \cup (IF j = 0 THEN {} ELSE above[parent[j]])
          IN parent[i] \in above[i - 1]}

\* Functions that differ in argument, parameters and name.
Tree(parent) ==
  [i \in DOMAIN parent |->
     [type       |-> "script",
      name       |-> IF i = 2 THEN "named" ELSE "",
      argument   |-> IF i > 2 THEN i ELSE 0,
      parameters |-> SubSeq(<< <<"a", "x">>, <<"b", "y">> >>, 1, i % 3),
      parent     |-> parent[i]]]

ForestSetup(space) ==
  [spaces  |-> <<space>>,
   network |-> << [rows |-> NUM_ULSCRIPTS + 1, dim |-> 1, offset |-> 0] >>,
   size    |-> MaxForest,
   texts   |-> {<<97>>}]

WrittenForests ==
  LET trees == {Tree(parent) : parent \in UNION {Forests(n) : n \in 1 .. MaxForest}}
  IN {SpaceOf(t, Alike(t, "NUMBER", d)) : t \in trees, d \in BOOLEAN}
     \cup {[tree |-> Unnamed(t), how |-> Alike(t, "STRING", TRUE), source |-> ToFML(t)]
           : t \in trees}

MCContinuousNames == {Cbog, Rsf, "continuous-bag"}

\* A bag of n-grams under a name of its own.
NamedSetup(name) ==
  [ForestSetup(AsProgram(<<[Ngrams("true", "false", "false", 3, 1) EXCEPT !.name = name]>>))
     EXCEPT !.texts = SeqOf({32, 97}, 2)]

MCSetups ==
  {ProgramSetup, SharedSpaceSetup, NamedSetup("bag"), NamedSetup("continuous-bag")}
    \cup {ForestSetup(s) : s \in WrittenForests}
=============================================================================
