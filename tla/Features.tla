------------------------------ MODULE Features ------------------------------
(***************************************************************************)
(* From the feature specification to the input of the network: Setup and   *)
(* Init of the embedding feature extractor, which parse the specification  *)
(* of every embedding space and instantiate its feature functions, the     *)
(* evaluation of these functions on one text, and ConcatEmbeddings         *)
(* (src/src/embedding_feature_extractor.h, feature_extractor.h and .cc,    *)
(* language_identifier_features.cc, relevant_script_feature.cc,            *)
(* embedding_network.cc).                                                  *)
(*                                                                         *)
(* A text is a sequence of codepoints: the texts that get here are valid   *)
(* UTF-8 without NUL, so that the loops over bytes go by characters.       *)
(* Embeddings are abstracted to which row is added where, with what        *)
(* weight; a weight is a fraction.  The workspaces are left out: the       *)
(* program's feature functions request none.                               *)
(***************************************************************************)
EXTENDS FMLParser

CONSTANTS
  Setups,          \* embedding spaces, with the tree that each specification is
                   \* written for and how it is, and the network they are for
  Hash(_),         \* Hash32WithDefaultSeed of a sequence of codepoints
  ULScript(_),     \* the script number of a letter, by the scanner's table
  NUM_ULSCRIPTS,
  ULScript_Hani,
  ContinuousNames  \* the names of functions that hold the word "continuous"

VARIABLES
  setup,        \* the setup at hand
  extractors,   \* for every embedding space: its feature functions
  stage,
  sentence,
  es, fi,       \* the embedding space and the function that are evaluated
  at,           \* the place in the loop
  chars,        \* the characters read, with terminators
  counts,       \* a bag of n-grams, or of scripts
  features,     \* for every embedding space: its feature vector, as a set
  concat        \* the additions to the concatenation layer

fvars == <<setup, extractors, stage, sentence, es, fi, at, chars, counts, features, concat>>

vars == <<pvars, fvars>>

Cbog == "continuous-bag-of-ngrams"
Rsf  == "continuous-bag-of-relevant-scripts"

-----------------------------------------------------------------------------
(* Feature functions: Setup and Init *)

\* The first parameter of that name.
GetParameter(f, name, default) ==
  LET named == {i \in DOMAIN f.parameters : f.parameters[i][1] = name}
  IN IF named = {} THEN default ELSE f.parameters[Min(named)][2]

GetBoolParameter(f, name) == GetParameter(f, name, "false") = "true"

\* FeatureType looks for "continuous" in the name of the function: the name it
\* was given, or its FML, which shows its sub-features as well.
IsContinuous(d, i) ==
  LET shown[j \in DOMAIN d] ==
        d[j].type \in {Cbog, Rsf} \/ \E k \in DOMAIN d : d[k].parent = j /\ shown[k]
  IN IF d[i].name # "" THEN d[i].name \in ContinuousNames ELSE shown[i]

kNumRelevantScripts == 12

\* A function that is set up; the n-gram parameters matter for Cbog only.
Function(d, i) ==
  LET f == d[i]
      id_dim == GetParameter(f, "id_dim", 10000)
  IN [type                |-> f.type,
      continuous          |-> IsContinuous(d, i),
      plain               |-> f.name = "" /\ Children(d, i) = <<>>,
      include_terminators |-> GetBoolParameter(f, "include_terminators"),
      include_spaces      |-> GetBoolParameter(f, "include_spaces"),
      use_equal_weight    |-> GetBoolParameter(f, "use_equal_weight"),
      size                |-> GetParameter(f, "size", 3),
      domain              |-> CASE f.type = Cbog -> id_dim
                                [] f.type = Rsf -> kNumRelevantScripts
                                [] OTHER -> NUM_ULSCRIPTS + 1]

\* Only functions that are not nested are instantiated.
Functions(d) == [k \in DOMAIN Children(d, 0) |-> Function(d, Children(d, 0)[k])]

-----------------------------------------------------------------------------
(* Setups *)

\* The first place of the layer behind the segments of space k.
SegmentsEnd(s, k) ==
  s.network[k].offset + Len(Functions(s.spaces[k].tree)) * s.network[k].dim

\* The network is one for these embedding spaces: every feature has a row, and
\* the spaces have the layer among them (lang_id_nn_params.cc).
NetworkFits(s) ==
  /\ s.size \in Nat
  /\ \A k \in DOMAIN s.spaces :
       /\ s.network[k].dim \in Nat \ {0}
       /\ s.network[k].offset \in Nat /\ s.network[k].rows \in Nat
       /\ \A i \in DOMAIN Functions(s.spaces[k].tree) :
            Functions(s.spaces[k].tree)[i].domain <= s.network[k].rows
       /\ SegmentsEnd(s, k) <= s.size
       /\ \A m \in k + 1 .. Len(s.spaces) : SegmentsEnd(s, k) <= s.network[m].offset

\* A setup: specifications of functions with sizes that make sense, the network
\* for them, and texts.
IsSetup(s) ==
  /\ s.spaces \in Seq(ToSet(s.spaces)) /\ s.spaces # <<>>
  /\ \A k \in DOMAIN s.spaces :
       LET space == s.spaces[k]
       IN /\ IsForest(space.tree) /\ space.tree # <<>>
          /\ space.how \in Hows(space.tree)
          /\ space.source = Written(space.tree, space.how)
          /\ \A i \in DOMAIN Functions(space.tree) :
               /\ Functions(space.tree)[i].size \in Nat \ {0}
               /\ Functions(space.tree)[i].domain \in Nat \ {0}
  /\ NetworkFits(s)
  /\ \A text \in s.texts :
       /\ text \in Seq(Nat \ {0})
       /\ \A i \in DOMAIN text : ULScript(text[i]) \in 0 .. NUM_ULSCRIPTS - 1

ASSUME FeaturesAssumption ==
  /\ {Cbog, Rsf} \subseteq ContinuousNames
  /\ NUM_ULSCRIPTS \in Nat /\ ULScript_Hani \in 0 .. NUM_ULSCRIPTS - 1
  /\ \A s \in Setups : IsSetup(s)

-----------------------------------------------------------------------------
(* Characters and scripts *)

Space == 32
Caret == 94
Dollar == 36

isalpha(c) == c \in 65 .. 90 \cup 97 .. 122

\* OneCharLen, of a character's first byte
CharLen(c) ==
  CASE c < 128 -> 1 [] 128 <= c /\ c < 2048 -> 2 [] 2048 <= c /\ c < 65536 -> 3
    [] 65536 <= c -> 4

kScriptOther(len) == len
kScriptGreek == 5
kScriptCyrillic == 6
kScriptHebrew == 7
kScriptArabic == 8
kScriptHangulJamo == 9
kScriptHiragana == 10
kScriptKatakana == 11

\* Mutant: the Greek block taken to begin a character late.
GetScriptLate(c) ==
  IF c = 880 THEN kScriptOther(2)
  ELSE IF c \in 881 .. 1023 THEN kScriptGreek ELSE kScriptOther(CharLen(c))

GetScript(c) ==
  CASE CharLen(c) = 2 /\ c > 1279 ->
         IF c >= 1536 THEN IF c <= 1791 THEN kScriptArabic ELSE kScriptOther(2)
         ELSE IF c >= 1424 THEN kScriptHebrew ELSE kScriptOther(2)
    [] CharLen(c) = 2 /\ c <= 1279 ->
         IF c >= 1024 THEN kScriptCyrillic
         ELSE IF c >= 880 THEN kScriptGreek ELSE kScriptOther(2)
    [] CharLen(c) = 3 ->
         IF c > 12447 THEN IF c <= 12543 THEN kScriptKatakana ELSE kScriptOther(3)
         ELSE IF c >= 12353 THEN kScriptHiragana
         ELSE IF c \in 4352 .. 4607 THEN kScriptHangulJamo ELSE kScriptOther(3)
    [] OTHER -> kScriptOther(CharLen(c))

\* The ranges that ScriptFeature counts as Hangul.
IsHangul(c) ==
  \/ c \in 4352 .. 4607 \/ c \in 43360 .. 43391 \/ c \in 55216 .. 55295
  \/ c \in 12592 .. 12687 \/ c \in 65440 .. 65500 \/ c \in 44032 .. 55215

-----------------------------------------------------------------------------
(* Set-up *)

Init ==
  /\ setup \in Setups
  /\ Initialize(setup.spaces[1].source)
  /\ extractors = <<>> /\ stage = "parse"
  /\ sentence = <<>> /\ es = 1 /\ fi = 1 /\ at = 1
  /\ chars = <<>> /\ counts = EmptyBag /\ features = <<>> /\ concat = {}

ParseSpecification ==
  /\ stage = "parse" /\ Parse
  /\ UNCHANGED fvars

\* An extractor is set up; the next specification is parsed.
SetupExtractor ==
  /\ stage = "parse" /\ pc = "parsed"
  /\ extractors' = Append(extractors, Functions(descriptor))
  /\ \/ /\ Len(extractors') < Len(setup.spaces)
        /\ source' = setup.spaces[Len(extractors') + 1].source
        /\ current' = 1 /\ descriptor' = <<>> /\ pc' = "parse"
        /\ UNCHANGED <<calls, stage>>
     \/ /\ Len(extractors') = Len(setup.spaces)
        /\ stage' = "ready"
        /\ UNCHANGED pvars
  /\ UNCHANGED <<setup, sentence, es, fi, at, chars, counts, features, concat>>

-----------------------------------------------------------------------------
(* ExtractFeatures *)

GetFeatures ==
  /\ stage = "ready" /\ stage' = "function"
  /\ sentence' \in setup.texts
  /\ features' = [k \in DOMAIN extractors |-> {}]
  /\ UNCHANGED <<pvars, setup, extractors, es, fi, at, chars, counts, concat>>

F == extractors[es][fi]

\* A function begins to evaluate.
Evaluate ==
  /\ stage = "function" /\ F.type \in {Cbog, Rsf}
  /\ stage' = IF F.type = Cbog THEN "chars" ELSE "scripts"
  /\ at' = 1 /\ chars' = <<>> /\ counts' = EmptyBag
  /\ UNCHANGED <<pvars, setup, extractors, sentence, es, fi, features, concat>>

\* Mutant: GetUTF8Chars stays at a space.
GetUTF8CharStuck ==
  /\ stage = "chars" /\ at <= Len(sentence)
  /\ at' = IF sentence[at] = Space THEN at ELSE at + 1
  /\ UNCHANGED <<pvars, setup, extractors, stage, sentence, es, fi, chars, counts,
                 features, concat>>

\* One turn of GetUTF8Chars: a NUL has no bytes.
GetUTF8Char ==
  /\ stage = "chars" /\ at <= Len(sentence)
  /\ chars' = Append(chars, sentence[at])
  /\ at' = IF sentence[at] = 0 THEN at ELSE at + 1
  /\ UNCHANGED <<pvars, setup, extractors, stage, sentence, es, fi, counts, features, concat>>

\* Mutant: a space is no end of a token.
TerminatorsOutside(cs) == <<Caret>> \o cs \o <<Dollar>>

Terminators(cs) ==
  <<Caret>> \o
  FlattenSeq([i \in DOMAIN cs |-> IF cs[i] = Space THEN <<Dollar, Space, Caret>>
                                  ELSE <<cs[i]>>])
  \o <<Dollar>>

IncludeTerminators ==
  /\ stage = "chars" /\ at > Len(sentence)
  /\ chars' = IF F.include_terminators THEN Terminators(chars) ELSE chars
  /\ stage' = "ngrams" /\ at' = 1
  /\ UNCHANGED <<pvars, setup, extractors, sentence, es, fi, counts, features, concat>>

\* One turn of the loop over the n-grams.
CountNgram ==
  /\ stage = "ngrams" /\ at <= Len(chars) - F.size + 1
  /\ LET ngram == SubSeq(chars, at, at + F.size - 1)
     IN counts' = IF F.include_spaces \/ \A i \in DOMAIN ngram : ngram[i] # Space
                    THEN counts (+) SetToBag({ngram}) ELSE counts
  /\ at' = at + 1
  /\ UNCHANGED <<pvars, setup, extractors, stage, sentence, es, fi, chars, features, concat>>

\* One turn of the loop over the characters in RelevantScriptFeature.
CountScript ==
  /\ stage = "scripts" /\ at <= Len(sentence)
  /\ counts' = IF CharLen(sentence[at]) = 1 /\ ~isalpha(sentence[at]) THEN counts
               ELSE counts (+) SetToBag({GetScript(sentence[at])})
  /\ at' = at + 1
  /\ UNCHANGED <<pvars, setup, extractors, stage, sentence, es, fi, chars, features, concat>>

\* count_sum and total_count, which grow with every count.
CountSum(bag) == SumFunction(bag)

Value(of, id, weight, float) ==
  [base |-> fi - 1, of |-> of, id |-> id, weight |-> weight, float |-> float,
   continuous |-> F.continuous]

\* The function has evaluated to these values, and the next one begins.
Adds(values) ==
  /\ features' = [features EXCEPT ![es] = @ \cup values]
  /\ \/ /\ fi < Len(extractors[es])
        /\ fi' = fi + 1 /\ stage' = "function" /\ UNCHANGED es
     \/ /\ fi = Len(extractors[es]) /\ es < Len(extractors)
        /\ fi' = 1 /\ es' = es + 1 /\ stage' = "function"
     \/ /\ fi = Len(extractors[es]) /\ es = Len(extractors)
        /\ fi' = 1 /\ es' = 1 /\ stage' = "concat"
  /\ UNCHANGED <<pvars, setup, extractors, sentence, at, chars, counts, concat>>

NgramValues ==
  /\ stage = "ngrams" /\ at > Len(chars) - F.size + 1
  /\ Adds({Value(ngram, Hash(ngram) % F.domain,
                 IF F.use_equal_weight THEN <<1, Cardinality(BagToSet(counts))>>
                 ELSE <<counts[ngram], CountSum(counts)>>, TRUE)
           : ngram \in BagToSet(counts)})

ScriptValues ==
  /\ stage = "scripts" /\ at > Len(sentence)
  /\ Adds({Value(script, script, <<counts[script], CountSum(counts)>>, TRUE)
           : script \in BagToSet(counts)})

\* ScriptFeature: the span that GetOneScriptSpan finds goes from the first
\* letter on and has spaces for all that are no letters; ScriptScanner says
\* where it may end.
ScriptFeature ==
  /\ stage = "function" /\ F.type \notin {Cbog, Rsf}
  /\ LET letters == {i \in DOMAIN sentence : ULScript(sentence[i]) # 0}
         Hangul(i, j) == {k \in letters \cap i .. j : IsHangul(sentence[k])}
         Others(i, j) == (letters \cap i .. j) \ Hangul(i, j)
         Number(n) == Adds({Value(n, n, <<1, 1>>, FALSE)})
     IN \/ letters = {} /\ Number(0)
        \/ /\ letters # {}
           /\ ULScript(sentence[Min(letters)]) # ULScript_Hani
           /\ Number(ULScript(sentence[Min(letters)]))
        \/ /\ letters # {}
           /\ ULScript(sentence[Min(letters)]) = ULScript_Hani
           /\ \E end \in Min(letters) .. Len(sentence) :
                Number(IF Cardinality(Hangul(Min(letters), end)) >
                          Cardinality(Others(Min(letters), end))
                         THEN NUM_ULSCRIPTS ELSE ULScript_Hani)

-----------------------------------------------------------------------------
(* ConcatEmbeddings *)

\* The weight that a value has: of a continuous type, the upper half of the
\* value, which is 0.0 in a small number; of another type, 1.
Multiplier(value) ==
  IF ~value.continuous THEN <<1, 1>>
  ELSE IF value.float THEN value.weight ELSE <<0, 1>>

\* Mutant: all functions of a space go to its first segment.
AdditionFirst(value) ==
  LET network == setup.network[es]
  IN [space |-> es, base |-> value.base, of |-> value.of, row |-> value.id,
      from |-> network.offset, to |-> network.offset + network.dim - 1,
      weight |-> Multiplier(value)]

\* Row "row" of the space's embedding matrix is added to the layer.
Addition(value) ==
  LET network == setup.network[es]
      begin == network.offset + value.base * network.dim
  IN [space |-> es, base |-> value.base, of |-> value.of, row |-> value.id,
      from |-> begin, to |-> begin + network.dim - 1, weight |-> Multiplier(value)]

\* The vector of one space; get_embedding checks the row.
ConcatEmbeddings ==
  /\ stage = "concat"
  /\ concat' = concat \cup {Addition(value) : value \in features[es]}
  /\ stage' = IF \E value \in features[es] : value.id \notin 0 .. setup.network[es].rows - 1
                THEN "crashed"
              ELSE IF es = Len(features) THEN "done" ELSE "concat"
  /\ es' = IF es = Len(features) THEN es ELSE es + 1
  /\ UNCHANGED <<pvars, setup, extractors, sentence, fi, at, chars, counts, features>>

Next ==
  \/ ParseSpecification \/ SetupExtractor \/ GetFeatures
  \/ Evaluate \/ GetUTF8Char \/ IncludeTerminators \/ CountNgram \/ CountScript
  \/ NgramValues \/ ScriptValues \/ ScriptFeature \/ ConcatEmbeddings

Spec == Init /\ [][Next]_vars /\ WF_vars(Next)

-----------------------------------------------------------------------------
(* Properties *)

\* A specification comes back as the descriptor it was written for: every
\* function with its argument, parameters and name, in the order and the
\* nesting that the grammar gives it, whether only children are behind dots or
\* in blocks (fml_parser.h:18-40, fml_parser.cc:158-239).
ParsesTree ==
  stage = "parse" /\ pc = "parsed" =>
    descriptor = setup.spaces[Len(extractors) + 1].tree

\* The tokens of a text, as intervals between spaces.
Tokens(text) ==
  {t \in (1 .. Len(text) + 1) \X (0 .. Len(text)) :
     /\ t[1] <= t[2] + 1
     /\ t[1] = 1 \/ text[t[1] - 1] = Space
     /\ t[2] = Len(text) \/ text[t[2] + 1] = Space
     /\ \A k \in t[1] .. t[2] : text[k] # Space}

\* The places of n-grams in the tokens of a text, each between ^ and $ if f has
\* terminators.
Places(text, f) ==
  LET Token(t) == IF f.include_terminators
                    THEN <<Caret>> \o SubSeq(text, t[1], t[2]) \o <<Dollar>>
                    ELSE SubSeq(text, t[1], t[2])
  IN UNION {{<<t, p, SubSeq(Token(t), p, p + f.size - 1)>>
              : p \in 1 .. Len(Token(t)) - f.size + 1} : t \in Tokens(text)}

\* The share of each n-gram in a text.
Shares(text, f) ==
  LET places == Places(text, f)
      grams == {place[3] : place \in places}
      Count(gram) == Cardinality({place \in places : place[3] = gram})
  IN {<<gram, IF f.use_equal_weight THEN <<1, Cardinality(grams)>>
              ELSE <<Count(gram), Cardinality(places)>> >> : gram \in grams}

\* The blocks of Unicode that script_detector.h:70-116 tells apart.
Blocks ==
  {<<kScriptGreek, 880 .. 1023>>, <<kScriptCyrillic, 1024 .. 1279>>,
   <<kScriptHebrew, 1424 .. 1535>>, <<kScriptArabic, 1536 .. 1791>>,
   <<kScriptHangulJamo, 4352 .. 4607>>, <<kScriptHiragana, 12353 .. 12447>>,
   <<kScriptKatakana, 12448 .. 12543>>}

\* The features of a text are what the comments on the functions promise:
\* n-grams lie within tokens and weigh by their share of all n-grams
\* (language_identifier_features.h:45-60), characters of a relevant script by
\* their share of all letters (relevant_script_feature.h:27-30).
SharesAsDefined ==
  stage = "concat" => \A s \in DOMAIN extractors : \A i \in DOMAIN extractors[s] :
    LET f == extractors[s][i]
        values == {v \in features[s] : v.base = i - 1}
        letters == {k \in DOMAIN sentence : sentence[k] >= 128 \/ isalpha(sentence[k])}
    IN /\ f.type = Cbog /\ ~f.include_spaces =>
            {<<v.of, v.weight>> : v \in values} = Shares(sentence, f)
       /\ f.type = Rsf => \A block \in Blocks :
            LET these == {k \in letters : sentence[k] \in block[2]}
            IN {v.weight : v \in {w \in values : w.of = block[1]}} =
               (IF these = {} THEN {} ELSE {<<Cardinality(these), Cardinality(letters)>>})

\* Every value finds its row in the embedding matrix of its space, and adds it
\* to a segment of the layer that no other function writes, with the weight its
\* function gave it; the weight only as long as nobody named the function or
\* nested others in it (embedding_network.cc:74-133, feature_types.cc:25-28).
AddsOwnRows ==
  /\ stage # "crashed"
  /\ \A a \in concat :
       /\ a.to < setup.size
       /\ extractors[a.space][a.base + 1].plain =>
            \E v \in features[a.space] : v.base = a.base /\ v.of = a.of /\ v.weight = a.weight
       /\ \A b \in concat :
            a.from <= b.to /\ b.from <= a.to => a.space = b.space /\ a.base = b.base

\* The specifications are parsed and the text is evaluated to the end.
PredictionEnds == <>(stage \in {"done", "crashed"})
=============================================================================
