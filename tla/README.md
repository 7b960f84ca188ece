# A verification development for pycld3

pycld3 is a Python binding to CLD3, which guesses the language of a text with
a small neural network. This directory holds TLA+ models of the parts of it
that decide *which bytes* the network sees, *what is made of them* before its
first layer, *which ranges of the input* its answers are about, and how the
threads of an interpreter get at it; the TLC configurations that check them;
and proofs checked by TLAPS. Paths below are relative to the repository (`src/src/...` is its
`src/` directory).

## 1. Inventory

A text goes through the program in this order:

    pycld3.pyx  ->  NNetLanguageIdentifier  ->  ScriptScanner  ->  OffsetMap
                          |                       (spans)       (where they were)
                          |->  CheapSqueezeInplace  (repetitive text removed)
                          |->  SelectTextGivenBeginAndSize  (snippets)
                          |->  feature extractor -> feature functions -> embedding network
                          |        (set up once, from specifications that FMLParser
                          |         reads and functions that the registry finds)

| component | state | operations | correct when |
|---|---|---|---|
| **OffsetMap** (`script_span/offsetmap.cc`) | a string of run bytes, a pending run, a cursor (two windows and a subscript) | `Clear`, `Copy`, `Insert`, `Delete`, `Reset`, `MapBack`, `MapForward` | every answer is the one the operations described, whatever was asked before |
| **ScriptScanner** (`script_span/getonescriptspan.cc`) | the place in the text, two buffers, two OffsetMaps | `GetOneScriptSpan`, `LowerScriptSpan`, `GetOneScriptSpanLower`, `MapBack` | every letter is handed out once, in a span of its script; buffers suffice; offsets map back |
| **CheapSqueezeInplace** (`script_span/text_processing.cc`) | one buffer, read and written; the skipping flag | one function | the result is a part of the text, in whole characters, cut at words, and nothing outside is written |
| **NNetLanguageIdentifier** (`nnet_language_identifier.cc`) | statistics by language during a call; the model and limits set by the constructor | constructor, `FindLanguage`, `FindTopNMostFreqLangs` | the statistics account for every span; the best languages are returned; ranges name their text |
| **Snippet selection** (same file) | the end of the last snippet | `SelectTextGivenBeginAndSize` | it stays in the text and splits no character |
| **UTF-8 state tables** (`script_span/utf8statetable.cc`) | during a call: the place in the text and in the table, the output, the map | `UTF8GenericScan`, `UTF8GenericReplace`, properties of one character | a character is judged alike wherever it stands and whichever loop reads it; whole characters are taken, and entered in the map |
| **Registry** (`registry.h`) and the constructor of the identifier | a global pointer, linked lists, three static registrars | `CreateRegistry`, registrars, `Lookup`, `DeleteRegistry` | a name looked up was registered, whichever threads construct |
| **Python binding** (`cld3/pycld3.pyx`) | a raw pointer in each object and each call | `__init__`, two methods, two functions | an identifier has one owner, is deleted at most once and not used afterwards; a call gets its own results |
| **FML parser** (`fml_parser.cc`) | a cursor in the specification, the recursion | `Parse`, `ToFML` | it ends, and nests as the source does |
| **Feature extractor** (`feature_extractor.h`, `embedding_feature_extractor.h`) | functions and their types, by embedding space | `Setup`, `Init`, `ExtractFeatures` | a value is told apart by space, function and kind |
| **Feature functions** (`language_identifier_features.cc`, `relevant_script_feature.cc`, `script_detector.h`) | counts during an evaluation | n-grams, relevant scripts, script | weights are shares of the text; ids are within the domain |
| **Embedding network** (`embedding_network.cc`) | the layer that is being added to | `ConcatEmbeddings`, the layers behind it | a row that exists is added to the segment of its function |
| workspaces, task context, network parameters, generated tables, HTML mode, command line program, build | | | not modelled: section 7 |

**How they interact.** A call runs on the thread of its caller. The
scanner owns its maps and buffers, and hands out a *pointer* to its buffer:
`FindTopNMostFreqLangs` squeezes that buffer in place and then asks the scanner
to map offsets of the squeezed text back, through maps of the text before the
squeeze. The scanner also reads behind the text it was constructed for.
What calls share is the feature registry, a plain global that every
constructor tests, creates if need be, and reads, and the registrars, which are
function-local statics. Nothing in C++ locks the registry. Under Python the GIL
does: the binding never gives it up around a call into C++. It may lose
it where a `LanguagePrediction` is built, for that is Python code.

**What is hard.** There is no persistence and no messaging, so there are no
crashes to recover from and no messages to lose. Threads meet in two places
only, the registry and the objects of the binding. What is hard besides is
sequences and
boundaries: maps with a cursor that is left wherever the last question put it;
runs that are merged, folded and split into digits; a buffer that is read and
written at once; spans that end for six different reasons; lengths in bytes
that must respect characters; exceptions between `new` and `del`; and loops
whose progress rests on all of it.
`hazards` in `PROJECT.json` lists them, each at its line.

## 2. The modules

| module | what it models | corresponds to |
|---|---|---|
| `Alignments` | operators on the alignment of two texts: what `Copy`, `Insert`, `Delete`, `MapBack`, `MapForward` mean byte by byte | the class comment and operations of OffsetMap |
| `Alignment` | the abstract specification: an alignment and the answers from it | what OffsetMap promises |
| `OffsetMap` | the class down to its bytes, pending run and cursor; implements `Alignment` | `m` is the object's fields; an action is a public operation or one turn of the loops of a query |
| `ScriptScanner` | the class, with its two maps as alignments | `next_byte_`, `byte_length_`, `take`, `put`, ... are the code's; an action is one turn of a loop |
| `LanguageIdentifier` | extends `ScriptScanner`: one call of `FindLanguage` or `FindTopNMostFreqLangs` over it | `lang_stats`, `total_num_bytes`, `results` |
| `CheapSqueeze` | `CheapSqueezeInplace` on one buffer | `src`, `dst`, `skipping`; an action is one turn of the loop over chunks |
| `SnippetSelect` | `SelectTextGivenBeginAndSize` | `i`, `snippet_end`; an action is one turn of its loop |
| `StateTable` | `UTF8GenericScan` and `UTF8GenericReplace` over any table that is what its comment says | `src`, `e`, `copystart` are the code's, `state` is `Tbl`, `dst` is the length of `out`; an action is one turn of a loop, a replacement or a way out |
| `Registry` | the registry and the constructor, by several threads; a step is one access to what is shared | `registry_`, `components` are the code's; `registrar` is the state of the static guards, `where` the place in the constructor |
| `Binding` | extends `Registry`: the GIL, calls, objects, exceptions, and the identifiers they construct | `model` is the object's pointer, `ident`, `results` and `out` are the functions' locals; `heap` and `lost` say what is allocated and what nobody can delete any more |
| `FMLParser` | the parser from its items on, with its recursion as a stack, and the grammar that its header gives, as `Written` | `current`, `descriptor`; `calls` is the C++ stack; an action is one decision of `ParseFeature` or a turn of a loop |
| `Features` | extends `FMLParser`: the set-up of all embedding spaces, the three feature functions on a text, and `ConcatEmbeddings` | `chars`, `counts`, `features`, `concat` are the code's; an action is a turn of a loop or the end of one |
| `MC...` | the small instances for TLC | |
| `Lemmas` | what the proofs of several modules rest on: induction and recursion, least elements, alignments, sums, sorting | section 6 |
| `OffsetMapProofs`, `IdentifierProofs`, `CheapSqueezeProofs`, `SnippetProofs`, `StateTableProofs`, `BindingProofs`, `FeaturesProofs` | theorems and their proofs; `IdentifierProofs` has those of `ScriptScanner` as well, `BindingProofs` those of `Registry`, `FeaturesProofs` those of `FMLParser` | section 6 |

The modules hang together by what one assumes of another. `ScriptScanner` uses
alignments in place of OffsetMaps because `OffsetMap` implements `Alignment`.
`LanguageIdentifier` takes any length from 1 to that of the text as the result
of a squeeze, because `CheapSqueeze` says no more of it. `CheapSqueeze` is
given what `ScriptScanner` (three spaces and a NUL behind the text) and
`FindLanguage` (a NUL) hand it.

`Binding` has the actions of `Registry` as the steps of its `new`, and is shown
to implement the `Registry` in which nobody constructs beside the first
construction. What C++ finds in a text is free in `Binding`, and is the business
of `LanguageIdentifier`. `Features` is given what the identifier hands it: valid
UTF-8 without a NUL.

**What is abstract.** A byte or a character is what the code tells apart:
`CheapSqueeze` knows spaces, one-byte characters, first and continuation bytes;
`ScriptScanner` knows a character's script, its length and the length of its
lower case. A byte carries the position it came from, so that "in order" and
"whole" can be said. The network may predict any language; the hash table of
`CountPredictedBytes` may predict any share of a chunk; probabilities are left
out. A text is valid UTF-8, as `FindNumValidBytesToProcess` makes it; but the
character *behind* it is free, since `GetOneScriptSpan` looks at it. The model
of `OffsetMap` does not build on after a query, which no caller does.
`LowerOne` gives the map operations character by character, where
`UTF8GenericReplace` puts several copied characters into one `Copy`:
`StateTable!MapDescribes` shows that it comes to the same. A state table is what
it says of characters (kept, rejected, replaced, of which those by
`remap_base`) with the two fast-scan tables; that its 256-entry rows are
those characters one byte at a time is `Entry`.

`Features` knows codepoints, since the script detector and the terminators ask
for them; hashes and the scanner's script numbers are parameters, weights are
fractions, and a row of a matrix is its number. In `Binding` a text is empty,
impossible to encode, or good; the sizes an identifier is made with are the
three kinds that its checks tell apart.

**Mutants.** Some definitions stand behind a mutated form of themselves,
marked as such: the definition with a plausible bug in it. They are used by no
specification; with the definition replaced by its mutant, TLC finds the
property named in `PROJECT.json` violated, which shows that the property
depends on the code.

## 3. The runs

| run | what it shows | states |
|---|---|---|
| `CheapSqueeze` | types; nothing to be read is destroyed; order; whole characters; cuts at spaces; every call returns | 202 000 |
| `OffsetMap` | bytes stand for the alignment; the cursor's windows are right; walks always advance; the answers that its bytes give are monotone and the two directions never cross; implements `Alignment` | 371 000 |
| `ScriptScanner` | every letter once; one script; buffers suffice; letters map back; words are cut only when the buffer is full; the scan ends | 604 000 |
| `LanguageIdentifier` | bytes add up; the top languages in order, as many as were asked for; ranges disjoint; every call returns | 135 000 |
| `SnippetSelect` | in the text; disjoint and whole; within the share | 18 000 |
| `StateTable` | scans end behind the longest accepted run; replacements are whole, mapped one by one and leave room; every call returns | 96 000 |
| `Binding` | every feature function is found; identifiers have one owner; results are those of the text; every call comes back | 189 000 |
| `Features` | specifications parse to the tree they were written for; features are shares of the text; rows exist and segments are apart; every prediction ends | 25 000 |

Four more runs show where the code does not do what it says, each with one
property that quotes the comment. `PROJECT.json` has the findings:

- `IdentifierRanges`: the byte range of a language ends where the *squeezed*
  length maps to, so it does not cover a span that was shortened.
- `ScannerFront`: `MapBack(0)` of a span at offset 1 gives 0, because
  `Delete(1)` and `Insert(1)` fold into `Copy(1)`.
- `ScannerMixedCalls`: after `GetOneScriptSpanLower`, `MapBack` for a span
  from `GetOneScriptSpan` goes through a stale map.
- `IdentifierShort`: a text shorter than `min_num_bytes_` is predicted, since
  the cleaned text it is compared by has spaces added.

Met on the way, and not among the runs:

- `truncated` is set although the end of the text was found, when the soft limit
  is reached there (`getonescriptspan.cc:1016`, the comment at
  `getonescriptspan.h:41`); a word is cut although there is a space in the last
  32 bytes of the buffer, when the soft limit is half of the rest and lies above
  them (`getonescriptspan.cc:837`, `getonescriptspan.h:33`); `MapBack` gives an
  offset in the input, not one "additional" to the span's
  (`getonescriptspan.h:87`).
- With a `min_num_bytes_` of less than 4, the default of the binding's functions
  among them (`pycld3.pyx:222`), two ranges of `FindTopNMostFreqLangs` may
  overlap in the first byte of the text, because of the same defect as in
  `ScannerFront`: "a" in front of two letters of another script gives the ranges
  0 to 1 and 0 to 2. `RangesMeetAtFront` says that this is the only overlap
  there is.
- A chunk size below 0 is not replaced by the default (`text_processing.cc:157`
  and `177`).
- With `max_num_bytes_` from 6 to 9 a snippet is one byte long, and nothing but
  the separating spaces is selected from a text in longer characters
  (`nnet_language_identifier.cc:377`).
- The binding documents 1024 bytes where the code reads 10000
  (`pycld3.pyx:132`), and with `num_langs` from 2^31 on the function
  `get_frequent_languages` returns nothing: an `unsigned int` goes to an `int`
  (`pycld3.pyx:264`), against what `pycld3.pyx:234` says.
- For a `num_langs` below 0 `FindTopNMostFreqLangs` returns nothing, except next to
  the smallest `int`: there `num_langs` less the number of languages, a `size_t`,
  comes round when it is stored in an `int` (`nnet_language_identifier.cc:343`),
  and some 2^31 results are appended, all of them kUnknown. A `num_langs` of 2^31
  in Python is the smallest `int`, so this is what happens there as soon as one
  language is counted: the binding filters all these results out again, if there
  is memory for them. `ReturnsTopN` says which of the two it is.
- `get_frequent_languages` never deletes its identifier when the text cannot be
  encoded or the loop is interrupted, `get_language` when the text cannot be
  encoded; an object never deletes its own. These are the ways into `lost`.
- Without the GIL two first constructions may end in a registry without
  features, and then in the use of a null pointer (`FeaturesFound` with
  `FirstAlone` FALSE and no binding around it).
- A continuous function that a specification gives a name without the word
  "continuous" (`ContinuousNames`) loses its weights, and a discrete one that a continuous one is
  nested in gets weight 0 (`feature_types.cc:30`); a block that is not closed is
  parsed for ever (`fml_parser.cc:200`). The specifications of the program do
  none of that.

**Bounds, and why they are enough.**

- `OffsetMap`: texts of up to 5 bytes with digits of base 3 instead of 64, so
  that runs need prefix bytes and merge into a digit until it is full; lengths
  up to 4; every offset from -1 to 7. Six different runs already fit, which is
  more than the code looks at in any step (two).
- `ScriptScanner`: texts of up to 5 characters of six kinds (two scripts, a
  mark, a non-letter; lower case longer, shorter and equal), and a character of
  another script or none behind. The buffer is 14 bytes, of which letters take
  6 and the tail 2, in place of 40960, 40928 and 32: a full buffer, a soft limit
  and a text that fills several spans all happen.
- `CheapSqueeze`: texts of up to 5 words, of 0 to 7 bytes; chunks of 8 bytes,
  scans of 6: words that are longer than a scan and than a chunk occur. The
  thresholds are 65% so that a chunk of 8 must be mostly spaces.
- `LanguageIdentifier`: texts of 5 characters give up to five spans; two
  languages; an `int` goes from -4 to 3, and `num_langs` is -4, from which the
  size of the padding comes round as soon as a language is counted, -3, with which
  it takes two, 0, 1 or 3; `min_num_bytes` 4, below which the defect shown by `ScannerFront` makes two ranges overlap: with a lower limit a
  one-letter span at offset 1 is counted, and its range begins at 0.
- `SnippetSelect`: all texts of up to 13 bytes in characters of 1 to 3, with
  `max_num_bytes` 7 and 3 snippets, so that both divisions leave remainders.
- `StateTable`: three tables of the kinds the program has (exit optimized and
  given any bytes; stopping at letters; lower case, with replacements that are
  shorter by one and two, equal and longer). A word is 1 byte instead of 4 and a
  scan is sent back after 2 one-byte characters instead of 4, so that texts of 5
  pieces or 3 characters take every way between the loops more than once; the
  output buffer has 1 byte less than the text, as many, and 1 or 3 more.

- `Binding`: two threads, one object and three calls of the five kinds, so that
  a method runs while `__init__` replaces the model, and one function while
  another one waits for the GIL; every text, two languages, `num_langs` of 0, 1
  and 3. The largest `int` is 3, so that a size of 4 wraps. The constructor
  registers the three names and looks up the six features of the program. One
  object suffices, since an object's pointer meets no other one's.
- `Features`: the set-up of the program with small matrices on all texts of up
  to 4 of 5 letters, and on both sides of each boundary of the script detector;
  two functions in one space; a function with a name; all forests of up to 4
  functions that differ in argument, parameters and name, written in blocks, with
  dots and by `ToFML`. TLC evaluates `FeaturesAssumption` on each of them. A forest of 4 has a block in a block, a block behind a dot and
  a sibling behind a nest.

**Fairness.** The liveness properties (`CallReturns`, `ScanEnds`) assume weak
fairness of the steps inside a call: a call runs on its caller's thread until
it returns. `ScanEnds` and the `CallReturns` of `LanguageIdentifier` also rest
on the caller's loop, which asks for spans until there is none; both loops of
`nnet_language_identifier.cc` do. In `Binding` a thread that has the GIL runs (weak fairness of `Step`), and one
that waits for it gets it in the end, however often others take it in between
(strong fairness of `Reacquire`, which builds the prediction or raises): CPython
makes the holder hand it over. Nobody
has to call. `Features` takes weak fairness of its one thread.
`LanguageIdentifier`, `Binding` and `Features` may stop, when the calls have
returned, a check has ended the process or the prediction is made, so their runs
do not check for deadlock; all others do.

## 4. The properties

The most important ones, and what would break them:

- `OffsetMap!Implements`, with `MapsAsBuilt` and `CursorCoherent` below it:
  folding, merging and digits lose nothing, and the cursor may be left anywhere.
- `ScriptScanner!EveryLetterOnce`: a span may end at a foreign letter after a
  look ahead, at a non-letter, at the soft limit, at a full buffer or at the
  end; the next begins there. `OneScript` says which foreign letters are let in.
- `ScriptScanner!MapsLettersBack`: through two maps, back to every letter.
- `CheapSqueeze!NoClobber`, `WholeChars`: see section 6. `CutsAtSpaces` holds
  only where every word fits in a chunk and a scan, and says so.
- `LanguageIdentifier!BytesAddUp`, `ReturnsTopN`: proportions are over the spans
  that were counted; as many languages are returned as were asked for, ties do no
  harm, and a negative number names no language, although the size of the
  padding may come round.
- `SnippetSelect!ReadsInText`: the loop has no check against the end.
- `StateTable!ScansLongest`: two loops of different grain, jumps between them and
  a way back over partial characters come to what the table says of characters.
  `ReplacesCharacters` and `MapDescribes` are the same of the replacement, where
  bytes are copied before it is known whether they are wanted and entered in
  the map later still.
- `Binding!Accounted`: the pointers of calls and objects, the heap and what was
  let go add up in every state, so nothing is used after it was deleted;
  `ReturnsFound` relates what a caller gets to its own text across a loss of the
  GIL.
- `Registry!FeaturesFound`: a lost update of the registry would break it; that
  `Binding` keeps it is the work of the GIL.
- `Features!SharesAsDefined`: the loops over characters, with terminators put in
  and n-grams left out, against a definition by tokens, and comparisons of bytes
  against Unicode blocks. `ParsesTree`: three ways to write each tree.
- `Features!AddsOwnRows`: bases, offsets and ids from four places in the code
  come together in one address, which no other function may write.

## 5. What is only model-checked

- All liveness properties, which the proof system cannot handle under fairness.
- The four runs that expect a violation are counterexamples, and nothing to prove.

## 6. What is proved

Everything below holds for every value of the constants that the assumptions of
the modules allow (`OffsetMapAssumption`, `ScannerAssumption`,
`IdentifierAssumption`, `TextsAssumption`, `ParametersAssumption`,
`SnippetAssumption`, `StateTableAssumption`, `TablesAssumption`,
`RegistryAssumption`, `BindingAssumption`, `FeaturesAssumption`; TLC evaluates them in the runs) and
under the hypotheses named here.

**`Lemmas`.** The library's induction theorems are stated of an operator, which
the provers cannot instantiate. `NatsByInduction`, `RecursionExists`,
`RecursionAgrees` and `TypedFromZero` state induction and recursion of sets and
functions instead, from the library's theorem that the order of the natural
numbers has no infinite descent; sums over finite sets (`SumWithOneMore`) and
sorting (`SortedExists`) rest on them. What each operation does to an alignment
(`CopyBytesAt`, `FoldInsertAt`, ...) and that it keeps it tidy (offsets in order,
the directions not crossing) is there for `OffsetMap` and for `ScriptScanner`.

**`OffsetMapProofs`**, for every base of digits, bound and set of lengths and offsets:

- `OffsetsAreMonotone`, `TypesHold`, `CursorIsCoherent`,
  `BytesStandForAlignment`, `WalksAdvance`, and the refinement
  `MapImplementsAlignment`.

`OffsetsAreMonotone` is about the answers of the map: the window of some run of its
bytes holds every offset inside the texts (`WindowHolds`), and what it answers is
what the alignment that was built answers (`AnswersAreBuilt`), which is tidy.

The invariant has three parts. `TidyInv` is about the alignment alone. `BuildInv`
says that the bytes of the map, read back run by run (`ReadAll`), stand for the
alignment that was built, its pending run included, and that the cursor's windows
are those of the run that ends at `next_diff_sub` (`CursorAt`), wherever it was
left. `QueryInv` says what the loops of a query know. That a run written in
digits is the run that is read back is `EncodedReads`; that a step of the cursor
to either side reads just one run is the other half. A query then is answered
from a window that holds its offset, and the window determines the answer. The
refinement is shown step by step: a turn of a loop is a stutter, the last one is
the answer of `Alignment`.

**`IdentifierProofs`**, first of `ScriptScanner`, for every set of texts and all sizes of the buffer that leave
as much room behind the letters as the code does (8 bytes):

- `ScannerTypeCorrect`, `NoLetterIsLost`, `SpansKeepToAScript`,
  `SpansFitBuffers`, `WordsAreCutWhenFull`, and, if `OneKindOfCall`,
  `LettersMapBack`.

The hypothesis of the last one is needed: `ScannerMixedCalls` is what happens
without it. That buffers suffice rests on what `IsText` says of UTF-8 and of the
tables: four bytes to a character at most, and no more than half as much again in
lower case. The invariant has six parts: where the call is (`PlaceInv`), what is in
the buffer (`BufferInv`), in which order it got there (`OrderInv`), which scripts
it may be of (`ScriptInv`), how much room is left at each turn (`LimitInv`), and
what the two maps have been told of it (`MapInv`). They are proved together, one
lemma for each action.

Then of `LanguageIdentifier`, for every set of texts, every network and every minimum of bytes:

- `CallScans`: a call drives the scanner as the scanner's specification allows,
  so that the theorems above hold during it.
- `StatisticsAddUp`: the bytes of all languages are those of the spans counted. A
  span adds to one member of a sum (`SumWithOneMore`).
- `TopLanguagesReturned`, for every `int` that is asked for: what is returned are the
  first languages in the order of their bytes, and padding. Such an order exists
  (`SortedExists`) and is the only one. For a negative `int` there is padding at
  most, and none unless its size comes round (`NoneIsTop`). There are assumed to be
  fewer languages than the largest `int` (`IdentifierAssumption`), as the code's
  own casts do.
- `RangesAreDisjoint`, if spans are asked for in lower case, as the program does,
  and the minimum is at least 4 (it is 140 unless a caller says otherwise):
  each range begins where the one before it ended, or behind that. What has to be
  excluded is the defect that `ScannerFront` shows; `FrontInv` says that the front
  of a span is not mapped back before the span unless it begins at offset 1, and
  that the span that ends there is short.
- `RangesMeetAtFront`, for every minimum: two ranges have no more in common than
  the first byte of the text.

**`CheapSqueezeProofs`**, for every set of texts, every chunk size of at least 1 or
the default (the hypothesis `ForwardChunks`), every threshold and scan length:

- `SqueezeTypeCorrect`, `SqueezeNoClobber`, `SqueezeInOrder`,
  `SqueezeWholeChars`, `SqueezeCutsAtSpaces`.

None of the five is inductive. The invariant `IInv` adds that the text is what
the caller must hand in (`WellFormed`), that `dst` never passes `src` and is
behind at least one byte once text was skipped (`Positions`), and that a byte of
the result which the squeezer did not write equals the byte of the text it came
from (`Origin`). `WholeChars` is the hard part: `DropChunk` cuts the result
where the backward scan says, and its fallback looks at the byte *at* `dst`,
which is not part of the result. It may be any leftover, so the proof goes over
the byte in front of it. `KeepMoves` says what a move does: a new byte is the
byte of the text at its place, because `NoClobber` held before. The lemmas
`Backscan`, `Forwardscan` and `ChunkLen` say what the helpers return.

`CutsAtSpaces` rests on an invariant of its own, `Seams`: while text is skipped the
result ends with a space, and otherwise it goes on where it is read next, unless
nothing but the way to a space was dropped of the last chunk. The forward scan
looks at the text, where the words are short (`ResumesAtSpace`). The backward
scan looks at the *result*, of which nothing of that kind is known: but if it
passed no space, there was no cut within its reach either (`Seams` again), so the
bytes it passed stand side by side in the text (`UncutAt`), and hold a space
there (`DropsAtSpace`).

**`SnippetProofs`**, for every set of texts, every positive `max_num_bytes` and
every positive number of snippets:

- `SnippetsTypeCorrect`, `SnippetsReadInText`, `SnippetsDisjoint`,
  `SnippetsWithinShare`.

After `i` turns the snippets end at most at `i` shares, where a share is the
bytes skipped and the bytes taken (`Taken` in `IInv`), and all shares together
are no longer than the text (`Shares`): two facts about integer division
(`Quotient`) are all there is to it.

**`StateTableProofs`**, for every table that is well formed, every text and every
buffer, however small:

- `ReplaceKeepsRoom`, `TableTypesHold`, `ScansAreLongest`,
  `ReplacementsAreWhole`, `MapIsOfCharacters`.

What they assume of a table (`WellFormed`, in `TablesAssumption`) is what its
generator's comments say and what the interpreter relies on: no character begins
another; continuation bytes are behind the first byte of a character and only
there; what the fast scan may skip are accepted characters of one byte; only
`remap_base` makes a text longer; no table that replaces is exit optimized.

There are two invariants. `IInv` is about room: the bytes seen of a character are
the last ones copied (`Copying`), so that a replacement takes back no more than
it copied, and one without a check, which is never longer, leaves as much room as
there was. `PlaceInv` is about the border between two characters at which the bytes seen
begin (`Start`): they stand in the text from there on and begin a character
(`SeenInv`), and for some number of characters the text up to there is these
characters, the output is what becomes of them and then the bytes seen
(`Written`), and the map, with the copy that is not yet entered, is that of these
characters one by one (`Entered`). The other steps of the argument:

- The characters of a text are defined from its start (`CharsOf`), but a byte is
  judged by the bytes before it. `Borders` and `CharTaken` say that an accepted
  character that stands at a border is the next one, since none begins another;
  `NoneStands` that nothing stands where the table said "illegal", `NoneStandsAtEnd`
  and `NoneWhereRejected` likewise for the other two ways out (`WhyItLeaves`).
- `BackUpIs`: going back over continuation bytes leads to the border and no
  further, wherever the loops do it.
- `FastBytes`: what the fast scan skips, two words or one, are accepted
  characters, one for each byte, so that it ends at a border.
- `ReplacedBehindCopies`: one `Copy` for a run of characters that keep their length,
  and then an `Insert` or a `Delete`, make the alignment that entering each
  character alone makes.
- `FlattenWithOneMore`, `LoweredWithOneMore` and `FoldWithOneMore` say what the
  library's operators, which are defined by recursion, make of one more element.

**`BindingProofs`**, first of `Registry`, for every set of threads and all lists of
names: `RegistryFindsFeatures`, if nobody constructs beside the first
construction (`FirstAlone`). The invariant says that a construction under way is
alone until one has finished (`Alone`), that a registrar that is done has its
name in the one registry (`DoneRegistered`), that after the first construction
all are done (`AllDone`), and for every thread what holds at its place in the
constructor (`AtPlace`). Each action keeps it by a lemma of its own. Then of
`Binding`, for every number of threads, objects, calls and languages:

- `BindingFindsFeatures`: `FeaturesFound` without a hypothesis. A thread that is
  in a constructor has the GIL (`Locked`), so at most one is, and the argument
  above applies to every step.
- `BindingIsSerial`: hence each step of `Binding` is a step or a stutter of a
  `Registry` in which the first construction is alone, the refinement.
- `BindingAccounts`: `Accounted`. The invariant `Owned` adds that no identifier
  is beyond the number made, so a new one belongs to nobody, that no two objects
  have the same, and that a thread has one only between its `new` and its `del`.
- `BindingReturnsFound`: `ReturnsFound`, from the hypothesis `CallersBehave`: every
  `num_langs` that is passed fits in an `int`, and no language is called "und". That
  a text holds fewer languages than the largest `int` is `BindingAssumption`.
  What is taken from the results and what is left of them are, at every turn of
  the loop and across every loss of the GIL, a beginning of the languages found
  and its continuation, padded with the unknown one (`Left`). Lemmas say that C++
  hands over such results (`AnswerIsLeft`), that a turn of either kind keeps them
  so (`PassesUnknown`, `TakesLanguage`), and that with nothing left all that was
  wanted is taken (`AllTaken`). `OthersKeep` is that threads do not touch each
  other's.

**`FeaturesProofs`**, for every set of setups, each of any number of embedding
spaces, with any specifications, texts, options and sizes of the functions and of
the network:

- `ParsesEveryTree`, and, if every hash is a natural number,
  `AddsRowsToOwnSegments` and `WeighsByShares`.

What is assumed of a setup is `IsSetup`: its specifications are written by the
grammar for forests of functions (`IsForest`), n-grams and domains are not empty,
the network has a row for each number in a domain and room for every space in the
order of the spaces, as `lang_id_nn_params.cc` has, and texts have no NUL. The
hash is a parameter and a `uint32` in the code (`utils.cc`); that it is a number
is a hypothesis of two theorems rather than an assumption of the module, because
TLC cannot enumerate the n-grams that it speaks of.

*The parser.* `ParsesTree` is not inductive by far: the parser holds a piece of
the tree, a place in the text and a stack, and the grammar says nothing of
places. So the proof begins with the grammar. A layout (`IsLayout`) gives every
function of the forest the place `b[i]` where it begins and `e[i]` behind its
end; `LayoutExists` says that whatever is written for a forest has one. It is
by induction from the last function to the first, for what is written of a
function is made of what is written of later ones (`FunctionsWritten`), with the
places of the parts of a sequence that is put together (`Offsets`, `HoldsParts`),
of the items of a list of parameters (`ListPlaces`) and of a function's three
parts (`SpecAt`). From the layout follows what the parser reads at each place
(`LaidReads`, `AtFollow`, `AtEnd`). The invariant `Parsing` then says for each
stage of `ParseFeature` how much of function `n` is read (`ReadSoFar`), that all
functions before it are complete and none behind it is there (`Made`), where the
parser is, and that the calls under way are those for the functions that `n` is
in, each with the brace it awaits (`CallsStand`). There is one lemma for each
action. `SetupsParsed` carries this from one space to the next.

*The evaluation.* `EvaluationStands` says that the loops have counted just what
they have passed (`LoopAt`: the bag of the windows, or of the letters, up to the
place `at`), that the vectors hold what the functions up to the one at hand come
to (`VectorsStand`, `HasValues`), and that what was added to the layer comes from
them (`AddedFrom`). `BagOf` is the bag of what is at the places of a set, so that
a turn of a loop is one place more (`OneMorePlace`, `BagOfOneMore`), and the
sum of the counts is the number of places (`CountsAddUp`). With it
`AddsOwnRows` is arithmetic: a value's number is within its domain, so there is
a row for it (`ValueFits`), and the segments of two functions do not meet, in one
space because they are `dim` apart and in two because the spaces follow each
other (`SegmentsApart`).

*The shares.* `SharesAsDefined` counts n-grams within each token, whereas the code
runs over the whole text, with terminators put in, and leaves out what holds a
space. That the two counts agree is a bijection of the windows in tokens to the
windows without a space in what the code reads (`IsMatch`, `MatchOfSize`,
`GoWith`): a run of characters without a space lies in one token, and tokens have
a space between them. Without terminators a token stands where it stands in the
text; with them its characters are shifted by two for every space in front of it,
which is what the marks of `IsMarked` count (`TokenMarked`, `MarksGrow`). For
scripts it is shown of each codepoint that `GetScript`, by its length and its
comparisons, tells the block that `Blocks` says, and that the letters are those
of the property (`BlockIs`, `LetterIs`).

The proof found two things wrong with the model, and none with the code. Two
alternatives of `CharLen` overlapped, and TLA+ does not say which one is taken,
although TLC takes the first: they are disjoint now. And nothing said that a
network's rows and its layer are counted by natural numbers, which a network's
are.

## 7. Not modelled, and why

- The layers of the network behind the first one, quantized numbers and the
  probabilities: floating-point arithmetic.
- HTML tags and entities, `GetOneTextSpan`, spans of mixed scripts,
  `ComposeOffsetMap`, `DeleteRegistry`, nested feature functions: the program
  never uses them.
- Workspaces: no feature function of the program requests one, so the registry
  of workspaces stays empty.
- The generated tables and network parameters, four fifths of all lines: the
  meaning of a byte and of a row is a parameter.
- The lexer of the feature specifications; the hash of an n-gram.
- The command line program, the task context, build and packaging: no state.
- The two-byte and ASCII-only twins of the table interpreters, `UTF8TrimToChars`,
  and the exits of a table that no table of the program has.
- A subclass of the binding's object whose `__init__` does not call the one it
  inherits has no model; the methods do not test for that.

## 8. Plan

Done: the modules of section 2 and the proofs of section 6, which cover every
invariant and every step property of the passing runs, for all values of the
constants. What is left:

1. `FMLParser` from characters on, if specifications ever come from outside.
2. `LanguageIdentifier` with several calls on one identifier, which share
   nothing but constants today.
3. The layers of the network behind the first one, down to the index that the
   answer is read from, if more than one network is to be supported.
