------------------------- MODULE LanguageIdentifier -------------------------
(***************************************************************************)
(* FindLanguage and FindTopNMostFreqLangs of the class                     *)
(* NNetLanguageIdentifier (src/src/nnet_language_identifier.cc): one call, *)
(* on a text that ScriptScanner cuts into spans.                           *)
(*                                                                         *)
(* Three things are chosen freely: how many bytes CheapSqueezeInplace      *)
(* leaves of a text (module CheapSqueeze says which), the language that    *)
(* the network predicts, and the probability, which is left out.  A text   *)
(* is the interchange-valid prefix of the input.  Languages are numbers,   *)
(* ordered as their names are.                                             *)
(***************************************************************************)
EXTENDS ScriptScanner

CONSTANTS
  Languages,      \* what the network may predict
  NumLangs,       \* the values of num_langs a caller may pass
  Functions,      \* the functions that are called
  min_num_bytes,  \* what the object was constructed with
  IntLimit        \* one more than the largest int: 2^31

ASSUME IdentifierAssumption ==
  /\ IntLimit \in Nat \ {0} /\ NumLangs \subseteq -IntLimit .. IntLimit - 1
  /\ Languages \subseteq Nat \ {0}
  /\ IsFiniteSet(Languages) /\ Cardinality(Languages) < IntLimit
  /\ Functions \subseteq {"FindLanguage", "FindTopNMostFreqLangs"}
  /\ min_num_bytes \in Nat

VARIABLES
  function,        \* the function that is called
  stage,           \* "begin", "ask" (for a span), "scan", "done"
  num_langs,
  cleaned,         \* FindLanguage: the bytes of the spans appended so far
  lang_stats,      \* FindTopN: statistics by language
  total_num_bytes,
  results,         \* what the call returns
  counted          \* history: the spans in lang_stats

ivars == <<function, stage, num_langs, cleaned, lang_stats, total_num_bytes,
           results, counted>>

allvars == <<vars, ivars>>

kUnknown == 0

\* The lengths CheapSqueezeInplace may leave of a text of n bytes.
SqueezedLengths(n) == IF n = 0 THEN {0} ELSE 1 .. n

NoStats == [byte_sum |-> 0, num_chunks |-> 0, byte_ranges |-> <<>>]

StatsOf(language) ==
  IF language \in DOMAIN lang_stats THEN lang_stats[language] ELSE NoStats

\* OrderBySecondDescending.
Precedes(l1, l2) ==
  \/ lang_stats[l1].byte_sum > lang_stats[l2].byte_sum
  \/ lang_stats[l1].byte_sum = lang_stats[l2].byte_sum /\ l1 < l2

\* The languages that were predicted, as std::sort leaves them.
Ranked ==
  CHOOSE r \in [1 .. Cardinality(DOMAIN lang_stats) -> DOMAIN lang_stats] :
    /\ ToSet(r) = DOMAIN lang_stats
    /\ \A i, j \in DOMAIN r : i < j => Precedes(r[i], r[j])

Padding(n) == [i \in 1 .. n |-> kUnknown]

\* Mutant: the difference is kept unsigned, so that a negative one is huge.
PaddingUnsigned(n) ==
  LET difference == n - Len(Ranked)
  IN  IF difference < 0 THEN difference + 2 * IntLimit ELSE difference

\* An int less a size_t, stored as an int again: a difference below all ints
\* comes round to a large one.
PaddingSize(n) ==
  LET difference == n - Len(Ranked)
  IN  IF difference < -IntLimit THEN difference + 2 * IntLimit ELSE difference

\* The best n languages, padded.
TopN(n) == SubSeq(Ranked, 1, minint(n, Len(Ranked))) \o Padding(PaddingSize(n))

-----------------------------------------------------------------------------
IInit ==
  /\ Init
  /\ function \in Functions /\ stage = "begin"
  /\ num_langs \in (IF function = "FindLanguage" THEN {1} ELSE NumLangs)
  /\ cleaned = 0 /\ lang_stats = <<>> /\ total_num_bytes = 0
  /\ results = <<>> /\ counted = <<>>

Returns(answer) == results' = answer /\ stage' = "done"

\* FindTopN answers at once when no byte is valid.
Begin ==
  /\ stage = "begin"
  /\ IF function = "FindTopNMostFreqLangs" /\ text.length = 0
       THEN Returns(Padding(num_langs))
       ELSE stage' = "ask" /\ UNCHANGED results
  /\ UNCHANGED <<vars, function, num_langs, cleaned, lang_stats, total_num_bytes, counted>>

\* ss.GetOneScriptSpanLower(&script_span)
Ask ==
  /\ stage = "ask" /\ stage' = "scan"
  /\ GetOneScriptSpan
  /\ UNCHANGED <<function, num_langs, cleaned, lang_stats, total_num_bytes, results, counted>>

Scan ==
  /\ stage = "scan"
  /\ \/ CopyLetter \/ LettersStop \/ SkipNonLetters \/ Finish
     \/ LowerCharacter \/ LowerScriptSpan
  /\ UNCHANGED ivars

HaveSpan(name)  == stage = "scan" /\ pc = "span" /\ function = name
SpansEnd(name)  == stage = "scan" /\ pc = "end"  /\ function = name

\* FindLanguage collects the spans.
AppendSpan ==
  /\ HaveSpan("FindLanguage")
  /\ cleaned' = cleaned + span.text_bytes
  /\ stage' = "ask"
  /\ UNCHANGED <<vars, function, num_langs, lang_stats, total_num_bytes, results, counted>>

\* It squeezes what it has collected, and predicts one language from it.
FindLanguageEnds ==
  /\ SpansEnd("FindLanguage")
  /\ \/ /\ cleaned < min_num_bytes
        /\ Returns(<<kUnknown>>)
     \/ /\ cleaned >= min_num_bytes
        /\ \E new_length \in SqueezedLengths(cleaned) :
             \/ new_length < min_num_bytes /\ Returns(<<kUnknown>>)
             \/ /\ new_length >= min_num_bytes
                /\ \E language \in Languages : Returns(<<language>>)
  /\ UNCHANGED <<vars, function, num_langs, cleaned, lang_stats, total_num_bytes, counted>>

\* The statistics with stats for one language, old or new.
WithStats(language, stats) ==
  [l \in DOMAIN lang_stats \cup {language} |->
     IF l = language THEN stats ELSE lang_stats[l]]

SpanRange(new_length) == [start_index |-> MapBack(0), end_index |-> MapBack(new_length)]

\* Mutant: the bytes are those left by the squeeze.
WithSpanSqueezed(language, original_bytes, new_length) ==
  LET stats == StatsOf(language)
  IN  WithStats(language,
        [stats EXCEPT !.byte_sum = @ + new_length,
                      !.num_chunks = @ + 1,
                      !.byte_ranges = Append(@, SpanRange(new_length))])

\* The statistics with one more span: its bytes before it was squeezed, and
\* the range of the input that MapBack gives for what is left of it.
WithSpan(language, original_bytes, new_length) ==
  LET stats == StatsOf(language)
  IN  WithStats(language,
        [stats EXCEPT !.byte_sum = @ + original_bytes,
                      !.num_chunks = @ + 1,
                      !.byte_ranges = Append(@, SpanRange(new_length))])

\* History: the span as the input has it.
SpanInInput(language) ==
  LET letters == SelectSeq(script_buffer, IsLetter)
      last    == letters[Len(letters)]
  IN  [language |-> language, bytes |-> span.text_bytes,
       from |-> letters[1].at, to |-> last.at + last.bytes]

\* FindTopN squeezes each span, and predicts its language unless too little
\* is left of it.
CountSpan ==
  /\ HaveSpan("FindTopNMostFreqLangs")
  /\ \E new_length \in SqueezedLengths(span.text_bytes) :
       /\ new_length >= min_num_bytes
       /\ \E language \in Languages :
            /\ lang_stats' = WithSpan(language, span.text_bytes, new_length)
            /\ counted' = Append(counted, SpanInInput(language))
  /\ total_num_bytes' = total_num_bytes + span.text_bytes
  /\ stage' = "ask"
  /\ UNCHANGED <<vars, function, num_langs, cleaned, results>>

\* Mutant: goes on without asking for the next span.
SkipSpanInPlace ==
  /\ HaveSpan("FindTopNMostFreqLangs")
  /\ \E new_length \in SqueezedLengths(span.text_bytes) : new_length < min_num_bytes
  /\ UNCHANGED allvars

SkipSpan ==
  /\ HaveSpan("FindTopNMostFreqLangs")
  /\ \E new_length \in SqueezedLengths(span.text_bytes) : new_length < min_num_bytes
  /\ stage' = "ask"
  /\ UNCHANGED <<vars, function, num_langs, cleaned, lang_stats, total_num_bytes,
                 results, counted>>

FindTopNEnds ==
  /\ SpansEnd("FindTopNMostFreqLangs")
  /\ Returns(TopN(num_langs))
  /\ UNCHANGED <<vars, function, num_langs, cleaned, lang_stats, total_num_bytes, counted>>

INext ==
  \/ Begin \/ Ask \/ Scan
  \/ AppendSpan \/ FindLanguageEnds
  \/ CountSpan \/ SkipSpan \/ FindTopNEnds

ISpec == IInit /\ [][INext]_allvars

\* A call runs on its caller's thread until it returns.
IFairSpec == ISpec /\ WF_allvars(INext)

-----------------------------------------------------------------------------
(* Properties. *)

\* The statistics account for every span once: the bytes of all languages
\* add up to total_num_bytes, by which each is divided for its proportion,
\* and to the lengths of the spans before they were squeezed.
BytesAddUp ==
  LET byte_sums == [l \in DOMAIN lang_stats |-> lang_stats[l].byte_sum]
      lengths   == [i \in DOMAIN counted |-> counted[i].bytes]
      SpansOf(l) == {i \in DOMAIN counted : counted[i].language = l}
  IN  /\ SumFunction(byte_sums) = total_num_bytes
      /\ \A l \in DOMAIN lang_stats :
           /\ lang_stats[l].byte_sum = SumFunctionOnSet(lengths, SpansOf(l))
           /\ lang_stats[l].num_chunks = Cardinality(SpansOf(l))
           /\ Len(lang_stats[l].byte_ranges) = lang_stats[l].num_chunks

\* The padding comes round for a negative num_langs next to the smallest int.
PaddingComesRound == num_langs - Cardinality(DOMAIN lang_stats) < -IntLimit

\* "A vector storing the top num_langs most frequent languages": as many
\* results as were asked for, no language twice, no language below one with
\* fewer bytes or left out in favour of one, kUnknown only behind all of them.
\* When fewer than none were asked for, no language is returned, and nothing at
\* all unless the size of the padding comes round
\* (nnet_language_identifier.cc:329-346).
ReturnsTopN ==
  (stage = "done" /\ function = "FindTopNMostFreqLangs") =>
    /\ num_langs >= 0 => Len(results) = num_langs
    /\ num_langs < 0 => /\ ToSet(results) \subseteq {kUnknown}
                        /\ results # <<>> => PaddingComesRound
    /\ \A i, j \in DOMAIN results : i < j =>
         \/ results[j] = kUnknown
         \/ /\ results[i] # kUnknown /\ results[i] # results[j]
            /\ lang_stats[results[i]].byte_sum >= lang_stats[results[j]].byte_sum
    /\ num_langs >= 0 =>
         \A l \in DOMAIN lang_stats \ ToSet(results) : \A i \in DOMAIN results :
           /\ results[i] # kUnknown
           /\ lang_stats[results[i]].byte_sum >= lang_stats[l].byte_sum

\* The ranges of all languages are disjoint, although each is found through
\* two maps that are rebuilt for every span.
RangesDisjoint ==
  LET ranges == UNION {ToSet(lang_stats[l].byte_ranges) : l \in DOMAIN lang_stats}
  IN  /\ \A r \in ranges : r.start_index <= r.end_index
      /\ \A r, q \in ranges :
           r = q \/ r.end_index <= q.start_index \/ q.end_index <= r.start_index

\* Every call returns.
CallReturns == <>(stage = "done")

\* "Specifies the byte ranges that |language| applies to": the letters of a
\* span that was counted for a language lie in one of its ranges.
RangesCoverSpans ==
  \A i \in DOMAIN counted :
    \E r \in ToSet(lang_stats[counted[i].language].byte_ranges) :
      r.start_index <= counted[i].from /\ counted[i].to <= r.end_index

\* "If N is less than min_num_bytes_ long, then this function returns
\* kUnknown", where N is at most the number of valid bytes.
UnknownWhenShort ==
  (stage = "done" /\ function = "FindLanguage" /\ text.length < min_num_bytes) =>
    results = <<kUnknown>>

=============================================================================
