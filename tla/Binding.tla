------------------------------ MODULE Binding ------------------------------
(***************************************************************************)
(* The Python binding (src/cld3/pycld3.pyx): threads of one interpreter    *)
(* call its two functions and the three methods of LanguageIdentifier,     *)
(* which construct, use and delete NNetLanguageIdentifiers.                *)
(*                                                                         *)
(* The calls into C++ hold the GIL, since nothing here is nogil.  A thread *)
(* may lose it between calls and where a LanguagePrediction is built: the  *)
(* constructor of a namedtuple is Python code, which may also be left by   *)
(* an exception (KeyboardInterrupt).                                       *)
(*                                                                         *)
(* An identifier is a number.  A text is what the binding can tell of it:  *)
(* empty, with a lone surrogate (which UTF-8 cannot encode), or good, with *)
(* the languages that C++ finds in it, best first.                         *)
(***************************************************************************)
EXTENDS Registry, Integers, SequencesExt

CONSTANTS
  Objects,     \* LanguageIdentifier objects
  Languages,   \* what the network may predict
  Sizes,       \* the pairs <<min_bytes, max_bytes>> that callers pass
  NumLangs,    \* the values of num_langs that callers pass
  IntLimit,    \* one more than the largest int: 2^31
  NoThread,    \* the GIL is free
  MaxCalls,    \* bound on the calls made
  MaxFound     \* bound on the languages found in a text

ASSUME BindingAssumption ==
  /\ Objects # {} /\ IntLimit \in Nat \ {0, 1}
  /\ Sizes \subseteq (0 .. 2 * IntLimit - 1) \X (0 .. 2 * IntLimit - 1)
  /\ NumLangs \subseteq 0 .. 2 * IntLimit - 1
  /\ NoThread \notin Threads
  /\ MaxCalls \in Nat /\ MaxFound \in 0 .. IntLimit - 1
  /\ MaxConstructions >= MaxCalls

VARIABLES
  gil,        \* the thread that holds the GIL
  alive,      \* has no check ended the process?
  pc,         \* for every thread: its place in a call
  call,       \* ... the call
  ident,      \* ... the identifier it uses; 0 is none
  found,      \* ... the languages in its text, best first
  results,    \* ... what C++ returned and the loop has not taken yet
  out,        \* ... the predictions built
  model,      \* for every object: its identifier, 0 before __init__
  heap,       \* the identifiers that are allocated
  made,       \* the number of identifiers allocated so far
  calls,      \* the number of calls made so far
  lost        \* history: identifiers that the code lets go without deleting

bvars == <<gil, alive, pc, call, ident, found, results, out, model, heap, made,
           calls, lost>>

kUnknown == "und"

\* An unsigned int where C++ wants an int.
ToInt(u) == IF u < IntLimit THEN u ELSE u - 2 * IntLimit

\* What the checks of the constructor accept, as ints.
SizesHold(sizes) ==
  LET min_num_bytes == ToInt(sizes[1])
      max_num_bytes == ToInt(sizes[2])
  IN /\ max_num_bytes > 0 /\ min_num_bytes >= 0
     /\ min_num_bytes < max_num_bytes

Texts == {"empty", "surrogate", "good"}

\* The method takes num_langs as an int: Python refuses one that does not fit.
Calls ==
       [fn : {"get_language"}, text : Texts, sizes : Sizes]
  \cup [fn : {"get_frequent_languages"}, text : Texts, sizes : Sizes, n : NumLangs]
  \cup [fn : {"__init__"}, object : Objects, sizes : Sizes]
  \cup [fn : {"method_get_language"}, object : Objects, text : Texts]
  \cup [fn : {"method_get_frequent_languages"}, object : Objects, text : Texts,
        n : {u \in NumLangs : ToInt(u) = u}]

NoCall == [fn |-> "none"]

IsFunction(c) == c.fn \in {"get_language", "get_frequent_languages"}
FindsOne(c) == c.fn \in {"get_language", "method_get_language"}
HasObject(c) == c.fn \in {"__init__", "method_get_language", "method_get_frequent_languages"}

\* The languages of a text: the best ones, each once.
Rankings == {s \in SeqOf(Languages, MaxFound) : IsInjective(s)}

minint(a, b) == IF a < b THEN a ELSE b

Padding(n) == [i \in 1 .. n |-> kUnknown]

\* An int less a size_t, stored as an int again (LanguageIdentifier).
PaddingSize(num_langs, size) ==
  LET difference == num_langs - size
  IN IF difference < -IntLimit THEN difference + 2 * IntLimit ELSE difference

\* What C++ returns: FindLanguage one result, FindTopN exactly num_langs.
Answer(c, ranking) ==
  LET num_langs == IF FindsOne(c) THEN 1 ELSE ToInt(c.n)
  IN SubSeq(ranking, 1, minint(num_langs, Len(ranking)))
       \o Padding(PaddingSize(num_langs, Len(ranking)))

-----------------------------------------------------------------------------
Init ==
  /\ RInit
  /\ gil = NoThread /\ alive = TRUE
  /\ pc = [t \in Threads |-> "idle"]
  /\ call = [t \in Threads |-> NoCall]
  /\ ident = [t \in Threads |-> 0]
  /\ found = [t \in Threads |-> <<>>]
  /\ results = [t \in Threads |-> <<>>]
  /\ out = [t \in Threads |-> <<>>]
  /\ model = [o \in Objects |-> 0]
  /\ heap = {} /\ made = 0 /\ calls = 0 /\ lost = {}

Runs(t, place) == alive /\ gil = t /\ pc[t] = place

Proceeds(t, place) == pc' = [pc EXCEPT ![t] = place]

\* A thread calls from Python; a method only of an object that is constructed.
Call(t) ==
  /\ alive /\ gil = NoThread /\ pc[t] = "idle" /\ calls < MaxCalls
  /\ \E c \in Calls :
       /\ HasObject(c) /\ c.fn # "__init__" => model[c.object] # 0
       /\ call' = [call EXCEPT ![t] = c]
       /\ Proceeds(t, IF c.fn = "__init__" THEN "new" ELSE "text")
  /\ gil' = t /\ calls' = calls + 1
  /\ UNCHANGED <<rvars, alive, ident, found, results, out, model, heap, made, lost>>

\* if not text: return
CheckText(t) ==
  /\ Runs(t, "text")
  /\ Proceeds(t, IF call[t].text = "empty" THEN "returned"
                 ELSE IF IsFunction(call[t]) THEN "new" ELSE "find")
  /\ UNCHANGED <<rvars, gil, alive, call, ident, found, results, out, model, heap,
                 made, calls, lost>>

\* new NNetLanguageIdentifier(min_bytes, max_bytes): a check ends the process.
New(t) ==
  /\ Runs(t, "new")
  /\ \/ /\ SizesHold(call[t].sizes)
        /\ Begin(t) /\ Proceeds(t, "construct")
        /\ UNCHANGED alive
     \/ /\ ~SizesHold(call[t].sizes)
        /\ alive' = FALSE
        /\ UNCHANGED <<rvars, pc>>
  /\ UNCHANGED <<gil, call, ident, found, results, out, model, heap, made, calls, lost>>

InConstructor(t) ==
  /\ Runs(t, "construct")
  /\ Construct(t)
  /\ UNCHANGED bvars

\* __init__ stores the identifier in the object, over the one it may have.
Constructed(t) ==
  /\ Runs(t, "construct")
  /\ End(t)
  /\ made' = made + 1
  /\ heap' = heap \cup {made'}
  /\ \/ /\ HasObject(call[t])
        /\ model' = [model EXCEPT ![call[t].object] = made']
        /\ lost' = lost \cup ({model[call[t].object]} \ {0})
        /\ Proceeds(t, "returned")
        /\ UNCHANGED ident
     \/ /\ IsFunction(call[t])
        /\ ident' = [ident EXCEPT ![t] = made']
        /\ Proceeds(t, "find")
        /\ UNCHANGED <<model, lost>>
  /\ UNCHANGED <<gil, alive, call, found, results, out, calls>>

\* An exception that passes a function by between new and del.
Loses(t) ==
  /\ lost' = lost \cup ({ident[t]} \ {0})
  /\ ident' = [ident EXCEPT ![t] = 0]

\* FindLanguage or FindTopNMostFreqLangs, once the text is encoded.
Find(t) ==
  /\ Runs(t, "find")
  /\ \/ /\ call[t].text = "surrogate"
        /\ Loses(t) /\ Proceeds(t, "raised")
        /\ UNCHANGED <<found, results>>
     \/ /\ call[t].text = "good"
        /\ \E ranking \in Rankings :
             /\ found' = [found EXCEPT ![t] = ranking]
             /\ results' = [results EXCEPT ![t] = Answer(call[t], ranking)]
        /\ Proceeds(t, "take")
        /\ UNCHANGED <<ident, lost>>
  /\ UNCHANGED <<rvars, gil, alive, call, out, model, heap, made, calls>>

\* Mutant: kUnknown is not filtered out.
TakeAny(t) ==
  /\ Runs(t, "take") /\ results[t] # <<>>
  /\ Proceeds(t, "build")
  /\ UNCHANGED <<rvars, gil, alive, call, ident, found, results, out, model, heap,
                 made, calls, lost>>

\* if res.language != kUnknown: a prediction is to be built
Take(t) ==
  /\ Runs(t, "take") /\ results[t] # <<>>
  /\ \/ /\ Head(results[t]) = kUnknown
        /\ results' = [results EXCEPT ![t] = Tail(@)]
        /\ UNCHANGED pc
     \/ /\ Head(results[t]) # kUnknown
        /\ Proceeds(t, "build")
        /\ UNCHANGED results
  /\ UNCHANGED <<rvars, gil, alive, call, ident, found, out, model, heap, made,
                 calls, lost>>

Predicts(t) ==
  /\ out' = [out EXCEPT ![t] = Append(@, Head(results[t]))]
  /\ results' = [results EXCEPT ![t] = Tail(@)]
  /\ Proceeds(t, "take")

Deletes(t) ==
  /\ heap' = heap \ {ident[t]}
  /\ ident' = [ident EXCEPT ![t] = 0]

\* Mutant: get_language without its finally.
RaisesUnguarded(t) ==
  /\ Proceeds(t, "raised")
  /\ ident' = [ident EXCEPT ![t] = 0]
  /\ IF call[t].fn = "get_frequent_languages"
       THEN lost' = lost \cup {ident[t]} ELSE UNCHANGED lost
  /\ UNCHANGED <<heap, out, results>>

\* LanguagePrediction(...) is left by an exception: get_language deletes its
\* identifier in its finally, get_frequent_languages does not.
Raises(t) ==
  /\ Proceeds(t, "raised")
  /\ \/ call[t].fn = "get_language" /\ Deletes(t) /\ UNCHANGED lost
     \/ call[t].fn # "get_language" /\ Loses(t) /\ UNCHANGED heap
  /\ UNCHANGED <<out, results>>

\* LanguagePrediction(...) at one go, or with the GIL lost on the way
Build(t) ==
  /\ Runs(t, "build")
  /\ \/ Predicts(t) /\ UNCHANGED gil
     \/ gil' = NoThread /\ Proceeds(t, "yielded") /\ UNCHANGED <<out, results>>
  /\ UNCHANGED <<rvars, alive, call, ident, found, model, heap, made, calls, lost>>

\* With the GIL again it is built, or left by an exception.
Reacquire(t) ==
  /\ alive /\ gil = NoThread /\ pc[t] = "yielded"
  /\ gil' = t
  /\ \/ Predicts(t) /\ UNCHANGED <<ident, heap, lost>>
     \/ Raises(t)
  /\ UNCHANGED <<rvars, alive, call, found, model, made, calls>>

\* An exception that comes before the GIL is lost.
Interrupt(t) ==
  /\ Runs(t, "build") /\ Raises(t)
  /\ UNCHANGED <<rvars, gil, alive, call, found, model, made, calls>>

\* The loop is over, or the one result is taken: del ident.
Finish(t) ==
  /\ Runs(t, "take") /\ results[t] = <<>>
  /\ Deletes(t) /\ Proceeds(t, "returned")
  /\ UNCHANGED <<rvars, gil, alive, call, found, results, out, model, made, calls, lost>>

\* The call is over: its caller has the result or the exception.
Leave(t) ==
  /\ Runs(t, "returned") \/ Runs(t, "raised")
  /\ Proceeds(t, "idle") /\ gil' = NoThread
  /\ call' = [call EXCEPT ![t] = NoCall]
  /\ found' = [found EXCEPT ![t] = <<>>]
  /\ results' = [results EXCEPT ![t] = <<>>]
  /\ out' = [out EXCEPT ![t] = <<>>]
  /\ UNCHANGED <<rvars, alive, ident, model, heap, made, calls, lost>>

\* An object that nobody uses is collected.  It has no __dealloc__.
Collect(o) ==
  /\ alive /\ gil = NoThread /\ model[o] # 0
  /\ \A t \in Threads : HasObject(call[t]) => call[t].object # o
  /\ model' = [model EXCEPT ![o] = 0]
  /\ lost' = lost \cup {model[o]}
  /\ UNCHANGED <<rvars, gil, alive, pc, call, ident, found, results, out, heap, made, calls>>

Step(t) ==
  \/ CheckText(t) \/ New(t) \/ InConstructor(t) \/ Constructed(t) \/ Find(t)
  \/ Take(t) \/ Build(t) \/ Interrupt(t) \/ Finish(t) \/ Leave(t)

Next ==
  \/ \E t \in Threads : Call(t) \/ Step(t) \/ Reacquire(t)
  \/ \E o \in Objects : Collect(o)

\* A thread with the GIL runs, and one that waits for it gets it: CPython makes
\* the holder hand it over.
Fairness == \A t \in Threads : WF_<<rvars, bvars>>(Step(t)) /\ SF_<<rvars, bvars>>(Reacquire(t))

Spec == Init /\ [][Next]_<<rvars, bvars>> /\ Fairness

-----------------------------------------------------------------------------
(* Properties *)

\* The identifiers that a call or an object has.
Used == ({ident[t] : t \in Threads} \cup {model[o] : o \in Objects}) \ {0}

\* Nothing uses an identifier that was deleted, no two share one, none is
\* deleted twice, and none is forgotten other than where an exception passes
\* a function by, __init__ runs again or an object is collected
\* (pycld3.pyx:74, 195-214 and 259-280).
Accounted ==
  /\ heap = Used \cup lost
  /\ Used \cap lost = {}
  /\ \A t, u \in Threads : ident[t] # 0 =>
       /\ ident[t] \notin Items(model) /\ (ident[u] = ident[t] => u = t)

\* A call that returns has what its own text holds: the best num_langs
\* languages, fewer when fewer were found and never the unknown one, whichever
\* threads ran in between (pycld3.pyx:134-136, 152-162 and 266-280).
ReturnsFound ==
  \A t \in Threads : pc[t] = "returned" /\ call[t].fn # "__init__" =>
    LET num_langs == IF FindsOne(call[t]) THEN 1 ELSE call[t].n
    IN out[t] = SubSeq(found[t], 1, minint(num_langs, Len(found[t])))

\* Every call comes back to its caller, unless a check ends the process: no
\* thread waits for a registrar that another one has under construction while
\* it waits for the GIL (nnet_language_identifier.cc:140-155).
CallReturns ==
  \A t \in Threads : pc[t] # "idle" ~> (pc[t] = "idle" \/ ~alive)

\* Under the GIL the constructions are what Registry wants of them: nobody
\* constructs beside the first construction, though nothing here says so.
Serial == INSTANCE Registry WITH FirstAlone <- TRUE

SerialConstructions == Serial!RSpec
=============================================================================
