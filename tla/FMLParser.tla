----------------------------- MODULE FMLParser -----------------------------
(***************************************************************************)
(* The parser of feature specifications (src/src/fml_parser.cc).           *)
(*                                                                         *)
(* A source is a sequence of items: what NextItem makes of the characters. *)
(* The descriptor is the sequence of its feature functions in the order in *)
(* which they are added, each with the number of the one it is nested in   *)
(* (0 for none).  The recursion of ParseFeature is a stack.  The checks of *)
(* the parser are void in a release build.                                 *)
(***************************************************************************)
EXTENDS Integers, SequencesExt

VARIABLES
  source,      \* source_
  current,     \* the number of the current item
  descriptor,  \* the feature functions read so far
  calls,       \* the calls of ParseFeature under way, the innermost last
  pc

pvars == <<source, current, descriptor, calls, pc>>

Texted == {"NAME", "NUMBER", "STRING"}

Item(type, text) == [type |-> type, text |-> text]
Sign(type) == Item(type, "")

ItemType(i) == IF i > Len(source) THEN "END" ELSE source[i].type

\* item_text_ at item i: signs leave it alone.
ItemText(i) ==
  LET texted == {j \in 1 .. i : ItemType(j) \in Texted}
  IN IF texted = {} THEN "" ELSE source[Max(texted)].text

\* current after n more NextItem(): the end of the input stays the item.
After(n) == IF current + n > Len(source) THEN Len(source) + 1 ELSE current + n

\* The innermost call, and the feature function it fills in.
Top == calls[Len(calls)]

NewFunction(type, parent) ==
  [type |-> type, name |-> "", argument |-> 0, parameters |-> <<>>, parent |-> parent]

\* add_feature(), set_type(), and the call of ParseFeature on it.
AddFeature(type, parent) ==
  /\ descriptor' = Append(descriptor, NewFunction(type, parent))
  /\ calls' = Append(calls, [function |-> Len(descriptor) + 1, block |-> FALSE])
  /\ pc' = "feature"

-----------------------------------------------------------------------------
Initialize(s) ==
  /\ source = s /\ current = 1
  /\ descriptor = <<>> /\ calls = <<>> /\ pc = "parse"

\* One turn of the loop of Parse.
ParseNext ==
  /\ pc = "parse" /\ ItemType(current) # "END"
  /\ AddFeature(ItemText(current), 0)
  /\ current' = After(1)
  /\ UNCHANGED source

ParseEnd ==
  /\ pc = "parse" /\ ItemType(current) = "END"
  /\ pc' = "parsed"
  /\ UNCHANGED <<source, current, descriptor, calls>>

\* ParseFeature: is there a list of parameters?
ParseFeature ==
  /\ pc = "feature"
  /\ \/ ItemType(current) = "(" /\ current' = After(1) /\ pc' = "parameter"
     \/ ItemType(current) # "(" /\ UNCHANGED current /\ pc' = "name"
  /\ UNCHANGED <<source, descriptor, calls>>

ParseParameter ==
  /\ pc = "parameter" /\ pc' = "parameters"
  /\ \/ /\ ItemType(current) = "NUMBER"
        /\ descriptor' = [descriptor EXCEPT ![Top.function].argument = ItemText(current)]
        /\ current' = After(1)
     \/ /\ ItemType(current) # "NUMBER"
        /\ descriptor' = [descriptor EXCEPT ![Top.function].parameters =
                            Append(@, <<ItemText(current), ItemText(After(2))>>)]
        /\ current' = After(3)
  /\ UNCHANGED <<source, calls>>

\* Another parameter, or the bracket that closes the list.
ParseParameters ==
  /\ pc = "parameters"
  /\ pc' = (IF ItemType(current) = "," THEN "parameter" ELSE "name")
  /\ current' = After(1)
  /\ UNCHANGED <<source, descriptor, calls>>

ParseName ==
  /\ pc = "name" /\ pc' = "subfeatures"
  /\ \/ /\ ItemType(current) = ":"
        /\ descriptor' = [descriptor EXCEPT ![Top.function].name = ItemText(After(1))]
        /\ current' = After(2)
     \/ ItemType(current) # ":" /\ UNCHANGED <<descriptor, current>>
  /\ UNCHANGED <<source, calls>>

\* A dotted sub-feature, a block of them, or none.
ParseSubfeatures ==
  /\ pc = "subfeatures"
  /\ \/ /\ ItemType(current) = "."
        /\ AddFeature(ItemText(After(1)), Top.function)
        /\ current' = After(2)
     \/ /\ ItemType(current) = "{"
        /\ calls' = [calls EXCEPT ![Len(calls)].block = TRUE]
        /\ current' = After(1) /\ pc' = "block"
        /\ UNCHANGED descriptor
     \/ /\ ItemType(current) \notin {".", "{"}
        /\ pc' = "return"
        /\ UNCHANGED <<current, descriptor, calls>>
  /\ UNCHANGED source

\* Mutant: the closing brace is left for the caller.
ParseBlockOpen ==
  /\ pc = "block"
  /\ \/ /\ ItemType(current) # "}"
        /\ AddFeature(ItemText(current), Top.function)
        /\ current' = After(1)
     \/ /\ ItemType(current) = "}"
        /\ pc' = "return"
        /\ UNCHANGED <<current, descriptor, calls>>
  /\ UNCHANGED source

\* One turn of the loop over a block, which nothing but a brace ends.
ParseBlock ==
  /\ pc = "block"
  /\ \/ /\ ItemType(current) # "}"
        /\ AddFeature(ItemText(current), Top.function)
        /\ current' = After(1)
     \/ /\ ItemType(current) = "}"
        /\ current' = After(1) /\ pc' = "return"
        /\ UNCHANGED <<descriptor, calls>>
  /\ UNCHANGED source

\* ParseFeature returns: to Parse, to the loop over a block, or to a call that
\* returns behind its dotted sub-feature.
Return ==
  /\ pc = "return"
  /\ calls' = Front(calls)
  /\ pc' = (IF Len(calls) = 1 THEN "parse"
            ELSE IF calls[Len(calls) - 1].block THEN "block" ELSE "return")
  /\ UNCHANGED <<source, current, descriptor>>

Parse ==
  \/ ParseNext \/ ParseEnd \/ ParseFeature \/ ParseParameter \/ ParseParameters
  \/ ParseName \/ ParseSubfeatures \/ ParseBlock \/ Return

-----------------------------------------------------------------------------
(* The grammar of fml_parser.h, as what may be written for a descriptor d.  *)

\* A forest of functions: each behind the one it is nested in, and all that are
\* nested in one behind it before any other (the order in which they are read).
IsForest(d) ==
  /\ d \in Seq(ToSet(d))
  /\ \A i \in DOMAIN d :
       /\ d[i] = [type |-> d[i].type, name |-> d[i].name, argument |-> d[i].argument,
                  parameters |-> [j \in DOMAIN d[i].parameters |->
                                    <<d[i].parameters[j][1], d[i].parameters[j][2]>>],
                  parent |-> d[i].parent]
       /\ d[i].parameters \in Seq(ToSet(d[i].parameters))
       /\ d[i].parent \in 0 .. i - 1
       /\ \A j \in d[i].parent + 1 .. i - 1 : d[j].parent >= d[i].parent

Nested(d, i) == {j \in DOMAIN d : d[j].parent = i}

\* The functions nested in function i (or in none, for 0), in their order.
Children(d, i) ==
  CHOOSE c \in [1 .. Cardinality(Nested(d, i)) -> Nested(d, i)] :
    \A k, m \in DOMAIN c : k < m => c[k] < c[m]

\* The items between signs, e.g. the parameters of a list.
Separated(parts, sign) ==
  FlattenSeq([i \in DOMAIN parts |-> IF i = 1 THEN parts[i] ELSE <<Sign(sign)>> \o parts[i]])

\* <parameter list>: the argument, then the parameters, with values of some types.
ParameterList(f, types) ==
  LET argument == IF f.argument = 0 THEN <<>> ELSE << <<Item("NUMBER", f.argument)>> >>
      parameters == [j \in DOMAIN f.parameters |->
                       <<Item("NAME", f.parameters[j][1]), Sign("="),
                         Item(types[j], f.parameters[j][2])>>]
  IN IF argument \o parameters = <<>> THEN <<>>
     ELSE <<Sign("(")>> \o Separated(argument \o parameters, ",") \o <<Sign(")")>>

\* <extractor spec>.  "how" says what the grammar leaves to the writer: the
\* types of the values and of the name, and whether an only sub-feature is
\* behind a dot or in a block.
ExtractorSpec(f, how) ==
  <<Item("NAME", f.type)>> \o ParameterList(f, how.values)
    \o (IF f.name = "" THEN <<>> ELSE <<Sign(":"), Item(how.name, f.name)>>)

Hows(d) ==
  {how \in [DOMAIN d -> [name : {"NAME", "STRING"}, dotted : BOOLEAN, values : Seq(Texted)]] :
     \A i \in DOMAIN d : Len(how[i].values) = Len(d[i].parameters)}

\* A function and its sub-features, which are written as subs.
WithSubfeatures(f, how, subs) ==
  ExtractorSpec(f, how) \o
    CASE Len(subs) = 0 -> <<>>
      [] Len(subs) = 1 /\ how.dotted -> <<Sign(".")>> \o subs[1]
      [] OTHER -> <<Sign("{")>> \o FlattenSeq(subs) \o <<Sign("}")>>

\* What is written for each function of d, its sub-features included.
FunctionsWritten(d, how) ==
  LET all[i \in DOMAIN d] ==
        WithSubfeatures(d[i], how[i],
                        [k \in DOMAIN Children(d, i) |-> all[Children(d, i)[k]]])
  IN all

Written(d, how) ==
  FlattenSeq([k \in DOMAIN Children(d, 0) |-> FunctionsWritten(d, how)[Children(d, 0)[k]]])

\* All functions written alike.
Alike(d, valuetype, dotted) ==
  [i \in DOMAIN d |-> [name |-> "NAME", dotted |-> dotted,
                       values |-> [j \in DOMAIN d[i].parameters |-> valuetype]]]

\* ToFML leaves the names out.
Unnamed(d) == [i \in DOMAIN d |-> [d[i] EXCEPT !.name = ""]]

ToFML(d) == Written(Unnamed(d), Alike(d, "STRING", TRUE))
=============================================================================
