---------------------------- MODULE SigmaImport ----------------------------
(***************************************************************************)
(* The import of Sigma rules (rules/sigma.rs): translation of a document   *)
(* into a native rule, next to what the document means.  A document is     *)
(*   [id, category, selections, condition]                                 *)
(* where selections maps a name to a set of items, or to NotMapping (a     *)
(* list of keywords or of maps); an item is [field, modifier, value]; and  *)
(* condition is [form, names]: the name of one selection, "all of" or      *)
(* "1 of" names or Star, or an expression of and, or, not.                 *)
(***************************************************************************)
EXTENDS Rules

CONSTANT NotMapping

Star == <<"*">>

FieldMap == [Image |-> "comm", ParentImage |-> "parent_comm", CommandLine |-> "path",
             DestinationPort |-> "dst_port", EventID |-> "kind"]
KindMap == [process_creation |-> "exec", network_connection |-> "connect",
            file_event |-> "open"]
OpMap == [endswith |-> "suffix", startswith |-> "prefix", contains |-> "contains", re |-> "regex"]

MapOp(modifier) == IF modifier \in DOMAIN OpMap THEN OpMap[modifier] ELSE "eq"

\* sigma_image_to_comm
ImageToComm(text, op) == IF op = "regex" THEN text ELSE BaseName(text)

Normalize(value, field, op) ==
  IF value.type = "text" /\ field \in {"comm", "parent_comm"}
    THEN Text(ImageToComm(value.of, op)) ELSE value

\* map_sigma_field: an item with an unsupported field is dropped without a word.
Supported(items) == {i \in items : i.field \in DOMAIN FieldMap}
Conditions(items) ==
  {LET op == MapOp(i.modifier) IN
   [field |-> FieldMap[i.field], op |-> op, value |-> Normalize(i.value, FieldMap[i.field], op)]
     : i \in Supported(items)}

\* The selections that have a condition left.
Usable(doc) == {name \in DOMAIN doc.selections :
                  doc.selections[name] # NotMapping /\ Supported(doc.selections[name]) # {}}

\* parse_of_list
OfList(names) == IF names = Star THEN {"selection"} ELSE ToSet(names)

\* build_condition_group: {} is an error.
Group(doc) ==
  LET named == OfList(doc.condition.names) \cap Usable(doc)
      conds == UNION {Conditions(doc.selections[name]) : name \in named}
  IN IF conds = {} \/ doc.condition.form = "expression"
       THEN {}
       ELSE {[of |-> IF doc.condition.form = "one of" THEN "any" ELSE "all", conds |-> conds]}

\* Mutant of KindCondition: the category itself is asked for.
KindConditionRaw(doc) ==
  IF doc.category \in DOMAIN KindMap
    THEN {[field |-> "kind", op |-> "eq", value |-> Text(<<doc.category>>)]} ELSE {}

\* logsource_kind
KindCondition(doc) ==
  IF doc.category \in DOMAIN KindMap
    THEN {[field |-> "kind", op |-> "eq", value |-> Text(<<KindMap[doc.category]>>)]} ELSE {}

\* Mutant of Translate: the kind joins an any group as one more alternative.
TranslateKeepsAny(doc) ==
  {[id |-> "sigma-" \o doc.id, enabled |-> TRUE,
    group |-> [of |-> g.of, conds |-> g.conds \union KindCondition(doc)]] : g \in Group(doc)}

\* translate_sigma: with a kind every group becomes an all group.
Translate(doc) ==
  {[id |-> "sigma-" \o doc.id, enabled |-> TRUE,
    group |-> [of    |-> IF KindCondition(doc) # {} THEN "all" ELSE g.of,
               conds |-> g.conds \union KindCondition(doc)]] : g \in Group(doc)}

-----------------------------------------------------------------------------
(* What a document means, by the rules of Sigma: the items of a selection  *)
(* are all required, of a list of values one, texts are compared without   *)
(* regard to case, and an image is a whole path.  CommandLine is the path  *)
(* of the event, as the README's table of fields has it.                   *)

TrueTexts(o, field) ==
  CASE field = "Image"       -> {o.image}
    [] field = "ParentImage" -> {o.parent}
    [] field = "User"        -> {Numeral(o.uid)}
    [] field = "EventID"     -> {Numeral(CASE o.kind = "exec" -> 1 [] o.kind = "connect" -> 3
                                           [] OTHER -> 11)}
    [] OTHER                 -> Field(Event(o), FieldMap[field])

Values(value) ==
  CASE value.type = "list" -> value.of
    [] value.type = "number" -> {Numeral(n) : n \in {value.of} \cap Nat}
    [] OTHER -> {value.of}

\* The modifier contains|all, like every chain of modifiers, is none the import knows.
ItemMeans(item, o) ==
  LET op == IF item.modifier = "contains|all" THEN "contains" ELSE MapOp(item.modifier)
      met(text, s) == IF op = "eq" THEN text = s ELSE Compare(op, text, s)
      values == {Lowercase(s) : s \in Values(item.value)}
  IN \E text \in {Lowercase(t) : t \in TrueTexts(o, item.field)} :
       IF item.modifier = "contains|all" THEN \A s \in values : met(text, s)
                                         ELSE \E s \in values : met(text, s)

SelectionMeans(items, o) == items # NotMapping /\ \A i \in items : ItemMeans(i, o)

Named(doc) == IF doc.condition.names = Star THEN DOMAIN doc.selections
                                            ELSE ToSet(doc.condition.names)

Means(doc, o) ==
  /\ doc.category # "none" =>
       doc.category \in DOMAIN KindMap /\ KindMap[doc.category] = o.kind
  /\ LET met(name) == name \in DOMAIN doc.selections /\ SelectionMeans(doc.selections[name], o)
     IN IF doc.condition.form = "one of" THEN \E name \in Named(doc) : met(name)
                                         ELSE \A name \in Named(doc) : met(name)

-----------------------------------------------------------------------------
(* Where the import is known to differ.                                    *)

IsImage(item) == item.field \in {"Image", "ParentImage"}
HasSlash(item) == \E s \in Values(item.value) : Within(s, <<Slash>>)
HasCapitals(text) == text # Lowercase(text)

\* An item that may ask for more than it means: a list; a chain of modifiers,
\* which is taken for none; a number to be found in a text; an EventID, which
\* is compared with the name of the kind; capitals in the value or in the event,
\* but for equality; and an image that is asked for anything but its end.
Stricter(item, o) ==
  \/ item.value.type = "list"
  \/ item.modifier = "contains|all"
  \/ item.value.type = "number" /\ item.modifier # "none"
  \/ item.field = "EventID"
  \/ /\ item.modifier # "none"
     /\ \E text \in Values(item.value) \union TrueTexts(o, item.field) : HasCapitals(text)
  \/ IsImage(item) /\ item.modifier \in {"startswith", "contains", "re"}

\* An item that may ask for less: an unsupported field asks for nothing; a
\* negative number is cast; an EventID may be the name of a kind; of an image only
\* the name behind the last slash is kept, and compared with a name.
Laxer(item) ==
  \/ item.field \notin DOMAIN FieldMap
  \/ item.value.type = "number" /\ item.value.of < 0
  \/ item.field = "EventID" /\ item.value.type = "text"
  \/ /\ IsImage(item)
     /\ HasSlash(item) \/ item.modifier \notin {"endswith", "contains", "re", "contains|all"}

\* A selection that is left out, or a star that stands for one name only.
Incomplete(doc) == doc.condition.names = Star \/ ~ (Named(doc) \subseteq Usable(doc))

Used(doc) == OfList(doc.condition.names) \cap Usable(doc)
Items(doc) == UNION {doc.selections[name] : name \in Used(doc)}

AlternativesFlattened(doc) ==
  /\ doc.condition.form = "one of"
  /\ KindCondition(doc) # {}
  /\ \E m, n \in Used(doc) : m # n

RequirementsSplit(doc) ==
  /\ doc.condition.form = "one of"
  /\ KindCondition(doc) = {}
  /\ \E n \in Used(doc) : \E i, k \in doc.selections[n] : i # k

MayMiss(doc, o) ==
  \/ \E i \in Items(doc) : Stricter(i, o)
  \/ doc.condition.form = "one of" /\ Incomplete(doc)
  \/ AlternativesFlattened(doc)

MayExceed(doc) ==
  \/ \E i \in Items(doc) : Laxer(i)
  \/ doc.condition.form = "all of" /\ Incomplete(doc)
  \/ doc.category \notin DOMAIN KindMap \union {"none"}
  \/ RequirementsSplit(doc)
=============================================================================
