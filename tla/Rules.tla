-------------------------------- MODULE Rules -------------------------------
(***************************************************************************)
(* The native rules: what a rule file says, what serde makes of it, and    *)
(* which events it matches (rules/mod.rs, event.rs).  A text is a sequence *)
(* of symbols: a slash, a numeral, or a piece of a name; Lowercase folds   *)
(* the case of a symbol.  A Rust Option is a set of at most one element.   *)
(* A regular expression is one that matches a literal text: its search     *)
(* finds the text anywhere.                                                *)
(***************************************************************************)
EXTENDS Integers, Sequences, SequencesExt

CONSTANTS
  U64Max,       \* the largest u64
  Digits,       \* u64 -> the symbol that is its decimal numeral
  Upper,        \* symbols with capitals -> the same in lower case
  NotRegexes    \* the texts that are no regular expression

ASSUME NumeralAssumption ==
  U64Max \in Nat /\ \A m, n \in 0..U64Max : Digits[m] = Digits[n] => m = n

Slash == "/"

\* What a process does; a write to a monitored path is the event of an open again.
Kinds == {"exec", "connect", "open"}

\* A numeral is neither a slash nor a kind, and none of these is a capital or
\* becomes of one.
ASSUME SymbolAssumption ==
  LET numerals == {Digits[n] : n \in 0..U64Max} IN
  /\ numerals \cap (Kinds \union {Slash}) = {}
  /\ \A c \in DOMAIN Upper : /\ c \notin numerals \union Kinds \union {Slash}
                            /\ Upper[c] \notin numerals \union {Slash}

Lowercase(text) == [i \in DOMAIN text |->
                      IF text[i] \in DOMAIN Upper THEN Upper[text[i]] ELSE text[i]]

IsText(text) == text \in Seq(ToSet(text))

Within(text, needle) == needle \in SubSeqs(text)

\* The part behind the last slash: Path::file_name of an absolute path.
BaseName(text) ==
  SubSeq(text, SelectLastInSeq(text, LAMBDA c : c = Slash) + 1, Len(text))

Numeral(n) == <<Digits[n]>>
ParseU64(text) == {n \in 0..U64Max : text = Numeral(n)}

-----------------------------------------------------------------------------
(* Events.  An occurrence is what happens: a process whose executable is   *)
(* image, child of one whose executable is parent, executes, opens or      *)
(* connects.                                                               *)

\* Enricher::enrich: the name of an exec is taken from the path, of the others
\* from the task, which the kernel named after its executable (names are
\* shorter than TASK_COMM_LEN); an address or port of 0 is none.
Event(o) ==
  [kind        |-> <<o.kind>>,
   comm        |-> BaseName(IF o.kind = "exec" THEN o.path ELSE o.image),
   parent_comm |-> BaseName(o.parent),
   path        |-> o.path,
   uid         |-> Numeral(o.uid),
   dst_port    |-> IF o.port = 0 THEN {} ELSE {Numeral(o.port)}]

\* EnrichedEvent::field, with the names a condition may use for each field.
Alias == [image |-> "comm", parent_image |-> "parent_comm", filename |-> "path"]

Field(event, name) ==
  LET f == IF name \in DOMAIN Alias THEN Alias[name] ELSE name IN
  IF f \notin DOMAIN event THEN {} ELSE IF f = "dst_port" THEN event[f] ELSE {event[f]}

-----------------------------------------------------------------------------
(* Conditions.                                                             *)

Text(t)   == [type |-> "text", of |-> t]
Number(n) == [type |-> "number", of |-> n]
List(ts)  == [type |-> "list", of |-> ts]

\* value_as_str and value_as_u64: a negative number is cast.
AsStr(value) == IF value.type = "text" THEN {value.of} ELSE {}
AsU64(value) == IF value.type = "number" THEN {value.of % (U64Max + 1)} ELSE {}

ValuesEqual(text, value) ==
  \/ \E s \in AsStr(value) : Lowercase(text) = Lowercase(s)
  \/ \E n \in AsU64(value) : ParseU64(text) = {n}

\* Whether a text stands in the relation op to a value that is a text.
Compare(op, text, s) ==
  \/ op = "contains" /\ Within(text, s)
  \/ op = "prefix" /\ IsPrefix(s, text)
  \/ op = "suffix" /\ IsSuffix(s, text)
  \/ op = "regex" /\ Within(text, s)

\* A field the event has not got matches nothing, not even ne.
MatchCondition(cond, event) ==
  \E text \in Field(event, cond.field) :
    \/ cond.op = "eq" /\ ValuesEqual(text, cond.value)
    \/ cond.op = "ne" /\ ~ ValuesEqual(text, cond.value)
    \/ \E s \in AsStr(cond.value) : Compare(cond.op, text, s)
    \/ \E a \in ParseU64(text), b \in AsU64(cond.value) :
         (cond.op = "gt" /\ a > b) \/ (cond.op = "lt" /\ a < b)

-----------------------------------------------------------------------------
(* Rules.  A group is [of |-> "all" or "any", conds |-> set of conditions]; *)
(* a single condition is a group of one.                                   *)

\* The conditions section of a file may hold lists all, any or both; serde
\* takes the first variant of the untagged enum that fits, and drops the rest.
ParseGroup(section) ==
  IF "all" \in DOMAIN section THEN [of |-> "all", conds |-> section["all"]]
                              ELSE [of |-> "any", conds |-> section["any"]]

\* Mutant of MatchGroup: alternatives are all required.
MatchGroupAll(group, event) == \A c \in group.conds : MatchCondition(c, event)

MatchGroup(group, event) ==
  IF group.of = "any" THEN \E c \in group.conds : MatchCondition(c, event)
                      ELSE \A c \in group.conds : MatchCondition(c, event)

Compiles(group) ==
  \A c \in group.conds : c.op = "regex" => AsStr(c.value) \cap NotRegexes = {}

\* The positions of the rules that raise an alert; they raise it in this order.
Evaluate(rules, event) ==
  {i \in DOMAIN rules : rules[i].enabled /\ MatchGroup(rules[i].group, event)}

-----------------------------------------------------------------------------
(* What a condition and a section say.                                     *)

ConditionSays(cond, event) ==
  \E text \in Field(event, cond.field) :
    IF cond.value.type = "number"
      THEN LET n == cond.value.of IN
           \/ cond.op = "eq" /\ text = Numeral(n)
           \/ cond.op = "ne" /\ text # Numeral(n)
           \/ \E a \in ParseU64(text) : (cond.op = "gt" /\ a > n) \/ (cond.op = "lt" /\ a < n)
      ELSE MatchCondition(cond, event)

SectionSays(section, event) ==
  /\ "all" \in DOMAIN section => \A c \in section["all"] : ConditionSays(c, event)
  /\ "any" \in DOMAIN section => \E c \in section["any"] : ConditionSays(c, event)
=============================================================================
