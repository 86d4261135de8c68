------------------------------ MODULE MCStartup -----------------------------
(* Three slices: paths and opens with no rules, native rules, Sigma documents. *)
EXTENDS Startup, TLC

MCBytes == {"a", "b"}
MCNames == UNION {[1..n -> MCBytes] : n \in 0..3}
MCPathLists == {<<>>} \union {<<p>> : p \in MCNames}
  \union {<<p, q>> : p \in {<<>>, <<"a", "b">>}, q \in {<<"b">>, <<"b", "a", "a">>}}
  \union {<< <<"b">>, <<"b", "b", "a">>, <<"a">> >>}
MCDefaultPaths == << <<"a", "b">> >>
MCConfigs == MCPathLists \ {<<>>}

MCDigits == [n \in 0..11 |-> ToString(n)]
MCUpper == ("NC" :> "nc")
MCNotRegexes == {<<"[">>}

Nc == <<"/", "nc">>
RsyNc == <<"/", "tmp", "/", "rsy", "nc">>
Sh == <<"/", "nc", "/", "sh">>
NC == <<"/", "tmp", "/", "NC">>

Occurrence(kind, image, parent, path, uid, port) ==
  [kind |-> kind, image |-> image, parent |-> parent, path |-> path, uid |-> uid, port |-> port]
MCOccurrences ==
  {Occurrence("exec", i, p, i, u, 0) : i \in {Nc, RsyNc, Sh}, p \in {Nc, Sh}, u \in {0, 4}}
  \union {Occurrence("open", i, Nc, f, 0, 0) : i \in {Nc, RsyNc, Sh}, f \in {RsyNc, Sh}}
  \union {Occurrence("connect", i, Nc, <<>>, 0, n) : i \in {Nc, RsyNc, Sh}, n \in {0, 4, 11}}
  \union {Occurrence("exec", NC, p, NC, 0, 0) : p \in {Sh, NC}}
  \union {Occurrence("open", Nc, Sh, NC, 0, 0)}

Input(list, opens, native, sigma) ==
  [paths |-> list, opens |-> opens, native |-> native, sigma |-> sigma]

-----------------------------------------------------------------------------
Cond(field, op, value) == [field |-> field, op |-> op, value |-> value]
Conds == {Cond("kind", "eq", Text(<<"exec">>)), Cond("image", "eq", Text(<<"NC">>)),
          Cond("comm", "suffix", Text(<<"nc">>)), Cond("dst_port", "ne", Number(3)),
          Cond("uid", "gt", Number(-1)), Cond("uid", "gt", Number(3)),
          Cond("uid", "eq", Number(4)), Cond("filename", "regex", Text(<<"[">>)),
          Cond("path", "prefix", Text(<<"/", "tmp">>)), Cond("cmdline", "ne", Text(<<"sh">>))}
Sections == {[all |-> {c, d}] : c, d \in Conds} \union {[any |-> {c, d}] : c, d \in Conds}
  \union {[all |-> {c}, any |-> {Cond("comm", "suffix", Text(<<"nc">>))}] : c \in Conds}
File(id, on, section) == [id |-> id, enabled |-> on, section |-> section]
NativeInputs ==
  {<<File("r", TRUE, s)>> : s \in Sections}
  \union {<<File("r", on, [all |-> {c}]), File(id, TRUE, [any |-> {c}])>> :
            on \in BOOLEAN, id \in {"r", "sigma-x"}, c \in Conds}

-----------------------------------------------------------------------------
Item(field, modifier, value) == [field |-> field, modifier |-> modifier, value |-> value]
Texts == {<<"nc">>, Nc, <<"/", "NC">>, <<"/", "tmp", "/">>, <<"sh">>, Sh}
SingleItems ==
  {Item(f, m, Text(t)) : f \in {"Image", "CommandLine"}, t \in Texts,
                         m \in {"none", "endswith", "startswith", "contains", "re", "contains|all", "base64"}}
  \union {Item("Image", "endswith", List({Nc, <<"sh">>})), Item("CommandLine", "re", Text(<<"[">>)),
          Item("DestinationPort", "none", Number(4)), Item("DestinationPort", "none", Text(<<"4">>)),
          Item("DestinationPort", "contains", Number(4)), Item("EventID", "none", Number(1)),
          Item("DestinationPort", "none", Number(-1)), Item("EventID", "none", Text(<<"exec">>)),
          Item("ParentImage", "none", Number(4)),
          Item("User", "none", Number(0))}
PairItems == {Item("Image", "endswith", Text(<<"nc">>)), Item("ParentImage", "endswith", Text(<<"sh">>)),
              Item("CommandLine", "startswith", Text(<<"/", "tmp">>)),
              Item("DestinationPort", "none", Number(4)), Item("User", "none", Number(0))}
Selections == {{i, j} : i, j \in PairItems}

Doc(category, selections, form, names) ==
  [id |-> "x", category |-> category, selections |-> selections,
   condition |-> [form |-> form, names |-> names]]
Docs ==
  {Doc(k, [selection |-> {i}], "name", <<"selection">>) :
     k \in {"none", "process_creation", "network_connection", "file_event", "dns_query"}, i \in SingleItems}
  \union {Doc(k, [selection |-> s, filter |-> f], form, names) :
     k \in {"none", "process_creation"}, s \in Selections, f \in Selections \union {NotMapping},
     form \in {"all of", "one of", "expression"}, names \in {<<"selection", "filter">>, Star}}

MCInputs ==
  {Input(list, MCNames, <<>>, <<>>) : list \in MCPathLists}
  \union {Input(<<>>, {}, native, <<>>) : native \in NativeInputs}
  \union {Input(<<>>, {}, <<>>, <<doc>>) : doc \in Docs}
  \union {Input(<<>>, {}, <<File("sigma-x", FALSE, [all |-> {c}])>>, <<doc, doc>>) :
            c \in Conds, doc \in {d \in Docs : d.category = "file_event"}}
  \union {Input(<<>>, {}, <<>>, <<d, e, d>>) : d, e \in
            {Doc("none", [selection |-> {i}], form, <<"selection">>) :
               i \in PairItems, form \in {"name", "expression"}}}
=============================================================================
