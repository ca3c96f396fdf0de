------------------------------ MODULE MCPluginHost ------------------------------
(* Two plugins that share the command "/find". The file of one never        *)
(* changes; the other's lists one command or two, breaks after one, or      *)
(* cannot be read.                                                          *)
EXTENDS PluginHost

Lists(texts)  == [texts |-> texts, throws |-> FALSE]
Breaks(texts) == [texts |-> texts, throws |-> TRUE]

MCContents ==
  [suicide |-> {Lists(<<"/find">>)},
   finder  |-> {Lists(<<"/find">>), Lists(<<"/pull", "/find">>), Breaks(<<"/pull">>), Unreadable}]
=================================================================================
