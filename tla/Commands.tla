-------------------------------- MODULE Commands --------------------------------
(****************************************************************************)
(* A vector of commands of the framework (Commands.h). An entry pairs the   *)
(* command's text with a callback, here the plugin whose code that is. The  *)
(* chat and the console commands are one vector each.                       *)
(****************************************************************************)
EXTENDS Naturals, Sequences, SequencesExt

(* The first entry with that text, the one CheckCommands calls and          *)
(* RemoveCommand erases.                                                    *)
Has(vec, text) == \E i \in DOMAIN vec : vec[i].text = text

First(vec, text) ==
  CHOOSE i \in DOMAIN vec :
    vec[i].text = text /\ \A j \in DOMAIN vec : vec[j].text = text => i <= j

(* Add...Command: the entry goes to the back, whatever is there already.    *)
AddCommand(vec, text, owner) == Append(vec, [text |-> text, owner |-> owner])

(* Mutant: erase from the entry found to the end.                           *)
MutErasesTail(vec, text) == IF Has(vec, text) THEN SubSeq(vec, 1, First(vec, text) - 1) ELSE vec

RemoveCommand(vec, text) == IF Has(vec, text) THEN RemoveAt(vec, First(vec, text)) ELSE vec

(* The loops in the plugins' Load, UnLoad and Reload.                       *)
AddAll(vec, texts, owner) == vec \o [i \in DOMAIN texts |-> [text |-> texts[i], owner |-> owner]]

RemoveAll(vec, texts) ==
  LET left[n \in 0..Len(texts)] ==
        IF n = 0 THEN vec ELSE RemoveCommand(left[n - 1], texts[n])
  IN  left[Len(texts)]
=================================================================================
