----------------------------- MODULE MCChatRelay -----------------------------
(* Two servers of a cluster with three players: a1 and a2 on one, b1 on the *)
(* other. Group "low" stands above "high" in the file.                      *)
EXTENDS ChatRelay

Open   == [disabled |-> FALSE, braces |-> TRUE]
Closed == [disabled |-> TRUE, braces |-> TRUE]
Broken == [disabled |-> FALSE, braces |-> FALSE]

MCServerOf == [p \in {"a1", "a2", "b1"} |-> IF p = "b1" THEN "s2" ELSE "s1"]
MCGroupsOf == [a1 |-> <<"high", "low">>, a2 |-> <<"low", "high">>, b1 |-> <<"low">>]

File(name, replace, low, high, players) ==
  [hasDefault |-> TRUE, replaceLocal |-> replace, serverName |-> name, default |-> Open,
   players |-> players,
   groups |-> <<[key |-> "low", settings |-> low], [key |-> "high", settings |-> high]>>]

(* Both players of s1 are muted by their higher group, a2 then by name      *)
(* allowed to speak; b1 may speak but its format is broken on s1.           *)
Shared(name, replace) ==
  File(name, replace, Broken, Closed, <<[key |-> "a2", settings |-> Open]>>)

Plain(name, replace) == File(name, replace, Open, Open, << >>)

(* Server s1 has no name in the server manager's profile.                   *)
MCProfile == [s1 |-> NoName, s2 |-> "two"]

MCStart == [s1 |-> {Shared("one", FALSE)}, s2 |-> {Plain("two", FALSE)}]

(* A reload of this one mutes a1 and b1, lets a1's groups be found twice,   *)
(* makes s2 a server of the same name, and switches ReplaceLocalMessage.    *)
Twice == [File("one", TRUE, Closed, Open, <<[key |-> "a2", settings |-> Open]>>)
            EXCEPT !.groups = <<[key |-> "high", settings |-> Open]>> \o @]

(* The other has no name: s1 refuses it.                                    *)
MCFiles == {Twice, Plain(NoName, FALSE)}

(* Of the reloads only those are taken that the promise of ChatBoard is     *)
(* kept under.                                                              *)
SettledStep == ReloadsSettled'

NoFiles == {}

ReachStart == [s1 |-> {Shared("one", FALSE), Plain("one", TRUE)},
               s2 |-> {Shared("two", FALSE), Plain("one", FALSE)}]

MutedStart == [s1 |-> {Shared("one", FALSE), Shared("one", TRUE)}, s2 |-> {Plain("two", FALSE)}]
=============================================================================
