---------------------------- MODULE MCCommandRun ----------------------------
(***************************************************************************)
(* Every command line with one configuration, every mapping of two chats   *)
(* with one search, and every small search of one chat.                    *)
(***************************************************************************)
EXTENDS CommandRun

\* "a" and "A" differ in case only; "x" is a link's target, ".." no file name.
SomeNames == {"a", "A", "b", "x", ".."}

FoldCase == [n \in SomeNames |-> IF n = "A" THEN "a" ELSE n]

\* Two spellings of one user name, and two other chats.
Canonical == [id \in {"@One", "@one", "2", "3"} |-> IF id = "@One" THEN "@one" ELSE id]

DefaultFiles == [c \in {"@one", "2", "3"} |-> CASE c = "@one" -> "a" [] c = "2" -> "b" [] OTHER -> "x"]

Fields == <<"author", "lday", "sortby">>

Values == [author |-> {"v", "w", "unencodable"}, lday |-> {"7", "14"}, sortby |-> {"1"}]

Nothing == [f \in {} |-> <<>>]

OneCategory == [categories |-> <<"new">>, filters |-> Nothing, queries |-> <<>>]

Chat(id, file, search) == [id |-> id, file |-> file, token |-> TRUE, search |-> search]

Settings(chats) == [decodes |-> TRUE, globals |-> TRUE, chats |-> chats]

TwoChats == Settings(<<Chat("@one", Default, OneCategory), Chat("2", Default, OneCategory)>>)

\* What may be wrong with a configuration file.
Faulty ==
    {[TwoChats EXCEPT !.decodes = FALSE], [TwoChats EXCEPT !.globals = FALSE],
     [TwoChats EXCEPT !.chats[1].token = FALSE], Settings(<<>>)}

Empty == [folding |-> FALSE, dir |-> [n \in SomeNames |-> Absent]]

CommandLines ==
    [help : BOOLEAN, syntax : BOOLEAN, service : {Unset, 1}, once : {Unset, 1},
     forget : {Unset, 0, 2}, chat : {Unset, "", "@One", "3"}]

Once == [help |-> FALSE, syntax |-> TRUE, service |-> Unset, once |-> 1, forget |-> Unset, chat |-> Unset]

Modes3 == {Once, [Once EXCEPT !.once = Unset, !.service = 1],
           [Once EXCEPT !.once = Unset, !.forget = 2, !.chat = "@One"]}

ArgumentCases ==
    [args : CommandLines, config : {TwoChats}, fs : {Empty}]
    \cup [args : Modes3, config : Faulty, fs : {Empty}]

\* Directories of a file system that folds names, and of one that does not.
SomeEntries == {Absent, File("first"), File("second"), Link("x")}

SomeDirectories ==
    { [folding |-> FALSE, dir |-> [n \in SomeNames |-> CASE n = "a" -> d [] n = "A" -> e [] n = "b" -> f
                                                        [] n = "x" -> g [] OTHER -> Absent]]
        : d \in SomeEntries, e \in {Absent, File("first")}, f \in SomeEntries, g \in {Absent, File("second")} }
    \cup { [folding |-> TRUE, dir |-> [n \in SomeNames |-> CASE n = "a" -> d [] n = "b" -> f
                                                        [] n = "x" -> g [] OTHER -> Absent]]
        : d \in SomeEntries, f \in SomeEntries, g \in {Absent, File("second")} }

Mappings ==
    { Settings(<<Chat("@one", d, OneCategory), Chat(id, e, OneCategory)>>)
        : id \in {"@One", "2", "bad"}, d \in SomeNames \cup {Default}, e \in SomeNames \cup {Default} }

MappingCases == [args : Modes3, config : Mappings, fs : SomeDirectories]

\* Searches: valid ones and others.
FilterMaps ==
    {Nothing, [author |-> <<"v", "w">>, lday |-> <<"14">>], [sortby |-> <<"1">>], [author |-> <<>>],
     [other |-> <<"v">>], [author |-> <<"unencodable">>], [author |-> <<"unknown">>]}

Queries ==
    {[author |-> "v"], [author |-> "v", lday |-> "7"], [sortby |-> "1", lday |-> "7"], [lday |-> "14"],
     [author |-> "w", sortby |-> "1"], [f \in {} |-> ""], [other |-> "v"], [author |-> "unknown"]}

Searches ==
    [categories : {<<>>, <<"new">>, <<"old", "new", "old">>, <<"2">>}, filters : FilterMaps,
     queries : {<<>>} \cup { <<q>> : q \in Queries } \cup { <<p, q>> : p, q \in Queries }]

SearchCases == [args : {Once}, config : { Settings(<<Chat("@one", Default, s)>>) : s \in Searches }, fs : {Empty}]

AllCases == ArgumentCases \cup MappingCases \cup SearchCases
=============================================================================
