------------------------------- MODULE MCWebServer -------------------------------
(***************************************************************************)
(* A small instance of WebServer: the identity sources, services and hosts *)
(* of the example configuration (docs/cfg/ubhd-ex01).                      *)
(***************************************************************************)
EXTENDS WebServer

MCIds == {"alice", "staging:a", "STAGING:A", "?", "bot"}
MCTransform == [i \in MCIds |->
    CASE i = "STAGING:A" -> "staging:a" [] i = "?" -> "" [] OTHER -> i]
MCAliases == [i \in {"staging:a"} |-> "alice"]

MCDetectorLists == {
    <<"headers", "cookie", "static_from_file">>,
    <<"cookie", "guest_access_only">>}

Requested(header, cookie, urls) ==
    [header |-> header, cookie |-> cookie, urls |-> urls]

MCProfiles == {
    Requested("STAGING:A", "?", {"digi/p1", "digi-test/p1"}),
    Requested(NoId, NoId, {"digi/p1", "digi/books/p1"}),
    Requested("bot", NoId, {"books/p1"}),
    Requested("bot", Guest, {NoTarget})}

MCPermits == {<<"alice", "diglit">>, <<"alice", "books">>, <<"", "diglit">>,
              <<"bot", NoService>>}

MCServiceList == <<"books", "diglit">>
MCPrefixesOf == [s \in {"books", "diglit"} |->
    IF s = "books" THEN <<"digi/books/">> ELSE <<"digi/">>]
MCUrlsBelow == [p \in {"digi/books/", "digi/"} |->
    IF p = "digi/" THEN {"digi/p1", "digi/books/p1"} ELSE {"digi/books/p1"}]
MCAliasesOf == [s \in {"books", "diglit"} |->
    IF s = "books" THEN <<>> ELSE [u \in {"digi-test/p1"} |-> "digi/p1"]]
===============================================================================
