--------------------------- MODULE MCBrowserTask ---------------------------
(***************************************************************************)
(* Three pages: the one a lease pins, another document of its tab with     *)
(* another origin, and another tab whose origin is not known.              *)
(***************************************************************************)
EXTENDS BrowserTask

MCPages ==
    {[tab |-> "tab1", doc |-> "doc1", origin |-> "a"],
     [tab |-> "tab1", doc |-> "doc2", origin |-> "b"],
     [tab |-> "tab2", doc |-> "doc3", origin |-> NoOrigin]}

MCLeases ==
    {[held |-> FALSE, origins |-> {}, scope |-> NoScope, secret |-> FALSE],
     [held |-> TRUE, origins |-> {"a"}, scope |-> NoScope, secret |-> TRUE],
     [held |-> TRUE, origins |-> {"a"}, secret |-> FALSE,
      scope |-> [target |-> "browser", tab |-> "tab1", doc |-> "doc1", origin |-> "a"]]}
=============================================================================
