------------------------- MODULE MCTaskAuthorization -------------------------
(* Small registrations, grants and actions for TaskAuthorization. *)
EXTENDS TaskAuthorization

Click == [action |-> "click", kind |-> "raw_input", secret |-> FALSE,
          category |-> "raw_input", origin |-> None]

Proposal(task, target, methods, actions) ==
    [task |-> task, target |-> target, methods |-> methods, actions |-> actions,
     origins |-> {}, scope |-> None, recording |-> None, preparation |-> None]

MCProposals == {
    Proposal(None, "exact", {"execute_action", "snapshot"}, {Click}),
    [Proposal("s1", "exact", {"get_window_state"} \union RECORDING \union PREPARATION,
              {WindowScope("capture_preparation_begin")})
        EXCEPT !.recording = "videos", !.preparation = "journal"],
    Proposal(None, "owned", {"execute_action", "browser_snapshot"}, {})}

Grant(auth, mode) ==
    [auth |-> auth, mode |-> mode, owned |-> FALSE, raw |-> mode = "pixels",
     recording |-> FALSE, live |-> FALSE, preparation |-> FALSE, output |-> None,
     showcase |-> FALSE, origins |-> {}, confirm |-> TRUE, activate |-> FALSE]

Recorder(a) == [Grant(a, "pixels") EXCEPT !.raw = FALSE, !.recording = TRUE, !.live = TRUE,
                    !.preparation = TRUE, !.output = "videos"]

MCGrants ==
    [s1 |-> {Grant(1, "pixels"), Recorder(1), [Grant(None, "semantic") EXCEPT !.raw = TRUE]},
     s2 |-> {Grant(1, "pixels"), [Grant(2, "semantic") EXCEPT !.owned = TRUE]}]

Act(action, kind, secret, routine, element) ==
    [action |-> action, kind |-> kind, secret |-> secret, keys |-> FALSE,
     routine |-> routine, element |-> element]

MCActions == {
    Act("click", "raw_input", FALSE, TRUE, None),
    Act("set_text", "semantic", TRUE, FALSE, [tier |-> "task_grant", category |-> "none"])}
=============================================================================
