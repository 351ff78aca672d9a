--------------------------- MODULE MCExtensionRelay ---------------------------
(* The announcements of two versions of the extension for ExtensionRelay. *)
EXTENDS ExtensionRelay

MCHellos == {[min |-> 1, max |-> 1, caps |-> {"semantic_snapshot_v1", "tab_navigation_v1"}],
             [min |-> 2, max |-> 2, caps |-> {"semantic_snapshot_v1"}]}
=============================================================================
