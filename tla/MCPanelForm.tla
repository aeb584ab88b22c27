----------------------------- MODULE MCPanelForm -----------------------------
(* Instances of PanelForm for TLC. *)
EXTENDS PanelForm, TLC
=============================================================================
