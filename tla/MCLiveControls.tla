-------------------------- MODULE MCLiveControls --------------------------
(* One tab with its controls, and users who each do some of what can be    *)
(* done beside picking, inserting, generating and deciding.                *)
EXTENDS LiveControls
Users == {{"copy", "tools"}, {"steer"}, {"voice"}}
=============================================================================
