-------------------------- MODULE MCPluginProfile --------------------------
(* Instances of PluginProfile for TLC. *)
EXTENDS PluginProfile

=============================================================================
