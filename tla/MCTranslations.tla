------------------------ MODULE MCTranslations ------------------------
(* A small translation desk: one free and one paid agent. *)
EXTENDS Translations

MCProviderOrder == <<"gemini", "codex-cli">>
MCModes == {[provider |-> "auto", paid |-> FALSE]}
=======================================================================
