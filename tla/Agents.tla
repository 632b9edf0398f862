---------------------------- MODULE Agents ----------------------------
(* How a translation agent is chosen (packages/agents: the runner, and the   *)
(* command line and the API executor that call it).  Which providers are     *)
(* available is read anew by every call, so it is a parameter here.          *)
EXTENDS Integers, Sequences, FiniteSets, SequencesExt

CONSTANTS
  ProviderOrder,   \* the configured providers, in the order they are tried
  Local,           \* "codex-cli": the only provider that costs nothing
  Automatic        \* the request that names no provider

ASSUME ProvidersAssumption ==
  /\ ProviderOrder \in Seq(STRING) /\ ProviderOrder # << >>
  /\ Automatic \notin Range(ProviderOrder)

Providers == Range(ProviderOrder)
Requestable == Providers \union {Automatic}
NoProvider == "none"

\* Every provider but the local command line is paid.
Paid(p) == p \in Providers \ {Local}

\* The available providers that a request may be given, by their places.
Open(requested, available) ==
  {n \in DOMAIN ProviderOrder :
     ProviderOrder[n] \in available /\ requested \in {Automatic, ProviderOrder[n]}}

\* The provider the command line shows before it asks for confirmation: the
\* first that is open, the local command line before it whatever its place.
Offered(requested, available) ==
  LET open == Open(requested, available)
  IN  IF open = {} THEN NoProvider
      ELSE IF \E n \in open : ProviderOrder[n] = Local THEN Local
      ELSE ProviderOrder[Min(open)]

\* Mutant: an automatic choice falls back to a paid provider unasked.
SelectedUnasked(requested, approved, available) == Offered(requested, available)

\* The provider the runner calls: the one that was named, or the first that is
\* available; that one is refused (none) when it is paid and not approved.
Selected(requested, approved, available) ==
  LET first == Offered(requested, available)
  IN  IF requested = Automatic /\ Paid(first) /\ ~approved THEN NoProvider ELSE first

\* The API executor refuses a named paid provider before it asks the runner.
ExecutorRefuses(requested, approved) ==
  requested # Automatic /\ Paid(requested) /\ ~approved
=======================================================================
