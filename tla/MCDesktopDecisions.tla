------------------------- MODULE MCDesktopDecisions -------------------------
(* One desktop run of up to four steps beside one browser agent; one save.  *)
EXTENDS DesktopDecisions

Fallback(p, m) == [provider |-> p, model |-> m]
\* A cheaper model of the primary provider, one that cannot see, another provider.
FirstPrefs == [provider |-> "openai", model |-> "large",
               chain |-> <<Fallback("openai", "small"), Fallback("huggingface", "text")>>]
LaterPrefs == [provider |-> "openai", model |-> "newer", chain |-> << >>]
OneSave == <<FirstPrefs, LaterPrefs>>
Shipped == [p \in {"openai"} |-> "stock"]
SomePolicies == {{}, Tools, Tools \ {Screenshot}}
=============================================================================
