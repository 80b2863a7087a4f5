--------------------------- MODULE MCTargetRegistry ---------------------------
\* Spellings for TargetRegistry: a built-in, and two spellings of a custom.  A
\* second spelling of a built-in, or one with a space around it, makes names and
\* files disagree in the code: README.md says how.
EXTENDS TargetRegistry

trimmed == [n \in Names |-> n]
lowered == [n \in Names |-> IF n \in {"home", "Home"} THEN "key home" ELSE "key cf"]

oneBuiltin == <<"cf">>

===============================================================================
