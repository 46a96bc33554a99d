----------------------------- MODULE MCNamespace -----------------------------
EXTENDS SharedNamespace

\* "b" stands for a name that starts with the name "a" and a dash.
MCPrefixed == {<<"a", "b">>}
=============================================================================
