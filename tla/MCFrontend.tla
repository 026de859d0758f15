----------------------------- MODULE MCFrontend -----------------------------
EXTENDS Frontend, TLC
CONSTANTS devnet, paseo, a, b
Both == devnet :> <<b>> @@ paseo :> <<a, b>>
=============================================================================
