----------------------------- MODULE MCArchive -----------------------------
(* Model-checking instance of Archive: platforms and accounts, which are   *)
(* ordered.                                                                *)
EXTENDS Archive
MCPlatforms == <<"kaggle", "colab">>
MCCaps == [colab |-> 3]
MCAvailable == [kaggle |-> 5, colab |-> 3]
MCAccounts == <<"a", "b">>
=============================================================================
