--------------------------- MODULE MCProviderSheet ---------------------------
(***************************************************************************)
(* Model-checking instance of ProviderSheet: two handles on one page, one  *)
(* of them initialized twice, and the buyer clicks on that one.            *)
(***************************************************************************)
EXTENDS ProviderSheet

CONSTANTS h1, h2, i1, i2, i3

MCHandles == {h1, h2}
MCLoads == {i1, i2, i3}
MCHandleOf == [i \in MCLoads |-> IF i = i3 THEN h2 ELSE h1]
MCMaxClicks == [h \in MCHandles |-> IF h = h1 THEN 2 ELSE 0]
AllProviders == {"klarna", "applepay", "paypal", "unloadable"}

=============================================================================
