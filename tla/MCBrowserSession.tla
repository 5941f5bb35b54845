-------------------------- MODULE MCBrowserSession --------------------------
(***************************************************************************)
(* BrowserSession for TLC: two tabs.  The first has two calls of its pages *)
(* in flight, which is what it takes to share a refresh, and may load the  *)
(* application again; the second signs in, refreshes and logs out.         *)
(***************************************************************************)
EXTENDS BrowserSession, TLC

CONSTANTS t1, t2, p1, p2

MCTabs == {t1, t2}
MCPageCalls == t1 :> {p1, p2} @@ t2 :> {}
MCMaxLoads == t1 :> 2 @@ t2 :> 1
=============================================================================
