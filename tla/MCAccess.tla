-------------------------------- MODULE MCAccess --------------------------------
(* What a request meets on its way in: the rate limiters and, of a browser, the *)
(* signing in.  Each behaviour exercises one of them and leaves the others at   *)
(* rest.                                                                        *)
EXTENDS RateLimiter, SignIn, TLC

VARIABLE focus

\* One limiter at a time: those of the tenants or that of the addresses.
OneLimiter == \A c \in DOMAIN visitors' : (c[1] = "address") <=> (focus = "address")

MCInit ==
  /\ Init /\ SignInInit
  /\ focus \in {"address", "tenant", "browser"}
  /\ focus # "tenant" => rate = [t \in Tenants |-> 1]

MCNext ==
  /\ UNCHANGED focus
  /\ \/ /\ focus # "browser" /\ Next /\ OneLimiter
        /\ UNCHANGED signInVars
     \/ /\ focus = "browser" /\ SignInNext
        /\ UNCHANGED vars

\* The fairness of SignIn, in the behaviours of the browser.
Browsing(A) == focus = "browser" /\ A /\ UNCHANGED <<focus, vars>>
MCFairness ==
  \A t \in Tabs : /\ WF_signInVars(Browsing(Server(t)))
                  /\ WF_signInVars(Browsing(Receive(t) \/ Authorize(t)))

MCSpec == MCInit /\ [][MCNext]_<<focus, vars, signInVars>> /\ MCFairness

=============================================================================
