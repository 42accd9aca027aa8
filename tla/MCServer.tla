-------------------------------- MODULE MCServer --------------------------------
(* A replica from start to exit, the client of a single installation, the         *)
(* installations the webhook records and a pool of which every mint may fail.     *)
(* Each behaviour exercises one of them and leaves the others at rest.            *)
EXTENDS Lifecycle, InstallationClient, Installations, TokenPool, TLC

VARIABLE focus

MCInit ==
  /\ LifecycleInit /\ ClientInit /\ InstallInit /\ Init
  /\ focus \in {"process", "client", "webhook", "pool"}
  /\ focus # "webhook" => /\ registered = {}
                          /\ owner = [i \in InstallIds |-> CHOOSE o \in Owners : TRUE]
  /\ focus # "pool" => /\ active = Installs
                       /\ pool = CHOOSE es \in Listings(Installs, {}) : TRUE

MCNext ==
  /\ UNCHANGED focus
  /\ \/ /\ focus = "process" /\ LifecycleNext
        /\ UNCHANGED <<clientVars, installVars, vars>>
     \/ /\ focus = "client" /\ ClientNext
        /\ UNCHANGED <<lifeVars, installVars, vars>>
     \/ /\ focus = "webhook" /\ InstallNext
        /\ UNCHANGED <<lifeVars, clientVars, vars>>
     \/ /\ focus = "pool" /\ Next
        /\ UNCHANGED <<lifeVars, clientVars, installVars>>

allVars == <<focus, lifeVars, clientVars, installVars, vars>>

Serving(A) == /\ focus = "process" /\ A
              /\ UNCHANGED <<focus, clientVars, installVars, vars>>

\* The lock manager serves those that wait in turn; a statement and a shutdown end;
\* an idle connection is closed.
MCFairness ==
  \A r \in Replicas :
    /\ SF_allVars(Serving(TakeLock(r)))
    /\ WF_allVars(Serving(Migrate(r)))
    /\ WF_allVars(Serving(CloseIdle(r)))
    /\ WF_allVars(Serving(Leave(r)))

MCSpec == MCInit /\ [][MCNext]_allVars /\ MCFairness

=============================================================================
