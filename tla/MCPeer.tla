------------------------------- MODULE MCPeer -------------------------------
(***************************************************************************)
(* Instances of ScreenShare, and of Peer below it, for TLC.                  *)
(***************************************************************************)
EXTENDS ScreenShare, FiniteSets

CONSTANTS e1, e2, t1, t2

\* The user of e1 has two screens to share, that of e2 one.
MCScreens == [e \in End |-> IF e = e1 THEN {t1, t2} ELSE {t1}]

\* How many screens have been asked for.
Used == Cardinality({x \in End \X Track : capture[x[1]][x[2]] # "free"})

\* Bounds: two of what makes the ends negotiate again, screens and outages; the
\* outages meet a screen that is negotiated, which is one of e2, and that stays
\* shared; and signals are lost, any number of them, while no screen has been
\* asked for.
MCBounds ==
    /\ Used' + outages' <= 2
    /\ Used' > 0 /\ outages' > 0 => \A t \in Track :
          capture'[e1][t] = "free" /\ capture'[e2][t] # "stopped"
    /\ lost' # lost => Used = 0
    /\ Used' > Used => ~lost

MCSpec == ScreenInit /\ [][ScreenNext /\ MCBounds]_<<vars, shareVars>>

\* With the fairness of ScreenFairSpec.
MCFairSpec == MCSpec /\ \A e \in End :
    /\ WF_<<vars, shareVars>>(Below(Progress(e)))
    /\ WF_<<vars, shareVars>>(Below(RecoverTimeout(e)))
    /\ WF_<<vars, shareVars>>(Below(ConnectTimeout(e)))
=============================================================================
