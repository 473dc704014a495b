---------------------------- MODULE MCBrainBuffer ---------------------------
(***************************************************************************)
(* Model checking of BrainBuffer, with liveness, in two scopes: two        *)
(* workers and a renewal over the sessions of one prompt, or one worker    *)
(* over the sessions of two prompts.                                       *)
(***************************************************************************)
EXTENDS BrainBuffer

VARIABLE scope

\* Without a memory for facts the counter is not reset; without one for
\* summaries none is stored, either.
Scopes ==
    [prompts : {Prompts}, workers : {{CHOOSE w \in Workers : TRUE}},
     renewals : {0}, memories : {{"summaries"}, Memory}]
    \cup
    [prompts : {{CHOOSE p \in Prompts : TRUE}}, workers : {Workers},
     renewals : {MaxRenewals}, memories : {{}, Memory}]

InScope ==
    /\ \A p \in Prompts \ scope.prompts : prompt[p] = "idle"
    /\ \A w \in Workers \ scope.workers : pc[w] = "idle"
    /\ renewals <= scope.renewals

ScopedInit == Init /\ scope \in Scopes /\ memories = scope.memories

ScopedNext == Next /\ UNCHANGED scope /\ InScope'

ScopedSpec ==
    /\ ScopedInit /\ [][ScopedNext]_<<vars, scope>>
    /\ \A w \in Workers : WF_vars(Maintain(w) /\ UNCHANGED scope)
    /\ \A s \in Sessions : WF_vars(ClearHistory(s) /\ UNCHANGED scope)

=============================================================================
