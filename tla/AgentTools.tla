------------------------------ MODULE AgentTools ------------------------------
(***************************************************************************)
(* The WRITE tools as the agents are given them (build_pydantic_tools in   *)
(* agents/tools.py): _write_fn asks requires_hitl itself and calls the     *)
(* connector directly.  The gate's state is there, but nothing of the      *)
(* agents' calls ever reaches it, so the reviewer has nothing to decide.   *)
(***************************************************************************)
EXTENDS WriteGate

(* WriteGateError, or what float() raised: neither queued nor audited. *)
WriteFnRefuses(a, call) ==
    /\ running[a] = Idle
    /\ RuleRaises(call) \/ Gated(call)
    /\ Invoke(call)
    /\ UNCHANGED <<pending, running, next_plan, history, uses, cancelled, audited>>

WriteFnCalls(a, call) == StartUngated(a, call)

(* The result, or the error as a string, goes back to the model. *)
WriteFnReturns(a) ==
    /\ running[a] # Idle
    /\ running' = [running EXCEPT ![a] = Idle]
    /\ UNCHANGED <<pending, next_plan, history, uses, invoked, cancelled, audited>>

AgentNext ==
    \/ \E a \in Agents, call \in Calls :
          WithinBound(call) /\ (WriteFnRefuses(a, call) \/ WriteFnCalls(a, call))
    \/ \E a \in Agents : WriteFnReturns(a) \/ Cancel(a)

AgentSpec == Init /\ [][AgentNext]_vars

(***************************************************************************)
(* write_gate.py: "All other WRITE tools -> auto-execute + audit".  When   *)
(* no execution of an ungated call is in progress, each one that was not   *)
(* cancelled has left its audit record.                                    *)
(***************************************************************************)
UngatedCallIsAudited ==
    \A call \in Calls :
        ~RuleRaises(call) /\ ~RequiresHitl(call) /\ ~InProgress(call) =>
            audited[call] = invoked[call] - cancelled[call]
=============================================================================
