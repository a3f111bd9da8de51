-------------------------- MODULE AdmittedCommand --------------------------
(***************************************************************************)
(* What a command run for a worker promises to whoever launched it         *)
(* (registered_command_linux.go, RegisteredCommandResult): the launcher    *)
(* sees a verdict, not the guard, the anchor and their messages.  This is  *)
(* the command the supervisor's broker counts on (Supervisor: cmd, owned   *)
(* and worker; BrokerReceive, CommandEffect, CommandExits, BrokerVerdict,  *)
(* AnchorRecovers).                                                        *)
(***************************************************************************)

VARIABLES
  stage,   \* "idle", "execute", "quiet", "unverified", or "lost" with its launcher
  up,      \* the worker is alive
  cmd,     \* "up" while the command may still change the kernel, or "none"
  owned    \* the command's resource is in the kernel

vars == <<stage, up, cmd, owned>>

Init == stage = "idle" /\ up = TRUE /\ cmd = "none" /\ owned \in BOOLEAN

Begin == /\ stage = "idle" /\ up
         /\ stage' = "execute" /\ cmd' = "up"
         /\ UNCHANGED <<up, owned>>

Refuse == /\ stage = "idle" /\ stage' = "unverified"
          /\ UNCHANGED <<up, cmd, owned>>

\* Whatever becomes of launcher and worker, the command may go on; it ends
\* once.
Effect == cmd = "up" /\ owned' \in BOOLEAN /\ UNCHANGED <<stage, up, cmd>>
Exit   == cmd = "up" /\ cmd' = "none" /\ UNCHANGED <<stage, up, owned>>

\* The journal is recovered for a dead worker, after the command and before
\* any verdict of quiescence.
Recover == /\ stage \notin {"idle", "quiet"} /\ ~up /\ cmd = "none"
           /\ owned' = FALSE
           /\ UNCHANGED <<stage, up, cmd>>

\* Quiescent: the command has ended.  Without a verdict it may still run.
Quiet      == /\ stage = "execute" /\ cmd = "none" /\ stage' = "quiet"
              /\ UNCHANGED <<up, cmd, owned>>
Unverified == stage = "execute" /\ stage' = "unverified" /\ UNCHANGED <<up, cmd, owned>>

WorkerEnds == up /\ up' = FALSE /\ UNCHANGED <<stage, cmd, owned>>

\* The launcher ends, and the worker with it.
Lost == /\ stage \in {"idle", "execute"} /\ stage' = "lost" /\ up' = FALSE
        /\ UNCHANGED <<cmd, owned>>

Next == \/ Begin \/ Refuse \/ Effect \/ Exit \/ Recover \/ Quiet \/ Unverified
        \/ WorkerEnds \/ Lost

Spec == Init /\ [][Next]_vars
=============================================================================
