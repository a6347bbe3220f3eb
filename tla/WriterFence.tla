---------------------------- MODULE WriterFence ----------------------------
(***************************************************************************)
(* The admission of every writer of the program (writer_session_fence.py)  *)
(* and the deployment session that fences the writers off                  *)
(* (tools/container_writer_fence.ps1).  One named mutex, the gate, admits  *)
(* one writer at a time; a fence, the file active.json, is only written    *)
(* and removed with the gate held, so that each operation on it is one     *)
(* step.  A session holds its own mutex as long as it lives.               *)
(***************************************************************************)
EXTENDS Naturals, FiniteSets

CONSTANTS
  Threads,       \* the threads that write
  Tool,          \* the one that a session started and gave its token
  Sources,       \* what the tool writes
  MaxSessions    \* deployment sessions (bound)

FenceAssumption == Tool \in Threads /\ Sources # {} /\ MaxSessions \in Nat

VARIABLES
  gate,          \* "free", "abandoned" or its owner
  fence,         \* active.json
  fresh,         \* its delegation has not expired
  exact,         \* the prepared receipt has the bytes the fence pins
  held,          \* the session's own mutex is held
  adm,           \* the depth and the cached fence of each thread
  sessions

fenceVars == <<gate, fence, fresh, exact, held, adm, sessions>>

NoFence == [st |-> "none", sources |-> {}]
Statuses == {"PREPARING", "PREPARED", "RESTORING", "INSTALLING"}
Outside == [depth |-> 0, active |-> NoFence]

FenceInit ==
  /\ gate = "free" /\ fence = NoFence /\ fresh = FALSE /\ exact = TRUE /\ held = FALSE /\ sessions = 0
  /\ adm = [t \in Threads |-> Outside]

_delegation_matches(t, f, src) ==
  t = Tool /\ f.st # "PREPARING" /\ src \in f.sources /\ fresh /\ held

(* The file is read whole, has the exact fields, and its receipt is there. *)
_validate_active_fence == exact
active_fence == fence = NoFence \/ _validate_active_fence

Passes(t, f, src) == f = NoFence \/ _delegation_matches(t, f, src)

(* The outermost admission takes the gate and reads the fence; an inner    *)
(* one asks the cached fence again.                                        *)
Admitted(t, src) ==
  IF adm[t].depth > 0 THEN Passes(t, adm[t].active, src) ELSE gate = "free" /\ active_fence /\ Passes(t, fence, src)
Enter(t) ==
  /\ gate' = t
  /\ adm' = [adm EXCEPT ![t] = IF @.depth > 0 THEN [@ EXCEPT !.depth = @ + 1]
                                              ELSE [depth |-> 1, active |-> fence]]
Leave(t) ==
  /\ gate' = IF adm[t].depth = 1 THEN "free" ELSE gate
  /\ adm' = [adm EXCEPT ![t] = IF @.depth = 1 THEN Outside ELSE [@ EXCEPT !.depth = @ - 1]]

(* Denied by a fence, or by a gate whose owner died, which is free         *)
(* afterwards; a taken gate is waited for, up to five seconds.             *)
Denied(t, src) ==
  IF adm[t].depth > 0 THEN ~Passes(t, adm[t].active, src)
  ELSE gate = "abandoned" \/ (gate = "free" /\ ~(active_fence /\ Passes(t, fence, src)))
TimedOut(t) == adm[t].depth = 0 /\ gate \in Threads
Refuse(t) ==
  /\ gate' = IF adm[t].depth = 0 /\ gate = "abandoned" THEN "free" ELSE gate
  /\ UNCHANGED adm

ToolEnter ==
  /\ adm[Tool].depth < 2
  /\ \E src \in Sources :
       \/ Admitted(Tool, src) /\ Enter(Tool)
       \/ Denied(Tool, src) /\ Refuse(Tool)
  /\ UNCHANGED <<fence, fresh, exact, held, sessions>>
ToolLeave ==
  /\ adm[Tool].depth > 0 /\ Leave(Tool)
  /\ UNCHANGED <<fence, fresh, exact, held, sessions>>

(* The end of a process abandons the gate it owns.                         *)
Abandoned(P) ==
  /\ gate' = IF gate \in P THEN "abandoned" ELSE gate
  /\ adm' = [t \in Threads |-> IF t \in P THEN Outside ELSE adm[t]]
ToolDies ==
  /\ adm[Tool].depth > 0 /\ Abandoned({Tool})
  /\ UNCHANGED <<fence, fresh, exact, held, sessions>>

-----------------------------------------------------------------------------
(* The deployment session.                                                 *)

(* Enter-ContainerWriterAdmission.                                         *)
Quiet == gate = "free"
(* Each later operation reads the fence and validates it.                  *)
Owned == held /\ fence # NoFence /\ exact /\ Quiet

Begin ==
  /\ ~held /\ exact /\ fence = NoFence /\ sessions < MaxSessions /\ Quiet
  /\ held' = TRUE /\ sessions' = sessions + 1
  /\ \E s \in {"PREPARING", "INSTALLING"} : fence' = [NoFence EXCEPT !.st = s]
  /\ UNCHANGED <<gate, fresh, exact, adm>>
SetPrepared ==
  /\ Owned /\ fence.st = "PREPARING"
  /\ fence' = [fence EXCEPT !.st = "PREPARED"]
  /\ UNCHANGED <<gate, fresh, exact, held, adm, sessions>>
SetDelegation ==
  /\ Owned /\ fence.st \in Statuses \ {"PREPARING"}
  /\ \E S \in SUBSET Sources \ {{}} :
       fence' = [st |-> IF fence.st = "INSTALLING" THEN fence.st ELSE "RESTORING", sources |-> S]
  /\ fresh' = TRUE
  /\ UNCHANGED <<gate, exact, held, adm, sessions>>
ClearDelegation ==
  /\ Owned /\ fence.sources # {}
  /\ fence' = [fence EXCEPT !.sources = {}] /\ fresh' = FALSE
  /\ UNCHANGED <<gate, exact, held, adm, sessions>>
Expire ==
  /\ fresh /\ fresh' = FALSE
  /\ UNCHANGED <<gate, fence, exact, held, adm, sessions>>
(* Stop-ContainerWriterFence, Abort-ContainerWriterFence; the session ends.*)
Release ==
  /\ Owned
  /\ fence' = NoFence /\ held' = FALSE /\ fresh' = FALSE
  /\ UNCHANGED <<gate, exact, adm, sessions>>
(* The session dies, in the gate or outside it, and its fence stays.       *)
SessionDies ==
  /\ held /\ held' = FALSE
  /\ gate' \in {gate} \cup (IF gate = "free" THEN {"abandoned"} ELSE {})
  /\ UNCHANGED <<fence, fresh, exact, adm, sessions>>
(* It is run again with the same identity, and asks the gate until the     *)
(* gate answers.                                                           *)
Resume ==
  /\ ~held /\ fence # NoFence /\ held' = TRUE
  /\ UNCHANGED <<gate, fence, fresh, exact, adm, sessions>>
GateAbandoned ==
  /\ held /\ gate = "abandoned" /\ gate' = "free"
  /\ UNCHANGED <<fence, fresh, exact, held, adm, sessions>>

ReceiptChanged ==
  /\ fence # NoFence /\ exact /\ exact' = FALSE
  /\ UNCHANGED <<gate, fence, fresh, held, adm, sessions>>

Session ==
  \/ Begin \/ SetPrepared \/ SetDelegation \/ ClearDelegation \/ Expire \/ Release
  \/ Resume \/ GateAbandoned
FenceNext == Session \/ ToolEnter \/ ToolLeave
FenceDies == SessionDies \/ ToolDies \/ ReceiptChanged

-----------------------------------------------------------------------------
FenceTypeOK ==
  /\ gate \in Threads \cup {"free", "abandoned"} /\ fence.st \in Statuses \cup {"none"}
  /\ fence.sources \subseteq Sources /\ {fresh, exact, held} \subseteq BOOLEAN
  /\ \A t \in Threads : adm[t].depth \in 0..2 /\ (adm[t].depth > 0 <=> gate = t)

(* No writer of the program is at work under a fence: whoever is in the    *)
(* gate saw the fence that stands now, so an inner admission that trusts   *)
(* the cached fence is not mistaken.                                       *)
FencedOut ==
  \A t \in Threads : adm[t].depth > 0 =>
    adm[t].active = fence /\ (t # Tool => fence = NoFence)

(* The tool starts a write under a fence only while its session lives, and *)
(* enters the gate only with the receipt the fence was made for.           *)
DelegatedAlive ==
  [][adm'[Tool].depth > adm[Tool].depth =>
       fence = NoFence \/ (held /\ fresh /\ (adm[Tool].depth = 0 => exact))]_fenceVars
=============================================================================
