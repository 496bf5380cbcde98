------------------------------- MODULE HartTraps -------------------------------
(***************************************************************************)
(* Privilege modes of the hart (cpu.go): trap entry, delegation, MRET and  *)
(* SRET, for the privilege fields m of mstatus and medeleg.                *)
(***************************************************************************)
EXTENDS Naturals

Modes == {"U", "S", "M"}

\* MPP is never 2: sanitizeMstatus clears it.
ModeType(causes) ==
    [ priv : Modes, mpp : Modes, spp : {"U", "S"}, mprv : BOOLEAN,
      sum : BOOLEAN, mxr : BOOLEAN, tvm : BOOLEAN, tsr : BOOLEAN, medeleg : SUBSET causes ]

\* NewCPU, with firmware about to run.
ResetMode ==
    [ priv |-> "M", mpp |-> "U", spp |-> "U", mprv |-> FALSE,
      sum |-> FALSE, mxr |-> FALSE, tvm |-> FALSE, tsr |-> FALSE, medeleg |-> {} ]

-----------------------------------------------------------------------------
\* trapToSupervisorAt
TrapToSupervisor(m) ==
    [m EXCEPT !.spp = IF m.priv = "S" THEN "S" ELSE "U", !.priv = "S"]

\* trapToMachineAt
TrapToMachine(m) == [m EXCEPT !.mpp = m.priv, !.priv = "M"]

\* trapToPrivilegedAt: an exception goes to S mode if it is delegated and did
\* not happen in M mode.
TrapToPrivileged(m, cause) ==
    IF m.priv # "M" /\ cause \in m.medeleg THEN TrapToSupervisor(m) ELSE TrapToMachine(m)

\* MRET; with strict CSRs only M mode may execute it.
MRETLegal(m) == m.priv = "M"

MRET(m) ==
    [m EXCEPT !.mpp = "U", !.mprv = m.mprv /\ m.mpp = "M", !.priv = m.mpp]

SRETLegal(m) == m.priv # "U" /\ ~(m.priv = "S" /\ m.tsr)

SRET(m) == [m EXCEPT !.spp = "U", !.mprv = FALSE, !.priv = m.spp]

\* The mode whose rights a load or a store has; a fetch always has priv's.
MemoryPrivilege(m, kind) ==
    IF kind # "fetch" /\ m.priv = "M" /\ m.mprv THEN m.mpp ELSE m.priv
================================================================================
