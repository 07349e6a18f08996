------------------------- MODULE PimHandshakeProofs -------------------------
(***************************************************************************)
(* The safety of the offload handshake, for any number of calls.           *)
(*                                                                         *)
(* The invariants of PimHandshake are not inductive: whether the firmware  *)
(* finds a command when it wakes up depends on what the host has written   *)
(* in each of its states, and whether the host's NOP is premature depends  *)
(* on what STATUS says in each state of the firmware.  Handshake ties the  *)
(* registers to the two program counters, and the history variables to     *)
(* both.                                                                   *)
(***************************************************************************)
EXTENDS PimHandshake, TLAPS

Running == pim \in {"awake", "accepted", "dispatch", "kernel", "executed"}

\* What the registers hold, by the state of the side that writes them.
Registers ==
  /\ host \in {"idle", "armed", "reading"} => COMMAND = NOP
  /\ host \in {"given", "waiting", "finished"} => COMMAND \in Commands
  /\ pim \in {"wfi", "awake", "accepted", "looping"} => STATUS = "SLEEP"
  /\ pim \in {"dispatch", "kernel", "executed"} => STATUS = "BUSY"
  /\ pim \in {"polling", "leaving"} => STATUS = "DONE"
  /\ arg = call
  /\ host # "idle" => call > 0

\* Who may be where, and how often the kernel has run on the current call.
Progress ==
  /\ Running => host = "waiting" /\ woken
  /\ pim \in {"kernel", "executed"} => latched = call
  /\ host = "waiting" /\ woken =>
       \/ pim \in {"awake", "accepted", "dispatch", "kernel"} /\ runs[call] = 0
       \/ pim \in {"executed", "polling"} /\ runs[call] = 1 /\ result = call
  /\ host \in {"finished", "reading"} /\ woken => runs[call] = 1 /\ result = call
  /\ host \in {"armed", "given"} => runs[call] = 0
  /\ \A c \in Calls : c > call => runs[c] = 0

IInv ==
  /\ TypeOK /\ Registers /\ Progress
  /\ pim # "error" /\ AtMostOnce /\ WokenCallIsServed

-----------------------------------------------------------------------------
LEMMA InitIInv == Init => IInv
<1> SUFFICES ASSUME Init PROVE IInv
  OBVIOUS
<1>1. TypeOK
  <2>1. 0 \in 0 .. MaxCalls
    BY MaxCallsAssumption
  <2>2. woken \in BOOLEAN /\ runs \in [Calls -> Nat]
    BY DEF Init
  <2> QED
    BY <2>1, <2>2 DEF Init, TypeOK, HostStates, PimStates
<1>2. Registers /\ Progress
  BY MaxCallsAssumption DEF Init, Registers, Progress, Running, Calls
<1>3. AtMostOnce /\ WokenCallIsServed
  BY DEF Init, AtMostOnce, WokenCallIsServed, Calls
<1> QED
  BY <1>1, <1>2, <1>3 DEF IInv, Init

\* Every step of the host and of the firmware preserves IInv.
LEMMA StepIInv == IInv /\ [Next]_vars => IInv'
<1> USE MaxCallsAssumption, CommandsAssumption
<1> SUFFICES ASSUME IInv, [Next]_vars PROVE IInv'
  OBVIOUS
<1>1. CASE WriteSreg
  BY <1>1
  DEF IInv, TypeOK, Registers, Progress, Running, AtMostOnce, WokenCallIsServed,
       Calls, HostStates, PimStates, hostVars, pimVars, WriteSreg
<1>2. CASE WakeUp
  BY <1>2
  DEF IInv, TypeOK, Registers, Progress, Running, AtMostOnce, WokenCallIsServed,
       Calls, HostStates, PimStates, hostVars, pimVars, WakeUp
<1>3. CASE CheckStatus
  BY <1>3
  DEF IInv, TypeOK, Registers, Progress, Running, AtMostOnce, WokenCallIsServed,
       Calls, HostStates, PimStates, hostVars, pimVars, CheckStatus
<1>4. CASE GiveNop
  BY <1>4
  DEF IInv, TypeOK, Registers, Progress, Running, AtMostOnce, WokenCallIsServed,
       Calls, HostStates, PimStates, hostVars, pimVars, GiveNop
<1>5. CASE ReadSreg
  BY <1>5
  DEF IInv, TypeOK, Registers, Progress, Running, AtMostOnce, WokenCallIsServed,
       Calls, HostStates, PimStates, hostVars, pimVars, ReadSreg
<1>6. ASSUME NEW c \in Commands, GiveCommand(c) PROVE IInv'
  BY <1>6
  DEF IInv, TypeOK, Registers, Progress, Running, AtMostOnce, WokenCallIsServed,
       Calls, HostStates, PimStates, hostVars, pimVars, GiveCommand
<1>7. CASE NewCommandReceived
  BY <1>7
  DEF IInv, TypeOK, Registers, Progress, Running, AtMostOnce, WokenCallIsServed,
       Calls, HostStates, PimStates, hostVars, PimGoto, NewCommandReceived
<1>8. CASE SetBusy
  BY <1>8
  DEF IInv, TypeOK, Registers, Progress, Running, AtMostOnce, WokenCallIsServed,
       Calls, HostStates, PimStates, hostVars, PimGoto, SetBusy
<1>9. CASE ExecuteCommand
  BY <1>9
  DEF IInv, TypeOK, Registers, Progress, Running, AtMostOnce, WokenCallIsServed,
       Calls, HostStates, PimStates, hostVars, PimGoto, ExecuteCommand
<1>10. CASE KernelReturns
  BY <1>10
  DEF IInv, TypeOK, Registers, Progress, Running, AtMostOnce, WokenCallIsServed,
       Calls, HostStates, PimStates, hostVars, PimGoto, KernelReturns
<1>11. CASE SetDone
  BY <1>11
  DEF IInv, TypeOK, Registers, Progress, Running, AtMostOnce, WokenCallIsServed,
       Calls, HostStates, PimStates, hostVars, PimGoto, SetDone
<1>12. CASE SeeNop
  BY <1>12
  DEF IInv, TypeOK, Registers, Progress, Running, AtMostOnce, WokenCallIsServed,
       Calls, HostStates, PimStates, hostVars, PimGoto, SeeNop
<1>13. CASE SetSleep
  BY <1>13
  DEF IInv, TypeOK, Registers, Progress, Running, AtMostOnce, WokenCallIsServed,
       Calls, HostStates, PimStates, hostVars, PimGoto, SetSleep
<1>14. CASE Wfi
  BY <1>14
  DEF IInv, TypeOK, Registers, Progress, Running, AtMostOnce, WokenCallIsServed,
       Calls, HostStates, PimStates, hostVars, PimGoto, Wfi
<1>15. CASE UNCHANGED vars
  BY <1>15
  DEF IInv, TypeOK, Registers, Progress, Running, AtMostOnce, WokenCallIsServed,
       Calls, HostStates, PimStates, vars, hostVars, pimVars
<1> QED
  BY <1>1, <1>2, <1>3, <1>4, <1>5, <1>6, <1>7, <1>8,
     <1>9, <1>10, <1>11, <1>12, <1>13, <1>14, <1>15
  DEF Next, HostStep, PimStep

THEOREM InvariantIInv == SafeSpec => []IInv
<1>1. Init => IInv
  BY InitIInv
<1>2. IInv /\ [Next]_vars => IInv'
  BY StepIInv
<1> QED
  BY <1>1, <1>2, PTL DEF SafeSpec

\* The registers, program counters and histories keep their types.
THEOREM TypeCorrect == SafeSpec => []TypeOK
<1>1. IInv => TypeOK
  BY DEF IInv
<1> QED
  BY <1>1, InvariantIInv, PTL

\* No pim_error and no failing pim_assert of resident.c and utils.h is
\* reachable, for any number of calls and any interleaving of host and PIM.
THEOREM AssertsHold == SafeSpec => []ResidentAsserts
<1>1. IInv => ResidentAsserts
  BY CommandsAssumption DEF IInv, Registers, Progress, Running, ResidentAsserts
<1> QED
  BY <1>1, InvariantIInv, PTL

\* The host does not touch the registers of a running kernel.
THEOREM Ownership == SafeSpec => []RegistersOwned
<1>1. IInv => RegistersOwned
  BY DEF IInv, Registers, Progress, Running, RegistersOwned
<1> QED
  BY <1>1, InvariantIInv, PTL

\* No call's arguments are run twice.
THEOREM RunAtMostOnce == SafeSpec => []AtMostOnce
<1>1. IInv => AtMostOnce
  BY DEF IInv
<1> QED
  BY <1>1, InvariantIInv, PTL

\* A call whose interrupt was not lost returns the result of its own arguments.
THEOREM WokenServed == SafeSpec => []WokenCallIsServed
<1>1. IInv => WokenCallIsServed
  BY DEF IInv
<1> QED
  BY <1>1, InvariantIInv, PTL

\* The kernel runs only for the call that is being waited for.
THEOREM NoLateRunHolds == SafeSpec => NoLateRun
<1>1. IInv /\ [Next]_vars =>
        [runs' # runs =>
           host = "waiting" /\ woken /\ runs' = [runs EXCEPT ![call] = @ + 1]]_vars
  BY DEF IInv, Progress, Running, Next, HostStep, PimStep, WriteSreg, GiveCommand,
         WakeUp, CheckStatus, GiveNop, ReadSreg, NewCommandReceived, SetBusy,
         ExecuteCommand, KernelReturns, SetDone, SeeNop, SetSleep, Wfi, PimGoto,
         vars, hostVars, pimVars
<1> QED
  BY <1>1, InvariantIInv, PTL DEF SafeSpec, NoLateRun
=============================================================================
