---------------------------- MODULE PimHandshake ----------------------------
(***************************************************************************)
(* The offload handshake between the host library (PIMAPI, pim_api.cc) and *)
(* the resident firmware of the PIM processor (resident.c, utils.h) over   *)
(* the memory-mapped registers COMMAND, STATUS, INTR and the data          *)
(* registers.  The interrupt is the one of the simulated PIM memory        *)
(* (ethz_pim_memory.cc): a write to INTR posts the interrupt and clears it *)
(* at once, so it wakes the processor only when that is suspended in wfi.  *)
(*                                                                         *)
(* One application thread makes a sequence of calls                        *)
(*     write_sreg; start_computation; wait_for_completion; read_sreg       *)
(* as app/linked_list and app/demo do (the other applications make one     *)
(* call).  Calls are numbered; the argument registers hold the number of   *)
(* the call that wrote them and the result register the number of the call *)
(* whose arguments the kernel computed it from.                            *)
(***************************************************************************)
EXTENDS Integers

CONSTANTS
  MaxCalls,   \* bound: how many calls the application makes
  Commands    \* what start_computation is given: RUN_KERNEL, DEMO

NOP == "NOP"

ASSUME MaxCallsAssumption == MaxCalls \in Nat
ASSUME CommandsAssumption == NOP \notin Commands

VARIABLES
  COMMAND,    \* PIM_COMMAND_REG
  STATUS,     \* PIM_STATUS_REG
  arg,        \* the argument registers (SREG[0], SREG[1]; VREG for the demo)
  result,     \* the result register (SREG[2]; VREG for the demo)
  pim,        \* where the firmware is
  latched,    \* the arguments the running kernel has read
  host,       \* where the application thread is
  call,       \* number of the current (or, when idle, of the last) call
  got,        \* the result the last finished call returned
  woken,      \* history: the current call's interrupt found PIM suspended
  runs        \* history: how often the kernel ran on the arguments of a call

hostVars == <<arg, host, call, got, woken>>
pimVars  == <<STATUS, result, pim, latched, runs>>
vars     == <<COMMAND, hostVars, pimVars>>

Calls == 1 .. MaxCalls

HostStates == {"idle", "armed", "given", "waiting", "finished", "reading"}
PimStates  == {"wfi", "awake", "accepted", "dispatch", "kernel", "executed",
               "polling", "leaving", "looping", "error"}

\* The firmware has booted (initialize_registers) and sleeps in its first wfi.
Init ==
  /\ COMMAND = NOP
  /\ STATUS = "SLEEP"
  /\ arg = 0 /\ result = 0 /\ latched = 0
  /\ pim = "wfi"
  /\ host = "idle"
  /\ call = 0 /\ got = 0
  /\ woken = FALSE
  /\ runs = [c \in Calls |-> 0]

-----------------------------------------------------------------------------
(* The application thread and PIMAPI.                                      *)

\* write_sreg / write_vreg: the arguments of the next call.
WriteSreg ==
  /\ host = "idle" /\ call < MaxCalls
  /\ call' = call + 1
  /\ arg' = call + 1
  /\ host' = "armed"
  /\ UNCHANGED <<COMMAND, got, woken, pimVars>>

\* start_computation, first half: give_command(command).
GiveCommand(c) ==
  /\ host = "armed"
  /\ COMMAND' = c
  /\ host' = "given"
  /\ UNCHANGED <<arg, call, got, woken, pimVars>>

\* start_computation, second half: wake_up() writes PIM_INTR_REG.  The device
\* posts the interrupt and clears it again: only a suspended PIM notices.
WakeUp ==
  /\ host = "given"
  /\ woken' = (pim = "wfi")
  /\ pim' = IF pim = "wfi" THEN "awake" ELSE pim
  /\ host' = "waiting"
  /\ UNCHANGED <<COMMAND, arg, call, got, STATUS, result, latched, runs>>

\* Mutant: the loop ends at the first status that is not SLEEP.
MutCheckStatus ==
  /\ host = "waiting" /\ STATUS # "SLEEP"
  /\ host' = "finished"
  /\ UNCHANGED <<COMMAND, arg, call, got, woken, pimVars>>

\* The loop of wait_for_completion sees DONE (any other status: sleep, retry).
CheckStatus ==
  /\ host = "waiting" /\ STATUS = "DONE"
  /\ host' = "finished"
  /\ UNCHANGED <<COMMAND, arg, call, got, woken, pimVars>>

\* wait_for_completion gives NOP and returns without waiting for SLEEP.
GiveNop ==
  /\ host = "finished"
  /\ COMMAND' = NOP
  /\ host' = "reading"
  /\ UNCHANGED <<arg, call, got, woken, pimVars>>

\* read_sreg / read_vreg: the call is over.
ReadSreg ==
  /\ host = "reading"
  /\ got' = result
  /\ host' = "idle"
  /\ UNCHANGED <<COMMAND, arg, call, woken, pimVars>>

HostStep ==
  \/ WriteSreg \/ (\E c \in Commands : GiveCommand(c)) \/ WakeUp
  \/ CheckStatus \/ GiveNop \/ ReadSreg

-----------------------------------------------------------------------------
(* The resident firmware.                                                  *)

PimGoto(from, to) == pim = from /\ pim' = to

\* new_command_received reads COMMAND; with NOP there, c_entry calls pim_error,
\* whose write to PIM_ERROR_REG ends the simulation.
NewCommandReceived ==
  /\ PimGoto("awake", IF COMMAND # NOP THEN "accepted" ELSE "error")
  /\ UNCHANGED <<COMMAND, STATUS, result, latched, runs, hostVars>>

SetBusy ==
  /\ PimGoto("accepted", "dispatch")
  /\ STATUS' = "BUSY"
  /\ UNCHANGED <<COMMAND, result, latched, runs, hostVars>>

\* execute_command reads COMMAND again; the kernel starts by reading its
\* arguments.
ExecuteCommand ==
  /\ PimGoto("dispatch", IF COMMAND \in Commands THEN "kernel" ELSE "error")
  /\ latched' = IF COMMAND \in Commands THEN arg ELSE latched
  /\ UNCHANGED <<COMMAND, STATUS, result, runs, hostVars>>

\* Mutant: the result is computed and not stored.
MutKernelReturns ==
  /\ PimGoto("kernel", "executed")
  /\ runs' = [runs EXCEPT ![latched] = @ + 1]
  /\ UNCHANGED <<COMMAND, STATUS, result, latched, hostVars>>

\* The kernel (execute_kernel, execute_demo) stores its result.
KernelReturns ==
  /\ PimGoto("kernel", "executed")
  /\ result' = latched
  /\ runs' = [runs EXCEPT ![latched] = @ + 1]
  /\ UNCHANGED <<COMMAND, STATUS, latched, hostVars>>

\* command_done: publish DONE, ...
SetDone ==
  /\ PimGoto("executed", "polling")
  /\ STATUS' = "DONE"
  /\ UNCHANGED <<COMMAND, result, latched, runs, hostVars>>

\* Mutants: a command that is still there is taken for a new one; the wait for
\* NOP is left out.
MutSeeNopRerun ==
  /\ PimGoto("polling", IF COMMAND = NOP THEN "leaving" ELSE "accepted")
  /\ UNCHANGED <<COMMAND, STATUS, result, latched, runs, hostVars>>

MutSeeNopSkip ==
  /\ PimGoto("polling", "leaving")
  /\ UNCHANGED <<COMMAND, STATUS, result, latched, runs, hostVars>>

\* ... wait until COMMAND reads NOP, ...
SeeNop ==
  /\ COMMAND = NOP
  /\ PimGoto("polling", "leaving")
  /\ UNCHANGED <<COMMAND, STATUS, result, latched, runs, hostVars>>

\* ... and go back to SLEEP.
SetSleep ==
  /\ PimGoto("leaving", "looping")
  /\ STATUS' = "SLEEP"
  /\ UNCHANGED <<COMMAND, result, latched, runs, hostVars>>

\* The main loop clears the DMA interrupt and executes wfi: nothing is pending,
\* so the processor suspends.
Wfi ==
  /\ PimGoto("looping", "wfi")
  /\ UNCHANGED <<COMMAND, STATUS, result, latched, runs, hostVars>>

PimStep ==
  \/ NewCommandReceived \/ SetBusy \/ ExecuteCommand \/ KernelReturns
  \/ SetDone \/ SeeNop \/ SetSleep \/ Wfi

Next == HostStep \/ PimStep

\* The application runs on Linux and the firmware on a processor of its own:
\* each of them, when it can take a step, eventually does.
Fairness == WF_vars(HostStep) /\ WF_vars(PimStep)

SafeSpec == Init /\ [][Next]_vars
Spec     == SafeSpec /\ Fairness

-----------------------------------------------------------------------------
(* Properties.                                                             *)

TypeOK ==
  /\ COMMAND \in Commands \cup {NOP}
  /\ STATUS \in {"SLEEP", "BUSY", "DONE"}
  /\ arg \in 0 .. MaxCalls /\ result \in 0 .. MaxCalls
  /\ latched \in 0 .. MaxCalls /\ got \in 0 .. MaxCalls
  /\ pim \in PimStates
  /\ host \in HostStates
  /\ call \in 0 .. MaxCalls
  /\ woken \in BOOLEAN
  /\ runs \in [Calls -> Nat]

\* What the firmware's pim_error and pim_assert calls rule out, whatever the
\* host does and however late its steps come: it never wakes up without a
\* command (resident.c:40), never dispatches NOP (utils.h:189), takes a command
\* only while STATUS is SLEEP (utils.h:204) and still finds BUSY and the
\* command when the kernel is done (utils.h:217-218).
ResidentAsserts ==
  /\ pim # "error"
  /\ pim = "accepted" => STATUS = "SLEEP"
  /\ pim = "executed" => STATUS = "BUSY" /\ COMMAND # NOP

\* From its wake-up until it publishes DONE the firmware owns the data
\* registers: the application sits in wait_for_completion, for the very call
\* whose arguments are in the registers.
RegistersOwned ==
  pim \in {"awake", "accepted", "dispatch", "kernel", "executed"} =>
    /\ host = "waiting" /\ woken
    /\ arg = call
    /\ pim \in {"kernel", "executed"} => latched = call

\* The kernel runs at most once on the arguments of a call, so that a late or
\* repeated wake-up never adds a key or increments a vector twice.
AtMostOnce == \A c \in Calls : runs[c] <= 1

\* A call whose interrupt found PIM suspended has run exactly once when it
\* returns, and returns the result of its own arguments.
WokenCallIsServed ==
  host = "idle" /\ call > 0 /\ woken => runs[call] = 1 /\ got = call

\* A kernel run belongs to the call that is being waited for: a call whose
\* interrupt was lost is never carried out behind the application's back,
\* neither while it waits nor after it has returned.
NoLateRun ==
  [][runs' # runs =>
       host = "waiting" /\ woken /\ runs' = [runs EXCEPT ![call] = @ + 1]]_vars

\* A call whose interrupt found PIM suspended returns.
WokenCallReturns == (host = "waiting" /\ woken) ~> (host = "idle")

\* pim_api.hh:36 says of wait_for_completion "Wait until PIM finishes executino
\* [BLOCKING]": when it returns, the call's command has been executed.
WaitMeansExecuted == host \in {"finished", "reading"} => runs[call] = 1
=============================================================================
