------------------------------ MODULE Session ------------------------------
(***************************************************************************)
(* The session controller of libdtrace (src/libdtrace/dt_work.c):         *)
(* dtrace_go, dtrace_status, dtrace_stop and dtrace_work, run by one       *)
(* calling thread, against the kernel side of a session: the BPF programs  *)
(* of the enabled probes, which run concurrently on every CPU and share    *)
(* the activity word of the state map with the library.                    *)
(*                                                                         *)
(* The calling thread is the library's only thread (spec section 5).  Its  *)
(* calls into the library are split where the kernel can act in between:  *)
(* dtrace_go runs its setup, then the BEGIN probe, then marks the session   *)
(* active; dtrace_work calls dtrace_status (which may call dtrace_stop)    *)
(* and then drains the buffers.  A probe clause on a CPU checks the        *)
(* activity word when it starts and writes its record when it ends, so a   *)
(* clause can be in flight while the library changes the activity.         *)
(*                                                                         *)
(* Records are abstracted to their identity <<source, n>>; the kernel      *)
(* side (what the BPF programs do with the activity word) is not in src/   *)
(* and is modelled from the spec and from the comments of dtrace_go.       *)
(***************************************************************************)
EXTENDS Naturals, FiniteSets

CONSTANTS
  CPUs,       \* CPUs on which enabled probes fire (model values)
  MaxFires,   \* bound on clause executions per CPU
  BufSize,    \* value of the bufsize option when dtrace_go runs
  MaxRecLen   \* dtp->dt_maxreclen, the largest trace data record

ASSUME CPUs # {} /\ MaxFires \in Nat \ {0}
ASSUME BufSize \in Nat /\ MaxRecLen \in Nat

\* sizeof(struct perf_event_header) and sizeof(uint32_t)
PerfEventHeaderSize == 8
U32Size == 4

\* The activity values of dt_state.h, ordered as the code compares them.
INACTIVE == 0
ACTIVE == 1
DRAINING == 2
STOPPED == 3
Activities == INACTIVE .. STOPPED

\* Record identities: the BEGIN and END clauses write one record each, a
\* clause on CPU c writes record <<c, n>> on its n-th execution.
BeginRec == <<"BEGIN", 1>>
EndRec == <<"END", 1>>
Records == {BeginRec, EndRec} \cup (CPUs \X (1 .. MaxFires))

VARIABLES
  dt_active,   \* dtp->dt_active
  dt_stopped,  \* dtp->dt_stopped
  maps,        \* the global BPF maps (with the state map) exist
  progs,       \* the BPF programs are loaded and attached
  activity,    \* the activity word of the state map
  upc,         \* where the calling thread is
  workRval,    \* rval of dtrace_work between its status and consume steps
  lastWork,    \* what the last completed dtrace_work returned
  kpc,         \* per CPU: "idle" or "clause" (a clause is executing)
  fired,       \* per CPU: clause executions so far
  buffer,      \* records in the perf ring buffers, not yet consumed
  owed,        \* history: the records buffered when the END clause ran
  began,       \* history: the BEGIN clause has run
  ended,       \* history: the END clause has run
  exited       \* history: some clause executed the exit() action

vars == <<dt_active, dt_stopped, maps, progs, activity, upc, workRval,
          lastWork, kpc, fired, buffer, owed, began, ended, exited>>
kernelVars == <<kpc, fired>>
historyVars == <<owed, began, ended, exited>>

(***************************************************************************)
(* The library reads and writes the activity word through the state map    *)
(* (dt_state_get_activity / dt_state_set_activity).  Before dtrace_go has   *)
(* created the maps there is no state map: a lookup leaves its zeroed      *)
(* result, INACTIVE, and an update is lost.                                *)
(***************************************************************************)
GetActivity == IF maps THEN activity ELSE INACTIVE

(* dtrace_status(), as a value of the state it is called in. *)
Status ==
  IF ~dt_active THEN "NONE"
  ELSE IF dt_stopped THEN "STOPPED"
  ELSE IF GetActivity = DRAINING THEN "EXITED"
  ELSE "OKAY"

(***************************************************************************)
(* dtrace_stop() past its "already stopped" early return: promote the      *)
(* activity to at least DRAINING, call END_probe() (the END clause runs    *)
(* there, synchronously, when its program is attached and the activity is  *)
(* DRAINING, and moves the activity to STOPPED), then set dt_stopped.      *)
(* dt_handle_status only reports drop counters and is left out.            *)
(***************************************************************************)
\* Mutant: the promotion to DRAINING is dropped.
PromotedKeep == GetActivity

Promoted == IF GetActivity < DRAINING THEN DRAINING ELSE GetActivity

DoStop ==
  /\ ~dt_stopped
  /\ dt_stopped' = TRUE
  /\ IF progs /\ Promoted = DRAINING
       THEN /\ activity' = STOPPED
            /\ buffer' = buffer \cup {EndRec}
            /\ owed' = buffer \cup {EndRec}
            /\ ended' = TRUE
       ELSE /\ activity' = IF maps THEN Promoted ELSE activity
            /\ UNCHANGED <<buffer, owed, ended>>

(***************************************************************************)
(* The calling thread.                                                     *)
(***************************************************************************)

(* The dtrace command calls dtrace_stop only on a session that dtrace_go  *)
(* started; dtrace_stop itself has no dt_active check.                     *)
MayStop == dt_active

(* dtrace_go() up to BEGIN_probe(), succeeding: the maps (a fresh, zeroed  *)
(* state map), the programs, the poll descriptor, the buffers and the      *)
(* aggregation consumer are all set up.                                    *)
BufTooSmall ==
  BufSize = 0 \/ BufSize < PerfEventHeaderSize + U32Size + MaxRecLen

GoSetup ==
  /\ upc = "idle" /\ ~dt_active
  /\ ~BufTooSmall
  /\ maps' = TRUE /\ progs' = TRUE /\ activity' = INACTIVE
  /\ upc' = "go_begin"
  /\ UNCHANGED <<dt_active, dt_stopped, workRval, lastWork, buffer>>
  /\ UNCHANGED kernelVars /\ UNCHANGED historyVars

(* dtrace_go() returning an error at one of its setup steps.  The steps   *)
(* other than the bufsize check fail for reasons outside the library.      *)
(* The caller then closes the handle.                                      *)
GoSteps == <<"gmap_create", "load_progs", "epoll_create", "epoll_ctl",
             "bufsize", "pebs_init", "aggregate_go">>

GoFail ==
  /\ upc = "idle" /\ ~dt_active
  /\ \E i \in 1 .. 7 :
       /\ GoSteps[i] = "bufsize" => BufTooSmall
       /\ \A j \in 1 .. i - 1 : GoSteps[j] = "bufsize" => ~BufTooSmall
       /\ maps' = (maps \/ i > 1)
       /\ progs' = (progs \/ i > 2)
       /\ activity' = IF i > 1 THEN INACTIVE ELSE activity
  /\ upc' = "closed"
  /\ UNCHANGED <<dt_active, dt_stopped, workRval, lastWork, buffer>>
  /\ UNCHANGED kernelVars /\ UNCHANGED historyVars

(* BEGIN_probe(): the BEGIN clause runs on the calling thread, guarded by  *)
(* an INACTIVE activity.  It writes its record and leaves the activity     *)
(* ACTIVE, or STOPPED when it executed exit() (comment in dtrace_go).      *)
GoBegin ==
  /\ upc = "go_begin"
  /\ activity = INACTIVE
  /\ buffer' = buffer \cup {BeginRec}
  /\ began' = TRUE
  /\ \/ activity' = ACTIVE /\ UNCHANGED exited
     \/ activity' = STOPPED /\ exited' = TRUE
  /\ upc' = "go_finish"
  /\ UNCHANGED <<dt_active, dt_stopped, maps, progs, workRval, lastWork>>
  /\ UNCHANGED kernelVars /\ UNCHANGED <<owed, ended>>

\* Mutant: the STOPPED activity left by an exit() in BEGIN is kept.
GoFinishNoDemote ==
  /\ upc = "go_finish"
  /\ dt_active' = TRUE
  /\ upc' = "idle"
  /\ UNCHANGED <<activity, dt_stopped, maps, progs, workRval, lastWork, buffer>>
  /\ UNCHANGED kernelVars /\ UNCHANGED historyVars

(* The rest of dtrace_go(): mark the session active and move a STOPPED     *)
(* activity back to DRAINING so that a drain cycle still runs.             *)
GoFinish ==
  /\ upc = "go_finish"
  /\ dt_active' = TRUE
  /\ activity' = IF GetActivity = STOPPED THEN DRAINING ELSE activity
  /\ upc' = "idle"
  /\ UNCHANGED <<dt_stopped, maps, progs, workRval, lastWork, buffer>>
  /\ UNCHANGED kernelVars /\ UNCHANGED historyVars

(* dtrace_stop() called by the caller.  Its early return (already stopped) *)
(* changes nothing and is a stuttering step.                               *)
Stop ==
  /\ upc = "idle" /\ MayStop
  /\ DoStop
  /\ UNCHANGED <<dt_active, maps, progs, upc, workRval, lastWork>>
  /\ UNCHANGED kernelVars /\ UNCHANGED <<began, exited>>

(* dtrace_status() called by the caller: on a draining session it stops    *)
(* it.  Its other outcomes change nothing.                                 *)
StatusCall ==
  /\ upc = "idle"
  /\ Status = "EXITED"
  /\ DoStop
  /\ UNCHANGED <<dt_active, maps, progs, upc, workRval, lastWork>>
  /\ UNCHANGED kernelVars /\ UNCHANGED <<began, exited>>

Work ==
  /\ upc = "idle" /\ dt_active
  /\ workRval' = IF Status \in {"EXITED", "STOPPED"} THEN "DONE" ELSE "OKAY"
  /\ IF Status = "EXITED"
       THEN DoStop
       ELSE UNCHANGED <<dt_stopped, activity, buffer, owed, ended>>
  /\ upc' = "consume"
  /\ UNCHANGED <<dt_active, maps, progs, lastWork>>
  /\ UNCHANGED kernelVars /\ UNCHANGED <<began, exited>>

(* dtrace_work(), second half: dtrace_consume() drains the buffers, or     *)
(* fails part way and dtrace_work returns ERROR.                           *)
WorkConsume ==
  /\ upc = "consume"
  /\ \/ buffer' = {} /\ lastWork' = workRval
     \/ \E left \in SUBSET buffer : buffer' = left /\ lastWork' = "ERROR"
  /\ upc' = "idle"
  /\ UNCHANGED <<dt_active, dt_stopped, maps, progs, activity, workRval>>
  /\ UNCHANGED kernelVars /\ UNCHANGED historyVars

(* The caller has closed the handle after a failed dtrace_go. *)
Closed ==
  /\ upc = "closed"
  /\ UNCHANGED vars

(***************************************************************************)
(* The kernel: a probe clause on CPU c starts only while the activity is   *)
(* ACTIVE, runs to completion (the BPF verifier bounds it), writes its     *)
(* record and may execute exit(), which moves an ACTIVE activity to        *)
(* DRAINING.                                                               *)
(***************************************************************************)
ProbeEnter(c) ==
  /\ progs /\ kpc[c] = "idle" /\ fired[c] < MaxFires
  /\ activity = ACTIVE
  /\ kpc' = [kpc EXCEPT ![c] = "clause"]
  /\ fired' = [fired EXCEPT ![c] = @ + 1]
  /\ UNCHANGED <<dt_active, dt_stopped, maps, progs, activity, upc,
                 workRval, lastWork, buffer>>
  /\ UNCHANGED historyVars

\* Mutant: the clause numbers its record one past its execution count.
ProbeExitOffByOne(c) ==
  /\ kpc[c] = "clause"
  /\ kpc' = [kpc EXCEPT ![c] = "idle"]
  /\ buffer' = buffer \cup {<<c, fired[c] + 1>>}
  /\ UNCHANGED <<activity, exited>>
  /\ UNCHANGED <<dt_active, dt_stopped, maps, progs, upc, workRval,
                 lastWork, fired>>
  /\ UNCHANGED <<owed, began, ended>>

ProbeExit(c) ==
  /\ kpc[c] = "clause"
  /\ kpc' = [kpc EXCEPT ![c] = "idle"]
  /\ buffer' = buffer \cup {<<c, fired[c]>>}
  /\ \/ UNCHANGED <<activity, exited>>
     \/ /\ exited' = TRUE
        /\ activity' = IF activity = ACTIVE THEN DRAINING ELSE activity
  /\ UNCHANGED <<dt_active, dt_stopped, maps, progs, upc, workRval,
                 lastWork, fired>>
  /\ UNCHANGED <<owed, began, ended>>

Init ==
  /\ dt_active = FALSE /\ dt_stopped = FALSE
  /\ maps = FALSE /\ progs = FALSE /\ activity = INACTIVE
  /\ upc = "idle" /\ workRval = "OKAY" /\ lastWork = "NONE"
  /\ kpc = [c \in CPUs |-> "idle"] /\ fired = [c \in CPUs |-> 0]
  /\ buffer = {} /\ owed = {}
  /\ began = FALSE /\ ended = FALSE /\ exited = FALSE

UserNext ==
  GoSetup \/ GoFail \/ GoBegin \/ GoFinish \/ Stop \/ StatusCall
    \/ Work \/ WorkConsume

KernelNext == \E c \in CPUs : ProbeEnter(c) \/ ProbeExit(c)

Next == UserNext \/ KernelNext \/ Closed

(* The caller keeps calling into the library (the consumer loop of the     *)
(* dtrace command), and a started clause finishes.                         *)
Fairness ==
  /\ WF_vars(UserNext)
  /\ \A c \in CPUs : WF_vars(ProbeExit(c))

Spec == Init /\ [][Next]_vars /\ Fairness

(***************************************************************************)
(* Properties.                                                             *)
(***************************************************************************)

TypeOK ==
  /\ dt_active \in BOOLEAN /\ dt_stopped \in BOOLEAN
  /\ maps \in BOOLEAN /\ progs \in BOOLEAN
  /\ activity \in Activities
  /\ upc \in {"idle", "go_begin", "go_finish", "consume", "closed"}
  /\ workRval \in {"OKAY", "DONE"}
  /\ lastWork \in {"NONE", "OKAY", "DONE", "ERROR"}
  /\ kpc \in [CPUs -> {"idle", "clause"}]
  /\ fired \in [CPUs -> 0 .. MaxFires]
  /\ buffer \subseteq Records /\ owed \subseteq Records
  /\ began \in BOOLEAN /\ ended \in BOOLEAN /\ exited \in BOOLEAN

ExitLeadsToEnd == exited ~> ended

(* The status the caller sees moves only forward, and the END clause runs  *)
(* exactly when the session becomes stopped (module SessionPhases).        *)
Phase ==
  CASE Status = "NONE" -> "none"
    [] Status = "OKAY" -> "okay"
    [] Status = "EXITED" -> "exited"
    [] Status = "STOPPED" -> "stopped"

Abstract == INSTANCE SessionPhases WITH phase <- Phase, endRan <- ended
SessionRefinement == Abstract!Spec
=============================================================================
