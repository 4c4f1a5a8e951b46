----------------------------- MODULE DidOperation -----------------------------
(***************************************************************************)
(* What createDID and deleteDID promise their callers, whatever keys,      *)
(* signatures, polls and other calls are behind them: a call changes the   *)
(* chain in at most two steps, in order, completes at most once, and what  *)
(* it reports bounds the steps that took effect and those that still may.  *)
(***************************************************************************)
EXTENDS Integers

CONSTANT Calls

VARIABLES
    phase,    \* phase[c]: idle, running or ended
    effects,  \* effects[c]: how many of its two transactions took effect
    report    \* report[c]: {[cause, step]} once completion was called

opVars == <<phase, effects, report>>

(* Errors found before a step's request is sent. *)
Refusals == {"notReady", "noDid", "didDoesNotMatchKey", "conflictingKeyMode", "signerError"}

(* Reports that leave open whether the step's transaction takes effect.    *)
(* notReady, in the second step, also stands for an answer that held no    *)
(* transaction id.                                                         *)
LeavesOpen(r) ==
    \/ r.cause \in {"delegatorError", "transactionUnconfirmed"}
    \/ r.cause = "notReady" /\ r.step = 2

(* How many effects a call may have had when it reports r, ... *)
AtReport(r) ==
    CASE r.cause = "success" -> {2}
      [] r.cause = "eventNotFound" -> {1}
      [] LeavesOpen(r) -> {r.step - 1, r.step}
      [] OTHER -> {r.step - 1}

(* ... and how many it may come to have later. *)
AtMost(r) ==
    CASE r.cause = "success" -> 2
      [] r.cause = "eventNotFound" -> 1
      [] LeavesOpen(r) -> r.step
      [] OTHER -> r.step - 1

Causes == Refusals \cup {"delegatorError", "transactionUnconfirmed", "transactionFailed",
                        "eventNotFound", "success"}

Reports == [cause : Causes, step : {1, 2}]

OpInit ==
    /\ phase = [c \in Calls |-> "idle"]
    /\ effects = [c \in Calls |-> 0]
    /\ report = [c \in Calls |-> {}]

Begin(c) ==
    /\ phase[c] = "idle"
    /\ phase' = [phase EXCEPT ![c] = "running"]
    /\ UNCHANGED <<effects, report>>

TakeEffect(c) ==
    /\ phase[c] # "idle"
    /\ effects[c] < 2
    /\ \A r \in report[c] : effects[c] < AtMost(r)
    /\ effects' = [effects EXCEPT ![c] = @ + 1]
    /\ UNCHANGED <<phase, report>>

End(c) ==
    /\ phase[c] # "ended"
    /\ \E r \in Reports :
        /\ effects[c] \in AtReport(r)
        /\ report' = [report EXCEPT ![c] = {r}]
        /\ phase[c] = "idle" => r.cause \in {"conflictingKeyMode", "signerError"}
    /\ phase' = [phase EXCEPT ![c] = "ended"]
    /\ UNCHANGED effects

OpNext == \E c \in Calls : Begin(c) \/ TakeEffect(c) \/ End(c)

OpSpec == OpInit /\ [][OpNext]_opVars

=============================================================================
