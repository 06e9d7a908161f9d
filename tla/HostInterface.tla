----------------------------- MODULE HostInterface -----------------------------
(***************************************************************************)
(* What the AMT host interface promises to the operations that use it: a   *)
(* command is carried out at one instant between its call and its return,  *)
(* the answer tells what that instant did, and a command that returns a    *)
(* failure was not carried out.  The device changes in no other way but by *)
(* the activation of a pre-provisioned one.                                *)
(*                                                                         *)
(* The promise ends with a command that is given up on, which the device   *)
(* may carry out at any later time, and begins again with a new            *)
(* connection.                                                             *)
(***************************************************************************)
EXTENDS Integers

CONSTANTS
  Commands,             \* the commands of the interface
  Pre, Ccm, Acm, Junk   \* control modes, and any other word of an answer

VARIABLES
  phase,      \* "idle", "called", "returned", or the connection is "lost"
  command,    \* the command called last
  argument,   \* the DNS suffix that goes with it
  answers,    \* the answer under way, if the command has been processed
  result,     \* what the call returned
  mode, dns   \* the device

vars == <<phase, command, argument, answers, result, mode, dns>>

Failed == [ok |-> FALSE, word |-> Pre]

Init ==
  /\ phase \in {"idle", "called"}
  /\ command \in Commands
  /\ answers = {}
  /\ result = Failed
  /\ mode \in {Pre, Ccm, Acm}

Call(c) ==
  /\ phase \in {"idle", "returned"}
  /\ phase' = "called"
  /\ command' = c
  /\ answers' = {}
  /\ result' = Failed
  /\ UNCHANGED <<mode, dns>>

(* The instant at which the device carries out the command ...             *)
CarryOut ==
  /\ phase = "called" /\ answers = {}
  /\ \E word \in {Pre, Ccm, Acm, Junk} :
       /\ command = "mode" => word = mode
       /\ answers' = {[ok |-> TRUE, word |-> word]}
  /\ mode' = IF command = "unprov" THEN Pre ELSE mode
  /\ dns' = IF command = "setdns" THEN argument ELSE dns
  /\ UNCHANGED <<phase, command, argument, result>>

(* ... or refuses it.                                                      *)
Refuse ==
  /\ phase = "called" /\ answers = {}
  /\ answers' = {Failed}
  /\ UNCHANGED <<phase, command, argument, result, mode, dns>>

Return ==
  /\ phase = "called"
  /\ phase' = "returned"
  /\ answers = {result'}
  /\ answers' = {}
  /\ UNCHANGED <<command, argument, mode, dns>>

(* A call that returns without an answer has not been carried out.         *)
Fail ==
  /\ phase = "called" /\ answers = {}
  /\ phase' = "returned"
  /\ UNCHANGED <<command, argument, answers, result, mode, dns>>

Rest ==
  /\ phase = "returned"
  /\ phase' = "idle"
  /\ result' = Failed
  /\ UNCHANGED <<command, answers, mode, dns>>

(* The device is activated over another interface.                         *)
ActivateCcm ==
  /\ phase = "idle" /\ mode = Pre
  /\ phase' = "called"
  /\ command' \in Commands
  /\ mode' = Ccm
  /\ UNCHANGED <<answers, result, dns>>

GiveUp ==
  /\ phase = "called"
  /\ phase' = "lost"
  /\ UNCHANGED <<command, argument, mode, dns>>

(* Nothing is promised of a lost connection but that the next one starts   *)
(* with nothing under way.                                                 *)
Lost ==
  /\ phase = "lost"
  /\ phase' \in {"lost", "idle", "called"}
  /\ answers' = {} /\ result' = Failed

Next ==
  \/ \E c \in Commands : Call(c)
  \/ CarryOut \/ Refuse \/ Return \/ Fail \/ Rest
  \/ ActivateCcm \/ GiveUp \/ Lost

Spec == Init /\ [][Next]_vars
=============================================================================
