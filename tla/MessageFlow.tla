---------------------------- MODULE MessageFlow ----------------------------
(***************************************************************************)
(* What the polling of private messages promises: every message a peer     *)
(* sent is reported to OneBot, in the order of sending and once.  Messages *)
(* may be skipped or repeated only if there is an excuse for it.           *)
(***************************************************************************)
EXTENDS Naturals, Sequences

Excuses == {"loss", "replay"}

VARIABLES
    sent,     \* messages sent so far; they are numbered from 1
    log,      \* the messages in the order they were reported
    excuses   \* what may have happened to the messages

flowVars == <<sent, log, excuses>>

\* The message that must be reported next.
Due == IF log = <<>> THEN 1 ELSE log[Len(log)] + 1

FlowInit == sent = 0 /\ log = <<>> /\ excuses = {}

SendMessage == sent' = sent + 1 /\ UNCHANGED <<log, excuses>>

Report(m) ==
    /\ m \in 1..sent
    /\ m > Due => "loss" \in excuses
    /\ m < Due => "replay" \in excuses
    /\ log' = Append(log, m)
    /\ UNCHANGED <<sent, excuses>>

Excuse ==
    /\ \E x \in SUBSET Excuses : excuses' = excuses \cup x
    /\ UNCHANGED <<sent, log>>

FlowNext == SendMessage \/ (\E m \in 1..sent : Report(m)) \/ Excuse

FlowSpec == FlowInit /\ [][FlowNext]_flowVars
=============================================================================
