---------------------------- MODULE OrderedPipe ----------------------------
(***************************************************************************)
(* What a byte bridge promises: the bytes it accepted leave it one by one, *)
(* in the order of acceptance, none twice and none skipped, except that a  *)
(* session reset throws away everything that has not left yet.             *)
(*                                                                         *)
(* Byte number k is the k-th byte ever accepted, so a stream needs no      *)
(* payload: the pipe is the pair of counters and the number of the byte    *)
(* that left last (-1 before the first one).                               *)
(***************************************************************************)
EXTENDS Integers

VARIABLES accepted, delivered, wire

pipeVars == <<accepted, delivered, wire>>

PipeInit == accepted = 0 /\ delivered = 0 /\ wire = -1

Put == /\ accepted' \in Nat /\ accepted' >= accepted
       /\ UNCHANGED <<delivered, wire>>

Get == /\ delivered < accepted
       /\ wire' = delivered
       /\ delivered' = delivered + 1
       /\ UNCHANGED accepted

Discard == /\ delivered' = accepted
           /\ UNCHANGED <<accepted, wire>>

PipeNext == Put \/ Get \/ Discard

PipeSpec == PipeInit /\ [][PipeNext]_pipeVars
=============================================================================
