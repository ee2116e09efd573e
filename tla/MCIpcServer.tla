---------------------------- MODULE MCIpcServer ----------------------------
(***************************************************************************)
(* Instances of IpcServer for TLC.                                         *)
(***************************************************************************)
EXTENDS IpcServer, TLC

Plain(do) == [do |-> do, on |-> None]
Sub(topic) == [do |-> "sub", on |-> topic]
Unsub(topic) == [do |-> "unsub", on |-> topic]

CONSTANTS p1, p2
Mixed ==
    p1 :> {Plain("ask"), Sub("tag"), Unsub("tag")}
    @@ p2 :> {Plain(do) : do \in {"cmd", "mute", "garbled"}}
=============================================================================
