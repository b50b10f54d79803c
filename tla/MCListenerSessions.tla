------------------------- MODULE MCListenerSessions -------------------------
(***************************************************************************)
(* The listeners and the TFTP transfers of a UDP listener for the model    *)
(* checker.  The two share no state: a behaviour is one of them (part) and *)
(* the other idles.  Connections, datagrams, destinations, transfer keys   *)
(* and tasks are interchangeable.                                          *)
(***************************************************************************)
EXTENDS ListenerSessions, Tftp, TLC

VARIABLE part

ListenerIdle == Init /\ blocked = {} /\ \E d \in Dests : orig = [u \in Units |-> d]
TransfersIdle == TftpInit /\ ~rooted

MCInit == \/ part = "listener" /\ Init /\ TransfersIdle
          \/ part = "tftp" /\ TftpInit /\ ListenerIdle

ListenerNext == part = "listener" /\ Next /\ UNCHANGED <<part, tftpVars>>
TransfersNext == part = "tftp" /\ TftpNext /\ UNCHANGED <<part, vars>>

MCSpec == MCInit /\ [][ListenerNext \/ TransfersNext]_<<part, vars, tftpVars>>

Symmetry == Permutations(Conns) \cup Permutations(Datagrams) \cup Permutations(Dests)
            \cup Permutations(Keys) \cup Permutations(Tasks)
=============================================================================
