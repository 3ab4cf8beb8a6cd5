----------------------------- MODULE MCCompose -----------------------------
(***************************************************************************)
(* One engine on docker, alone: a spec with one service and one volume.    *)
(* Three operations are enough for a stack that was brought up and taken   *)
(* down with its volume kept, and that is brought up again while the       *)
(* daemon refuses two calls.                                               *)
(***************************************************************************)
EXTENDS Compose

OneProject == <<1>>

OneSpec == {[svcs |-> <<1>>, deps |-> {}, ver |-> 1]}
============================================================================
